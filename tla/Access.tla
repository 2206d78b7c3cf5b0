------------------------------- MODULE Access -------------------------------
(***************************************************************************)
(* Who may do what: users and their roles, login, logout, RequireAuth and  *)
(* RequireRole, and the session each request loads before its handler runs *)
(* and saves again with its answer. Requests interleave between any two    *)
(* statements; the server dies, starts again (Startup) and finds users and *)
(* sessions as they were.                                                  *)
(***************************************************************************)
EXTENDS Startup

CONSTANTS
    Procs,        \* request goroutines
    RoleInputs,   \* roles that a request may ask for
    Lifetime,     \* of a session, from its login
    IdleTimeout,  \* of a session, from its last answer
    MaxUsers,     \* bound on the rows of users
    MaxLogins,    \* bound on the tokens ever generated
    MaxClock      \* bound on the clock

ASSUME DurationsAssumption ==
    /\ Lifetime \in Nat \ {0} /\ IdleTimeout \in Nat \ {0}
ASSUME AccessBoundsAssumption ==
    /\ MaxUsers \in Nat /\ MaxLogins \in Nat /\ MaxClock \in Nat

VARIABLES
    clock,     \* the time
    sessions,  \* the sessions table, by token
    req,       \* the request each goroutine handles
    logins,    \* history: user and time of each generated token
    entitled,  \* history: the roles a request's user has held since it began,
               \* until it has done what it is for
    ended,     \* history: tokens a logout has deleted
    quiet      \* history: those deleted while no other request held them

accessVars == <<clock, sessions, req>>
history == <<logins, entitled, ended, quiet>>
vars == <<startVars, accessVars, history>>

Tokens == 1 .. MaxLogins
Times == 0 .. MaxClock
Deadlines == 0 .. MaxClock + Lifetime

\* saved, the time of the last REPLACE, is no column.
Row == [user : Nat, deadline : Deadlines, expiry : Nat, saved : Times]

Login == [user : Nat, at : Times]

\* scs's sessionData: what a request holds in memory. One without a token is
\* not saved; one with a token always is, since there is an idle timeout.
NoSession == [token |-> 0, user |-> 0, deadline |-> 0]
SessionData == [token : Tokens, user : Nat, deadline : Deadlines] \cup {NoSession}

Groups == {"adminOnly", "allRoles"}

NoRequest == [at |-> "idle", route |-> "none", user |-> 0, session |-> NoSession]

Request == [at : {"handler", "act", "respond"}, route : Groups \cup {"none", "login"},
            user : Nat, session : SessionData] \cup {NoRequest}

TypeOK ==
    /\ StartTypeOK
    /\ clock \in Times
    /\ DOMAIN sessions \subseteq Tokens
    /\ \A t \in DOMAIN sessions : sessions[t] \in Row
    /\ req \in [Procs -> Request]
    /\ logins \in Seq(Login) /\ Len(logins) <= MaxLogins
    /\ entitled \in [Procs -> SUBSET Roles]
    /\ ended \subseteq Tokens /\ quiet \subseteq Tokens

Init ==
    /\ StartInit
    /\ clock = 0
    /\ sessions = << >>
    /\ req = [p \in Procs |-> NoRequest]
    /\ logins = << >>
    /\ entitled = [p \in Procs |-> {}]
    /\ ended = {} /\ quiet = {}

-----------------------------------------------------------------------------
(* The session around a request: scs's LoadAndSave. *)

\* Seeded fault: the idle timeout is as long as the lifetime.
NeverIdle == [lifetime |-> Lifetime, idle |-> Lifetime]

SessionManager == [lifetime |-> Lifetime, idle |-> IdleTimeout]

Earlier(a, b) == IF a < b THEN a ELSE b

RowOf(session) ==
    [user |-> session.user, deadline |-> session.deadline, saved |-> clock,
     expiry |-> Earlier(session.deadline, clock + SessionManager.idle)]

WithRow(token, row) ==
    [t \in DOMAIN sessions \cup {token} |-> IF t = token THEN row ELSE sessions[t]]

Without(token) == [t \in DOMAIN sessions \ {token} |-> sessions[t]]

Found(token) == token \in DOMAIN sessions /\ clock < sessions[token].expiry

Loaded(token) ==
    IF Found(token)
    THEN [token |-> token, user |-> sessions[token].user,
          deadline |-> sessions[token].deadline]
    ELSE NoSession

\* The roles in which a user may act now: none if unknown or deactivated.
RolesHeld(id, table) ==
    IF id \in DOMAIN table /\ table[id].active THEN {table[id].role} ELSE {}

\* A request arrives, with a cookie of some login or with none.
Load(p, token) ==
    /\ phase = "serving" /\ req[p].at = "idle"
    /\ req' = [req EXCEPT ![p] = [NoRequest EXCEPT !.at = "handler",
                                                   !.session = Loaded(token)]]
    /\ entitled' = [entitled EXCEPT ![p] = RolesHeld(Loaded(token).user, users)]
    /\ UNCHANGED <<startVars, clock, sessions, logins, ended, quiet>>

\* The handler is about to write its answer; session is what it then has.
Responds(p, session) ==
    req' = [req EXCEPT ![p] = [NoRequest EXCEPT !.at = "respond",
                                                !.session = session]]

\* The first write of the answer saves the session the request has in memory,
\* with a new expiry, whatever has become of its row meanwhile.
Save(p) ==
    /\ req[p].at = "respond"
    /\ sessions' = IF req[p].session = NoSession THEN sessions
                   ELSE WithRow(req[p].session.token, RowOf(req[p].session))
    /\ req' = [req EXCEPT ![p] = NoRequest]
    /\ UNCHANGED <<startVars, clock, history>>

\* The REPLACE fails, for instance because another request writes: a 500.
FailSave(p) ==
    /\ req[p].at = "respond"
    /\ req' = [req EXCEPT ![p] = NoRequest]
    /\ UNCHANGED <<startVars, clock, sessions, history>>

\* Any refusal and any error before the answer.
Reject(p) ==
    /\ req[p].at \in {"handler", "act"}
    /\ Responds(p, req[p].session)
    /\ entitled' = [entitled EXCEPT ![p] = {}]
    /\ UNCHANGED <<startVars, clock, sessions, logins, ended, quiet>>

-----------------------------------------------------------------------------
(* LoginHandler and LogoutHandler. *)

\* The first admin's password is known only if it was printed.
CheckPassword(p, id) ==
    /\ req[p].at = "handler"
    /\ id \in DOMAIN users /\ users[id].active
    /\ id = 1 => shown
    /\ req' = [req EXCEPT ![p].at = "act", ![p].route = "login", ![p].user = id]
    /\ UNCHANGED <<startVars, clock, sessions, history>>

\* Seeded fault: the user is put into the session the request came with.
PutUserOnly(p) ==
    /\ req[p].at = "act" /\ req[p].route = "login"
    /\ Len(logins) < MaxLogins
    /\ LET old == req[p].session
           token == IF old = NoSession THEN Len(logins) + 1 ELSE old.token
       IN  /\ logins' = IF old = NoSession
                        THEN Append(logins, [user |-> req[p].user, at |-> clock])
                        ELSE logins
           /\ Responds(p, [token |-> token, user |-> req[p].user,
                            deadline |-> clock + SessionManager.lifetime])
    /\ entitled' = [entitled EXCEPT ![p] = {}]
    /\ UNCHANGED <<startVars, clock, sessions, ended, quiet>>

\* RenewToken deletes the row of the session the request came with; the new
\* one has a token and a lifetime of its own, and is stored with the answer.
LogIn(p) ==
    /\ req[p].at = "act" /\ req[p].route = "login"
    /\ Len(logins) < MaxLogins
    /\ sessions' = Without(req[p].session.token)
    /\ logins' = Append(logins, [user |-> req[p].user, at |-> clock])
    /\ Responds(p, [token |-> Len(logins) + 1, user |-> req[p].user,
                     deadline |-> clock + SessionManager.lifetime])
    /\ entitled' = [entitled EXCEPT ![p] = {}]
    /\ UNCHANGED <<startVars, clock, ended, quiet>>

\* Does another request hold the token in memory?
HeldByOther(p, token) == \E q \in Procs \ {p} : req[q].session.token = token

\* Seeded fault: the answer clears the cookie and the row stays.
LogOutOfCookie(p) ==
    /\ req[p].at = "handler"
    /\ LET gone == {req[p].session.token} \ {0}
       IN  /\ ended' = ended \cup gone
           /\ quiet' = quiet \cup {t \in gone : ~ HeldByOther(p, t)}
    /\ Responds(p, NoSession)
    /\ entitled' = [entitled EXCEPT ![p] = {}]
    /\ UNCHANGED <<startVars, clock, sessions, logins>>

\* Destroy deletes the row, and the answer saves nothing.
LogOut(p) ==
    /\ req[p].at = "handler"
    /\ sessions' = Without(req[p].session.token)
    /\ LET gone == {req[p].session.token} \ {0}
       IN  /\ ended' = ended \cup gone
           /\ quiet' = quiet \cup {t \in gone : ~ HeldByOther(p, t)}
    /\ Responds(p, NoSession)
    /\ entitled' = [entitled EXCEPT ![p] = {}]
    /\ UNCHANGED <<startVars, clock, logins>>

-----------------------------------------------------------------------------
(* RequireAuth, RequireRole and the routes behind them. *)

\* The two groups that RegisterRoutes makes. Which handler of the group runs
\* is chosen when it does.
Allowed(route) == IF route = "adminOnly" THEN {"admin"} ELSE Roles

\* Seeded fault: the account's active flag is not looked at.
AuthenticateAnyone(p, route) ==
    /\ req[p].at = "handler"
    /\ req[p].session.user \in DOMAIN users
    /\ users[req[p].session.user].role \in Allowed(route)
    /\ req' = [req EXCEPT ![p].at = "act", ![p].route = route]
    /\ UNCHANGED <<startVars, clock, sessions, history>>

\* The user is read again for every request; the role goes into its context.
Authenticate(p, route) ==
    /\ req[p].at = "handler"
    /\ req[p].session.user \in DOMAIN users
    /\ users[req[p].session.user].active
    /\ users[req[p].session.user].role \in Allowed(route)
    /\ req' = [req EXCEPT ![p].at = "act", ![p].route = route]
    /\ UNCHANGED <<startVars, clock, sessions, history>>

-----------------------------------------------------------------------------
(* The package users, and the handlers that call it. *)

\* A duplicate name or an unknown role is refused, as is an unknown id below.
CreateUser(name, role) ==
    /\ Len(users) < MaxUsers
    /\ role \in Roles /\ ~ NameTaken(name)
    /\ users' = Append(users, NewUser(name, role))

\* Seeded fault: neither the enumeration nor the schema stops an unknown role.
UpdateRoleUnchecked(id, role) ==
    /\ id \in DOMAIN users
    /\ users' = [users EXCEPT ![id].role = role]

UpdateRole(id, role) ==
    /\ role \in Roles /\ id \in DOMAIN users
    /\ users' = [users EXCEPT ![id].role = role]

Deactivate(id) ==
    /\ id \in DOMAIN users
    /\ users' = [users EXCEPT ![id].active = FALSE]

\* The ids that a path may name; zero and less are refused.
PathIds == 1 .. MaxUsers

\* The handler has made its one statement, and answers.
ManagesUsers(p) ==
    /\ req[p].at = "act" /\ req[p].route = "adminOnly"
    /\ Responds(p, req[p].session)
    /\ entitled' = [q \in Procs |->
                       IF q # p /\ req[q].at \in {"handler", "act"}
                       THEN entitled[q] \cup RolesHeld(req[q].session.user, users')
                       ELSE {}]
    /\ UNCHANGED <<phase, schemaVars, shown, clock, sessions, logins, ended, quiet>>

CreateUserHandler(p) ==
    /\ \E name \in Names, role \in RoleInputs : CreateUser(name, role)
    /\ ManagesUsers(p)

UpdateRoleHandler(p) ==
    /\ \E id \in PathIds, role \in RoleInputs : UpdateRole(id, role)
    /\ ManagesUsers(p)

DeactivateUserHandler(p) ==
    /\ \E id \in PathIds : Deactivate(id)
    /\ ManagesUsers(p)

\* Everything else behind RequireRole: the ledger, reports, the period lock, the
\* list of users, the backup status. They leave users and sessions alone.
Operate(p) ==
    /\ req[p].at = "act" /\ req[p].route \in Groups
    /\ Responds(p, req[p].session)
    /\ entitled' = [entitled EXCEPT ![p] = {}]
    /\ UNCHANGED <<startVars, clock, sessions, logins, ended, quiet>>

-----------------------------------------------------------------------------

PassTime ==
    /\ clock < MaxClock
    /\ clock' = clock + 1
    /\ UNCHANGED <<startVars, sessions, req, history>>

\* The store's goroutine deletes expired rows now and then.
Cleanup ==
    /\ phase = "serving"
    /\ sessions' = [t \in {u \in DOMAIN sessions : clock <= sessions[u].expiry}
                       |-> sessions[t]]
    /\ UNCHANGED <<startVars, clock, req, history>>

Starting == Start /\ UNCHANGED <<accessVars, history>>

\* Requests under way are lost; the tables stay.
Crash ==
    /\ Die
    /\ req' = [p \in Procs |-> NoRequest]
    /\ entitled' = [p \in Procs |-> {}]
    /\ UNCHANGED <<clock, sessions, logins, ended, quiet>>

Handle(p) ==
    \/ \E token \in 0 .. Len(logins) : Load(p, token)
    \/ \E id \in DOMAIN users : CheckPassword(p, id)
    \/ LogIn(p) \/ LogOut(p)
    \/ \E route \in Groups : Authenticate(p, route)
    \/ CreateUserHandler(p) \/ UpdateRoleHandler(p) \/ DeactivateUserHandler(p)
    \/ Operate(p) \/ Reject(p) \/ Save(p) \/ FailSave(p)

Next ==
    \/ Starting \/ Crash \/ PassTime \/ Cleanup
    \/ \E p \in Procs : Handle(p)

Spec == Init /\ [][Next]_vars

-----------------------------------------------------------------------------
(* Properties. *)

\* The step in which a request does what it was authorised for.
Acts(p) == req[p].at = "act" /\ req[p].route \in Groups /\ req'[p].at = "respond"

\* An operation is carried out only for a user who was active in a role the
\* route admits at some moment since the request began: whatever was
\* deactivated or demoted before that counts (middleware.go:23-30), in spite
\* of old sessions, restarts and requests that overlap. And the users table
\* changes in no other way, but for the first admin.
EffectsAreAuthorised ==
    [][/\ \A p \in Procs : Acts(p) => entitled[p] \cap Allowed(req[p].route) # {}
       /\ users' # users =>
             \/ phase = "inserting"
             \/ \E p \in Procs : Acts(p) /\ "admin" \in entitled[p]]_vars

\* A token belongs to one login and never comes to carry another user, though
\* copies of a session are saved late and a login may replace one
\* (api/auth.go:32-33).
SessionsKeepTheirUser ==
    \A t \in DOMAIN sessions :
        t \in DOMAIN logins /\ sessions[t].user = logins[t].user

\* A session is found only within its lifetime from the login and its idle
\* timeout from the last answer, even if a request saved a late copy
\* (session.go:24-25).
SessionsExpire ==
    [][\A p \in Procs :
          LET t == req'[p].session.token
          IN  req[p].at = "idle" /\ t # 0 =>
                 /\ clock < logins[t].at + Lifetime
                 /\ clock < sessions[t].saved + IdleTimeout]_vars

\* What a logout deleted while no other request held the session is never
\* accepted again.
QuietLogoutIsFinal == quiet \cap DOMAIN sessions = {}

-----------------------------------------------------------------------------
(* What the documentation says and the code does not do. *)

\* The next request with a revoked session is rejected
\* (session_test.go:277-278, 02-01-PLAN.md:33). A request that had loaded the
\* session before the logout stores it again with its answer.
LogoutIsFinal ==
    [][\A p \in Procs :
          req[p].at = "idle" => req'[p].session.token \notin ended]_vars
=============================================================================
