---------------------------- MODULE AccessProofs ----------------------------
(***************************************************************************)
(* Safety of Access for any number of requests, users, logins, migrations  *)
(* and restarts. One conjunct of the inductive invariant at a time, each   *)
(* on top of those before it.                                              *)
(***************************************************************************)
EXTENDS Access, TLAPS

USE MigrationsAssumption, DurationsAssumption, AccessBoundsAssumption

\* What the roles a user holds are: one role at most, of the enumeration.
LEMMA RolesHeldAreRoles ==
    ASSUME NEW table \in Seq(User), NEW id
    PROVE  RolesHeld(id, table) \subseteq Roles
<1>1. id \in DOMAIN table => table[id] \in User  OBVIOUS
<1>. QED  BY <1>1 DEF RolesHeld, User

\* What a request loads is session data with the token it came with, or none.
LEMMA LoadedType ==
    ASSUME TypeOK, NEW token
    PROVE  /\ Loaded(token) \in SessionData
           /\ Loaded(token) # NoSession => token \in DOMAIN sessions /\ Found(token)
BY DEF TypeOK, Loaded, Found, SessionData, Row

\* What a request under way is, and one that is not.
LEMMA RequestType ==
    ASSUME TypeOK, NEW p \in Procs
    PROVE  /\ req[p] \in Request
           /\ req[p].session \in SessionData
           /\ req[p].user \in Nat
           /\ req[p].at = "idle" => req[p] = NoRequest
           /\ req[p].at # "idle" =>
                 req[p] \in [at : {"handler", "act", "respond"},
                            route : Groups \cup {"none", "login"},
                            user : Nat, session : SessionData]
BY DEF TypeOK, Request, NoRequest, SessionData

\* The row a session is saved as, with an expiry bounded both ways.
LEMMA RowOfType ==
    ASSUME TypeOK, NEW p \in Procs, req[p].session # NoSession
    PROVE  /\ RowOf(req[p].session) \in Row
           /\ RowOf(req[p].session).expiry <= req[p].session.deadline
           /\ RowOf(req[p].session).expiry <= clock + IdleTimeout
<1>1. req[p].session \in [token : Tokens, user : Nat, deadline : Deadlines]
  BY RequestType DEF SessionData
<1>2. /\ req[p].session.user \in Nat
      /\ req[p].session.deadline \in Nat /\ req[p].session.deadline \in Deadlines
      /\ clock \in Nat /\ clock \in Times
  BY <1>1 DEF TypeOK, Deadlines, Times
<1>. QED  BY <1>2 DEF RowOf, Row, Earlier, SessionManager

-----------------------------------------------------------------------------
(* The schema and the first admin. *)

\* What main knows at each step about what earlier starts have left: the
\* marker of golang-migrate is one migration ahead while it is dirty, and at
\* no other time.
StartInv ==
    /\ StartTypeOK
    /\ ~ dirty => applied = 1 .. version
    /\ dirty => version > 0 /\ applied \in {1 .. version, 1 .. version - 1}
    /\ phase = "running" => dirty /\ applied = 1 .. version - 1
    /\ phase = "clearing" => dirty /\ applied = 1 .. version
    /\ phase \in {"counting", "inserting", "printing", "ready", "serving"}
          => version = Migrations
    /\ phase \in {"migrating", "counting", "inserting", "printing", "ready", "serving"}
          => ~ dirty
    /\ phase = "refused" => dirty
    /\ phase = "inserting" => users = << >>
    /\ phase \in {"printing", "ready", "serving"} => users # << >>

\* Each step of main keeps it.
LEMMA StartKeepsInv == ASSUME StartInv, Start \/ Die PROVE StartInv'
<1>. USE DEF StartInv, StartTypeOK, Phases, schemaVars
<1>1. CASE Boot BY <1>1 DEF Boot
<1>2. CASE ReadVersion BY <1>2 DEF ReadVersion
<1>3. CASE MarkDirty BY <1>3 DEF MarkDirty
<1>4. CASE RunMigration
  <2>1. applied' = 1 .. version  BY <1>4 DEF RunMigration
  <2>. QED  BY <1>4, <2>1 DEF RunMigration
<1>5. CASE ClearDirty BY <1>5 DEF ClearDirty
<1>6. CASE FinishMigrations BY <1>6 DEF FinishMigrations
<1>7. CASE CountUsers BY <1>7 DEF CountUsers, NoUser
<1>8. CASE InsertAdmin
  <2>1. NewUser("admin", "admin") \in User  BY DEF NewUser, User, Roles
  <2>2. ~ NameTaken("admin")  BY <1>8 DEF InsertAdmin, NameTaken
  <2>3. users' = Append(users, NewUser("admin", "admin"))
    BY <1>8, <2>2 DEF InsertAdmin
  <2>4. users' \in Seq(User) /\ users' # << >>  BY <2>1, <2>3
  <2>. QED  BY <1>8, <2>2, <2>4 DEF InsertAdmin
<1>9. CASE PrintPassword BY <1>9 DEF PrintPassword
<1>10. CASE Listen BY <1>10 DEF Listen
<1>11. CASE Die BY <1>11 DEF Die
<1>. QED  BY <1>1, <1>2, <1>3, <1>4, <1>5, <1>6, <1>7, <1>8, <1>9, <1>10, <1>11 DEF Start

-----------------------------------------------------------------------------
(* Types. *)

\* What a request that responds looks like.
LEMMA RespondsType ==
    ASSUME TypeOK, NEW p \in Procs, NEW session \in SessionData, Responds(p, session)
    PROVE  req' \in [Procs -> Request]
BY DEF Responds, TypeOK, Request, NoRequest, SessionData, NoSession

\* Deleting or writing a row keeps the type of the sessions table.
LEMMA SessionsType ==
    ASSUME TypeOK
    PROVE  /\ \A token : /\ DOMAIN Without(token) \subseteq Tokens
                         /\ \A t \in DOMAIN Without(token) : Without(token)[t] \in Row
           /\ \A token \in Tokens, row \in Row :
                 /\ DOMAIN WithRow(token, row) \subseteq Tokens
                 /\ \A t \in DOMAIN WithRow(token, row) : WithRow(token, row)[t] \in Row
BY DEF TypeOK, Without, WithRow

\* The users table after each operation of an admin.
LEMMA UsersType ==
    ASSUME StartTypeOK
    PROVE  /\ \A name \in Names, role \in Roles :
                 Append(users, NewUser(name, role)) \in Seq(User)
           /\ \A id \in DOMAIN users, role \in Roles :
                 [users EXCEPT ![id].role = role] \in Seq(User)
           /\ \A id \in DOMAIN users :
                 [users EXCEPT ![id].active = FALSE] \in Seq(User)
<1>1. users \in Seq(User)  BY DEF StartTypeOK
<1>2. ASSUME NEW name \in Names, NEW role \in Roles
      PROVE  Append(users, NewUser(name, role)) \in Seq(User)
  <2>1. NewUser(name, role) \in User  BY DEF NewUser, User
  <2>. QED  BY <1>1, <2>1
<1>3. ASSUME NEW id \in DOMAIN users, NEW u \in User
      PROVE  [users EXCEPT ![id] = u] \in Seq(User)
  BY <1>1
<1>4. ASSUME NEW id \in DOMAIN users
      PROVE  users[id] \in User
  BY <1>1
<1>5. ASSUME NEW id \in DOMAIN users, NEW role \in Roles
      PROVE  [users EXCEPT ![id].role = role] \in Seq(User)
  <2>1. [users[id] EXCEPT !.role = role] \in User  BY <1>4 DEF User
  <2>2. [users EXCEPT ![id].role = role]
           = [users EXCEPT ![id] = [users[id] EXCEPT !.role = role]]
    OBVIOUS
  <2>. QED  BY <1>3, <2>1, <2>2
<1>6. ASSUME NEW id \in DOMAIN users
      PROVE  [users EXCEPT ![id].active = FALSE] \in Seq(User)
  <2>1. [users[id] EXCEPT !.active = FALSE] \in User  BY <1>4 DEF User
  <2>2. [users EXCEPT ![id].active = FALSE]
           = [users EXCEPT ![id] = [users[id] EXCEPT !.active = FALSE]]
    OBVIOUS
  <2>. QED  BY <1>3, <2>1, <2>2
<1>. QED  BY <1>2, <1>5, <1>6

\* Types, the state of main, and that requests run only while it serves.
Typed ==
    /\ TypeOK
    /\ StartInv
    /\ phase # "serving" => req = [p \in Procs |-> NoRequest]

\* An operation on the users table keeps them.
LEMMA ManagesUsersTyped ==
    ASSUME Typed, NEW p \in Procs, users' \in Seq(User), users' # << >>,
           ManagesUsers(p)
    PROVE  Typed'
<1>1. phase = "serving"  BY DEF ManagesUsers, Typed, NoRequest
<1>2. req[p].session \in SessionData  BY RequestType DEF Typed
<1>3. req' \in [Procs -> Request]
  BY <1>2, RespondsType DEF Typed, ManagesUsers
<1>4. \A q \in Procs : RolesHeld(req[q].session.user, users') \subseteq Roles
  BY RolesHeldAreRoles
<1>5. entitled' \in [Procs -> SUBSET Roles]
  BY <1>4 DEF ManagesUsers, Typed, TypeOK
<1>6. StartInv'
  BY <1>1 DEF ManagesUsers, Typed, StartInv, StartTypeOK, schemaVars
<1>7. TypeOK'
  BY <1>3, <1>5, <1>6 DEF ManagesUsers, Typed, TypeOK, StartInv, schemaVars
<1>. QED  BY <1>1, <1>6, <1>7 DEF ManagesUsers, Typed

\* So does every step of a request.
LEMMA HandleTyped == ASSUME Typed, NEW p \in Procs, Handle(p) PROVE Typed'
<1>. USE DEF Typed
<1>1. /\ req[p] \in Request /\ req[p].session \in SessionData
      /\ req[p].user \in Nat
      /\ req[p].at # "idle" =>
            req[p] \in [at : {"handler", "act", "respond"},
                       route : Groups \cup {"none", "login"},
                       user : Nat, session : SessionData]
  BY RequestType
<1>2. NoSession \in SessionData  BY DEF SessionData
<1>3. ASSUME UNCHANGED startVars
      PROVE  StartTypeOK' /\ StartInv' /\ phase' = phase
  BY <1>3 DEF startVars, schemaVars, StartTypeOK, StartInv
<1>4. ASSUME req[p].at # "idle" PROVE phase = "serving"
  BY <1>4 DEF NoRequest
<1>5. ASSUME NEW token \in 0 .. Len(logins), Load(p, token) PROVE Typed'
  <2>1. Loaded(token) \in SessionData  BY LoadedType
  <2>2. req' \in [Procs -> Request]
    BY <1>5, <2>1 DEF Load, TypeOK, Request, NoRequest
  <2>3. RolesHeld(Loaded(token).user, users) \subseteq Roles
    BY RolesHeldAreRoles DEF TypeOK, StartTypeOK
  <2>4. entitled' \in [Procs -> SUBSET Roles]
    BY <1>5, <2>3 DEF Load, TypeOK
  <2>. QED  BY <1>3, <1>5, <2>2, <2>4 DEF Load, TypeOK
<1>6. ASSUME NEW id \in DOMAIN users, CheckPassword(p, id) PROVE Typed'
  <2>1. id \in Nat  BY DEF TypeOK, StartTypeOK
  <2>2. req' \in [Procs -> Request]
    BY <1>1, <1>6, <2>1 DEF CheckPassword, TypeOK, Request, Groups
  <2>. QED  BY <1>3, <1>4, <1>6, <2>2 DEF CheckPassword, TypeOK, history
<1>7. CASE LogIn(p)
  <2>. DEFINE new == [token |-> Len(logins) + 1, user |-> req[p].user,
                      deadline |-> clock + SessionManager.lifetime]
  <2>1. new \in SessionData
    BY <1>1, <1>7 DEF LogIn, TypeOK, SessionData, Request, Tokens, Times, Deadlines,
                     SessionManager
  <2>2. req' \in [Procs -> Request]  BY <1>7, <2>1, RespondsType DEF LogIn
  <2>3. /\ logins' \in Seq(Login)
        /\ Len(logins') <= MaxLogins
    <3>1. [user |-> req[p].user, at |-> clock] \in Login
      BY <1>1 DEF TypeOK, Login
    <3>. QED  BY <1>7, <3>1 DEF LogIn, TypeOK
  <2>. QED  BY <1>3, <1>4, <1>7, <2>2, <2>3, SessionsType DEF LogIn, TypeOK
<1>8. CASE LogOut(p)
  <2>1. req' \in [Procs -> Request]  BY <1>2, <1>8, RespondsType DEF LogOut
  <2>2. {req[p].session.token} \ {0} \subseteq Tokens
    BY <1>1 DEF SessionData, NoSession
  <2>. QED  BY <1>3, <1>4, <1>8, <2>1, <2>2, SessionsType DEF LogOut, TypeOK
<1>9. ASSUME NEW route \in Groups, Authenticate(p, route) PROVE Typed'
  <2>1. req' \in [Procs -> Request]
    BY <1>1, <1>9 DEF Authenticate, TypeOK, Request
  <2>. QED  BY <1>3, <1>4, <1>9, <2>1 DEF Authenticate, TypeOK, history
<1>10. CASE CreateUserHandler(p)
  <2>1. PICK name \in Names, role \in RoleInputs : CreateUser(name, role)
    BY <1>10 DEF CreateUserHandler
  <2>2. Append(users, NewUser(name, role)) # << >>  BY DEF TypeOK, StartTypeOK
  <2>3. users' \in Seq(User) /\ users' # << >>
    BY <2>1, <2>2, UsersType DEF CreateUser, TypeOK
  <2>. QED  BY <1>10, <2>3, ManagesUsersTyped DEF CreateUserHandler
<1>11. CASE UpdateRoleHandler(p)
  <2>1. PICK id \in PathIds, role \in RoleInputs : UpdateRole(id, role)
    BY <1>11 DEF UpdateRoleHandler
  <2>2. [users EXCEPT ![id].role = role] # << >>
    BY <2>1 DEF UpdateRole, TypeOK, StartTypeOK
  <2>3. users' \in Seq(User) /\ users' # << >>
    BY <2>1, <2>2, UsersType DEF UpdateRole, TypeOK
  <2>. QED  BY <1>11, <2>3, ManagesUsersTyped DEF UpdateRoleHandler
<1>12. CASE DeactivateUserHandler(p)
  <2>1. PICK id \in PathIds : Deactivate(id)
    BY <1>12 DEF DeactivateUserHandler
  <2>2. [users EXCEPT ![id].active = FALSE] # << >>
    BY <2>1 DEF Deactivate, TypeOK, StartTypeOK
  <2>3. users' \in Seq(User) /\ users' # << >>
    BY <2>1, <2>2, UsersType DEF Deactivate, TypeOK
  <2>. QED  BY <1>12, <2>3, ManagesUsersTyped DEF DeactivateUserHandler
<1>13. CASE Operate(p)
  <2>1. req' \in [Procs -> Request]  BY <1>1, <1>13, RespondsType DEF Operate
  <2>. QED  BY <1>3, <1>4, <1>13, <2>1 DEF Operate, TypeOK
<1>14. CASE Reject(p)
  <2>1. req' \in [Procs -> Request]  BY <1>1, <1>14, RespondsType DEF Reject
  <2>. QED  BY <1>3, <1>4, <1>14, <2>1 DEF Reject, TypeOK
<1>15. CASE Save(p)
  <2>1. req' \in [Procs -> Request]
    BY <1>2, <1>15 DEF Save, TypeOK, Request, NoRequest
  <2>2. /\ DOMAIN sessions' \subseteq Tokens
        /\ \A t \in DOMAIN sessions' : sessions'[t] \in Row
    <3>1. CASE req[p].session = NoSession  BY <1>15, <3>1 DEF Save, TypeOK
    <3>2. CASE req[p].session # NoSession
      <4>1. req[p].session.token \in Tokens  BY <1>1, <3>2 DEF SessionData
      <4>2. RowOf(req[p].session) \in Row  BY <3>2, RowOfType
      <4>. QED  BY <1>15, <3>2, <4>1, <4>2, SessionsType DEF Save
    <3>. QED  BY <3>1, <3>2
  <2>. QED  BY <1>3, <1>4, <1>15, <2>1, <2>2 DEF Save, TypeOK, history
<1>16. CASE FailSave(p)
  <2>1. req' \in [Procs -> Request]
    BY <1>2, <1>16 DEF FailSave, TypeOK, Request, NoRequest
  <2>. QED  BY <1>3, <1>4, <1>16, <2>1 DEF FailSave, TypeOK, history
<1>. QED
  BY <1>5, <1>6, <1>7, <1>8, <1>9, <1>10, <1>11, <1>12, <1>13, <1>14, <1>15, <1>16
  DEF Handle

\* And every other step: of main, of the clock, of the store, a crash.
LEMMA TypedStep == ASSUME Typed, [Next]_vars PROVE Typed'
<1>. USE DEF Typed
<1>1. CASE Starting
  <2>1. StartInv'  BY <1>1, StartKeepsInv DEF Starting
  <2>2. phase = "serving" => FALSE
    BY <1>1 DEF Starting, Start, Boot, ReadVersion, MarkDirty, RunMigration,
       ClearDirty, FinishMigrations, CountUsers, InsertAdmin, PrintPassword, Listen
  <2>. QED  BY <1>1, <2>1, <2>2 DEF Starting, accessVars, history, TypeOK, StartInv
<1>2. CASE Crash
  <2>1. StartInv'  BY <1>2, StartKeepsInv DEF Crash
  <2>2. NoRequest \in Request
    BY DEF NoRequest, Request, SessionData, NoSession
  <2>3. req' \in [Procs -> Request]  BY <1>2, <2>2 DEF Crash
  <2>. QED  BY <1>2, <2>1, <2>3 DEF Crash, TypeOK, StartInv
<1>3. CASE PassTime
  BY <1>3 DEF PassTime, startVars, schemaVars, history, TypeOK, StartTypeOK, StartInv,
     Times
<1>4. CASE Cleanup
  BY <1>4 DEF Cleanup, startVars, schemaVars, history, TypeOK, StartTypeOK, StartInv
<1>5. ASSUME NEW p \in Procs, Handle(p) PROVE Typed'
  BY <1>5, HandleTyped
<1>6. CASE UNCHANGED vars
  BY <1>6 DEF vars, startVars, schemaVars, accessVars, history, TypeOK, StartTypeOK,
     StartInv
<1>. QED  BY <1>1, <1>2, <1>3, <1>4, <1>5, <1>6 DEF Next

\* It holds of a new installation.
LEMMA TypedInit == Init => Typed
<1>. SUFFICES ASSUME Init PROVE Typed  OBVIOUS
<1>1. StartTypeOK
  <2>1. phase \in Phases  BY DEF Init, StartInit, Phases
  <2>2. version \in 0 .. Migrations  BY DEF Init, StartInit
  <2>3. users \in Seq(User)  BY DEF Init, StartInit
  <2>4. dirty \in BOOLEAN /\ applied \subseteq 1 .. Migrations /\ shown \in BOOLEAN
    BY Zenon DEF Init, StartInit
  <2>. QED  BY <2>1, <2>2, <2>3, <2>4 DEF StartTypeOK
<1>2. applied = 1 .. version
  BY DEF Init, StartInit
<1>3. StartInv
  BY <1>1, <1>2 DEF Init, StartInit, StartInv
<1>4. NoRequest \in Request
  BY DEF NoRequest, Request, SessionData, NoSession
<1>. QED  BY <1>3, <1>4 DEF Init, Typed, TypeOK, StartInv, Times

\* Every variable keeps its type.
THEOREM AccessIsTyped == Spec => []TypeOK
<1>1. Spec => []Typed  BY TypedInit, TypedStep, PTL DEF Spec
<1>2. Typed => TypeOK  BY DEF Typed
<1>. QED  BY <1>1, <1>2, PTL

\* However often the server has died while it migrated or created the first
\* admin, one that serves has the whole schema, with no migration cut short or
\* repeated, and a user.
THEOREM ServedSchemaIsWhole == Spec => []ServesWholeSchema
<1>1. Spec => []Typed  BY TypedInit, TypedStep, PTL DEF Spec
<1>2. Typed => ServesWholeSchema  BY DEF Typed, StartInv, ServesWholeSchema
<1>. QED  BY <1>1, <1>2, PTL

\* Nothing that users, requests or crashes do makes a later start refuse, but a
\* crash inside a migration.
THEOREM OnlyDirtySchemaIsRefused == Spec => []RefusesOnlyDirtySchema
<1>1. Spec => []Typed  BY TypedInit, TypedStep, PTL DEF Spec
<1>2. Typed => RefusesOnlyDirtySchema
  BY DEF Typed, StartInv, RefusesOnlyDirtySchema
<1>. QED  BY <1>1, <1>2, PTL

-----------------------------------------------------------------------------
(* Sessions. *)

\* user and deadline, of a row or of a copy in memory, are those of the login
\* that generated the token.
OfLogin(token, s) ==
    /\ token \in DOMAIN logins
    /\ s.user = logins[token].user
    /\ s.deadline = logins[token].at + Lifetime

\* Rows and copies are those of their logins, so that a late copy changes
\* nothing of a row but its expiry, and that stays within both limits.
SessionInv ==
    /\ \A t \in DOMAIN sessions :
          /\ OfLogin(t, sessions[t])
          /\ sessions[t].expiry <= sessions[t].deadline
          /\ sessions[t].expiry <= sessions[t].saved + IdleTimeout
    /\ \A p \in Procs : req[p].session # NoSession =>
          OfLogin(req[p].session.token, req[p].session)

\* Steps that give no request a session leave the tokens alone, and all but
\* two of them the table too.
LEMMA CopiesOfStep ==
    ASSUME Typed, [Next]_vars
    PROVE  \/ \E p \in Procs, token \in 0 .. Len(logins) : Load(p, token)
           \/ \E p \in Procs : LogIn(p) \/ LogOut(p)
           \/ /\ \A q \in Procs : req'[q].session \in {req[q].session, NoSession}
              /\ UNCHANGED <<logins, quiet>>
              /\ UNCHANGED sessions \/ Cleanup \/ \E p \in Procs : Save(p)
<1>. DEFINE Quiet == /\ \A q \in Procs : req'[q].session \in {req[q].session, NoSession}
                     /\ UNCHANGED <<logins, quiet>>
<1>. USE DEF Typed, TypeOK
<1>1. NoRequest.session = NoSession  BY DEF NoRequest
<1>2. CASE UNCHANGED vars
  BY <1>2 DEF vars, accessVars, history
<1>3. CASE Starting
  BY <1>3 DEF Starting, accessVars, history
<1>4. CASE Crash
  BY <1>1, <1>4 DEF Crash
<1>5. CASE PassTime
  BY <1>5 DEF PassTime, history
<1>6. CASE Cleanup
  BY <1>6 DEF Cleanup, history
<1>7. ASSUME NEW p \in Procs, Responds(p, req[p].session)
      PROVE  \A q \in Procs : req'[q].session \in {req[q].session, NoSession}
  BY <1>7 DEF Responds, NoRequest
<1>8. ASSUME NEW p \in Procs, ManagesUsers(p)
      PROVE  Quiet /\ UNCHANGED sessions
  BY <1>7, <1>8 DEF ManagesUsers
<1>9. ASSUME NEW p \in Procs, Handle(p),
             ~ \E token \in 0 .. Len(logins) : Load(p, token),
             ~ LogIn(p), ~ LogOut(p)
      PROVE  Quiet /\ (UNCHANGED sessions \/ Save(p))
  <2>1. ASSUME NEW id \in DOMAIN users, CheckPassword(p, id)
        PROVE  Quiet /\ UNCHANGED sessions
    BY <2>1 DEF CheckPassword, history
  <2>2. ASSUME NEW route \in Groups, Authenticate(p, route)
        PROVE  Quiet /\ UNCHANGED sessions
    BY <2>2 DEF Authenticate, history
  <2>3. ManagesUsers(p) => Quiet /\ UNCHANGED sessions
    BY <1>8
  <2>6. CASE Operate(p)  BY <1>7, <2>6 DEF Operate
  <2>7. CASE Reject(p)  BY <1>7, <2>7 DEF Reject
  <2>8. CASE Save(p) \/ FailSave(p)
    BY <1>1, <2>8 DEF Save, FailSave, history
  <2>. QED
    BY <1>9, <2>1, <2>2, <2>3, <2>6, <2>7, <2>8
    DEF Handle, CreateUserHandler, UpdateRoleHandler, DeactivateUserHandler
<1>. QED  BY <1>2, <1>3, <1>4, <1>5, <1>6, <1>9 DEF Next

\* Every step keeps it.
LEMMA SessionStep == ASSUME Typed, SessionInv, [Next]_vars PROVE SessionInv'
<1>. USE DEF OfLogin
<1>t. TypeOK /\ TypeOK'  BY TypedStep DEF Typed
<1>1. ASSUME NEW p \in Procs, NEW token \in 0 .. Len(logins), Load(p, token)
      PROVE  SessionInv'
  <2>1. Loaded(token) # NoSession =>
           /\ Loaded(token).token \in DOMAIN sessions
           /\ Loaded(token).user = sessions[Loaded(token).token].user
           /\ Loaded(token).deadline = sessions[Loaded(token).token].deadline
    BY DEF Loaded, Found
  <2>2. Loaded(token) # NoSession => OfLogin(Loaded(token).token, Loaded(token))
    BY <2>1 DEF SessionInv
  <2>3. \A q \in Procs :
           req'[q].session = IF q = p THEN Loaded(token) ELSE req[q].session
    BY <1>1, <1>t DEF Load, TypeOK, NoRequest
  <2>. QED  BY <1>1, <2>2, <2>3 DEF Load, SessionInv
<1>2. ASSUME NEW p \in Procs, LogIn(p)
      PROVE  SessionInv'
  <2>. DEFINE new == [token |-> Len(logins) + 1, user |-> req[p].user,
                      deadline |-> clock + SessionManager.lifetime]
  <2>1. logins' = Append(logins, [user |-> req[p].user, at |-> clock])
    BY <1>2 DEF LogIn
  <2>2. /\ \A t \in DOMAIN logins : t \in DOMAIN logins' /\ logins'[t] = logins[t]
        /\ Len(logins) + 1 \in DOMAIN logins'
        /\ logins'[Len(logins) + 1] = [user |-> req[p].user, at |-> clock]
    BY <1>t, <2>1 DEF TypeOK
  <2>3. \A q \in Procs : req'[q].session = IF q = p THEN new ELSE req[q].session
    BY <1>2, <1>t DEF LogIn, Responds, TypeOK, NoRequest
  <2>4. /\ new.token \in DOMAIN logins'
        /\ new.user = logins'[new.token].user
        /\ new.deadline = logins'[new.token].at + Lifetime
    <3>1. new.user = req[p].user /\ new.token = Len(logins) + 1
          /\ new.deadline = clock + Lifetime
      BY DEF SessionManager
    <3>. HIDE DEF new
    <3>. QED  BY <2>2, <3>1
  <2>5. \A t \in DOMAIN sessions' : t \in DOMAIN sessions /\ sessions'[t] = sessions[t]
    BY <1>2 DEF LogIn, Without
  <2>. QED  BY <2>2, <2>3, <2>4, <2>5 DEF SessionInv
<1>3. ASSUME NEW p \in Procs, LogOut(p)
      PROVE  SessionInv'
  <2>1. \A q \in Procs : req'[q].session \in {req[q].session, NoSession}
    BY <1>3, <1>t DEF LogOut, Responds, TypeOK, NoRequest
  <2>2. \A t \in DOMAIN sessions' : t \in DOMAIN sessions /\ sessions'[t] = sessions[t]
    BY <1>3 DEF LogOut, Without
  <2>. QED  BY <1>3, <2>1, <2>2 DEF LogOut, SessionInv
<1>4. ASSUME \A q \in Procs : req'[q].session \in {req[q].session, NoSession},
             UNCHANGED logins
      PROVE  \A q \in Procs : req'[q].session # NoSession =>
                OfLogin(req[q].session.token, req[q].session)'
  BY <1>4 DEF SessionInv
<1>5. ASSUME NEW p \in Procs, Save(p), req[p].session # NoSession
      PROVE  \A t \in DOMAIN sessions' :
                /\ OfLogin(t, sessions[t])'
                /\ sessions'[t].expiry <= sessions'[t].deadline
                /\ sessions'[t].expiry <= sessions'[t].saved + IdleTimeout
  <2>. DEFINE token == req[p].session.token
              row == RowOf(req[p].session)
  <2>1. sessions' = WithRow(token, row) /\ UNCHANGED logins
    BY <1>5 DEF Save, history
  <2>2. OfLogin(token, row)
    BY <1>5 DEF SessionInv, RowOf
  <2>3. /\ row.expiry <= row.deadline
        /\ row.expiry <= row.saved + IdleTimeout
    BY <1>5, <1>t, RowOfType DEF RowOf
  <2>. HIDE DEF token, row
  <2>4. \A t \in DOMAIN sessions' : \/ t = token /\ sessions'[t] = row
                                    \/ t \in DOMAIN sessions /\ sessions'[t] = sessions[t]
    BY <2>1 DEF WithRow
  <2>. QED  BY <2>1, <2>2, <2>3, <2>4 DEF SessionInv
<1>6. ASSUME UNCHANGED sessions \/ Cleanup, UNCHANGED logins
      PROVE  \A t \in DOMAIN sessions' :
                /\ OfLogin(t, sessions[t])'
                /\ sessions'[t].expiry <= sessions'[t].deadline
                /\ sessions'[t].expiry <= sessions'[t].saved + IdleTimeout
  <2>1. \A t \in DOMAIN sessions' : t \in DOMAIN sessions /\ sessions'[t] = sessions[t]
    BY <1>6 DEF Cleanup
  <2>. QED  BY <1>6, <2>1 DEF SessionInv
<1>7. ASSUME NEW p \in Procs, Save(p), req[p].session = NoSession
      PROVE  UNCHANGED sessions
  BY <1>7 DEF Save
<1>. QED  BY <1>1, <1>2, <1>3, <1>4, <1>5, <1>6, <1>7, CopiesOfStep DEF SessionInv

\* The typed invariant and that of sessions, of every reachable state.
LEMMA SessionInvariant == Spec => [](Typed /\ SessionInv)
<1>1. Init => Typed /\ SessionInv
  <2>1. Init => SessionInv  BY DEF Init, SessionInv, NoRequest
  <2>. QED  BY <2>1, TypedInit
<1>2. Typed /\ SessionInv /\ [Next]_vars => (Typed /\ SessionInv)'
  BY TypedStep, SessionStep
<1>. QED  BY <1>1, <1>2, PTL DEF Spec

\* A token belongs to one login and never comes to carry another user, though
\* copies of a session are saved late and a login may replace one.
THEOREM TokensKeepTheirUser == Spec => []SessionsKeepTheirUser
<1>1. SessionInv => SessionsKeepTheirUser
  BY DEF SessionInv, OfLogin, SessionsKeepTheirUser
<1>. QED  BY <1>1, SessionInvariant, PTL

\* A session is found only within its lifetime from the login and its idle
\* timeout from the last answer, whoever saved a copy when.
THEOREM SessionsDoExpire == Spec => SessionsExpire
<1>. DEFINE Expire ==
        \A p \in Procs :
           LET t == req'[p].session.token
           IN  req[p].at = "idle" /\ t # 0 =>
                  /\ clock < logins[t].at + Lifetime
                  /\ clock < sessions[t].saved + IdleTimeout
<1>1. ASSUME Typed, SessionInv, [Next]_vars PROVE Expire
  <2>. USE <1>1
  <2>. SUFFICES ASSUME NEW p \in Procs, req[p].at = "idle", req'[p].session.token # 0
                PROVE  LET t == req'[p].session.token
                       IN  /\ clock < logins[t].at + Lifetime
                           /\ clock < sessions[t].saved + IdleTimeout
    OBVIOUS
  <2>1. req[p].session = NoSession
    BY RequestType DEF Typed, NoRequest
  <2>2. NoSession.token = 0 /\ req[p].session.token = 0  BY <2>1 DEF NoSession
  <2>3. PICK token \in 0 .. Len(logins) : Load(p, token)
    <3>1. ASSUME NEW q \in Procs, NEW token \in 0 .. Len(logins), Load(q, token), q # p
          PROVE  req'[p] = req[p]
      BY <3>1 DEF Load, Typed, TypeOK
    <3>2. ASSUME NEW q \in Procs, LogIn(q) \/ LogOut(q)
          PROVE  q # p /\ req'[p] = req[p]
      BY <3>2, RequestType DEF LogIn, LogOut, Responds, Typed, TypeOK, NoRequest
    <3>. QED  BY <2>1, <2>2, <3>1, <3>2, CopiesOfStep
  <2>4. req'[p].session = Loaded(token)
    BY <2>3 DEF Load, Typed, TypeOK
  <2>5. /\ req'[p].session.token = token
        /\ token \in DOMAIN sessions /\ clock < sessions[token].expiry
    BY <2>2, <2>4 DEF Loaded, Found
  <2>6. sessions[token] \in Row /\ clock \in Nat
    BY <2>5 DEF Typed, TypeOK, Times
  <2>7. token \in DOMAIN logins /\ logins[token].at \in Nat
    <3>1. token \in DOMAIN logins  BY <2>5 DEF SessionInv, OfLogin
    <3>2. logins \in Seq(Login)  BY DEF Typed, TypeOK
    <3>3. logins[token] \in Login  BY <3>1, <3>2
    <3>. QED  BY <3>1, <3>3 DEF Times, Login
  <2>8. /\ sessions[token].expiry \in Nat /\ sessions[token].deadline \in Nat
        /\ sessions[token].saved \in Nat
    BY <2>6 DEF Row, Deadlines, Times
  <2>9. /\ sessions[token].expiry <= logins[token].at + Lifetime
        /\ sessions[token].expiry <= sessions[token].saved + IdleTimeout
    BY <2>5 DEF SessionInv, OfLogin
  <2>. QED  BY <2>5, <2>6, <2>7, <2>8, <2>9
<1>. QED  BY <1>1, SessionInvariant, PTL DEF Spec, SessionsExpire

-----------------------------------------------------------------------------
(* Logout. *)

\* A token deleted quietly is one of a past login, has no row, and no request
\* has a copy that could bring it back.
QuietInv ==
    \A t \in quiet : /\ t \in DOMAIN logins /\ t \notin DOMAIN sessions
                     /\ \A p \in Procs : req[p].session.token # t

\* Every step keeps it.
LEMMA QuietStep ==
    ASSUME Typed, SessionInv, QuietInv, [Next]_vars PROVE QuietInv'
<1>t. TypeOK  BY DEF Typed
<1>0. NoSession.token = 0 /\ 0 \notin DOMAIN logins
  BY <1>t DEF NoSession, TypeOK
<1>1. ASSUME NEW p \in Procs, NEW token \in 0 .. Len(logins), Load(p, token)
      PROVE  QuietInv'
  <2>1. \A q \in Procs :
           req'[q].session = IF q = p THEN Loaded(token) ELSE req[q].session
    BY <1>1, <1>t DEF Load, TypeOK, NoRequest
  <2>2. Loaded(token).token \in DOMAIN sessions \/ Loaded(token).token = 0
    BY <1>0 DEF Loaded, Found
  <2>. QED  BY <1>0, <1>1, <2>1, <2>2 DEF Load, QuietInv
<1>2. ASSUME NEW p \in Procs, LogIn(p)
      PROVE  QuietInv'
  <2>1. /\ \A t \in DOMAIN logins : t \in DOMAIN logins' /\ t # Len(logins) + 1
    BY <1>2, <1>t DEF LogIn, TypeOK
  <2>2. \A q \in Procs : req'[q].session.token =
           IF q = p THEN Len(logins) + 1 ELSE req[q].session.token
    BY <1>2, <1>t DEF LogIn, Responds, TypeOK, NoRequest
  <2>3. DOMAIN sessions' \subseteq DOMAIN sessions /\ UNCHANGED quiet
    BY <1>2 DEF LogIn, Without
  <2>. QED  BY <2>1, <2>2, <2>3 DEF QuietInv
<1>3. ASSUME NEW p \in Procs, LogOut(p)
      PROVE  QuietInv'
  <2>. DEFINE token == req[p].session.token
  <2>1. \A q \in Procs : req'[q].session = IF q = p THEN NoSession ELSE req[q].session
    BY <1>3, <1>t DEF LogOut, Responds, TypeOK, NoRequest
  <2>2. DOMAIN sessions' = DOMAIN sessions \ {token} /\ UNCHANGED logins
    BY <1>3 DEF LogOut, Without
  <2>3. token # 0 => token \in DOMAIN logins
    BY <1>0 DEF SessionInv, OfLogin
  <2>4. \A t \in quiet' : \/ t \in quiet
                          \/ t = token /\ t # 0 /\ ~ HeldByOther(p, t)
    BY <1>3 DEF LogOut
  <2>5. ASSUME NEW t \in quiet', t = token, t # 0, ~ HeldByOther(p, t)
        PROVE  \A q \in Procs : req'[q].session.token # t
    BY <1>0, <2>1, <2>5 DEF HeldByOther
  <2>6. ASSUME NEW t \in quiet
        PROVE  \A q \in Procs : req'[q].session.token # t
    BY <1>0, <2>1 DEF QuietInv
  <2>. QED  BY <2>2, <2>3, <2>4, <2>5, <2>6 DEF QuietInv
<1>4. ASSUME \A q \in Procs : req'[q].session \in {req[q].session, NoSession},
             UNCHANGED <<logins, quiet>>,
             UNCHANGED sessions \/ Cleanup \/ \E p \in Procs : Save(p)
      PROVE  QuietInv'
  <2>1. \A t \in quiet : \A q \in Procs : req'[q].session.token # t
    BY <1>0, <1>4 DEF QuietInv
  <2>2. CASE UNCHANGED sessions \/ Cleanup
    BY <1>4, <2>1, <2>2 DEF QuietInv, Cleanup
  <2>3. ASSUME NEW p \in Procs, Save(p) PROVE QuietInv'
    <3>1. DOMAIN sessions' \subseteq DOMAIN sessions \cup {req[p].session.token}
      BY <2>3 DEF Save, WithRow
    <3>. QED  BY <1>4, <2>1, <3>1 DEF QuietInv
  <2>. QED  BY <1>4, <2>2, <2>3
<1>. QED  BY <1>1, <1>2, <1>3, <1>4, CopiesOfStep

\* A session that a logout deleted while no other request held it has no row
\* again, so that no request is ever accepted with it.
THEOREM QuietLogoutsAreFinal == Spec => []QuietLogoutIsFinal
<1>1. Init => QuietInv  BY DEF Init, QuietInv
<1>2. Typed /\ SessionInv /\ QuietInv /\ [Next]_vars => QuietInv'  BY QuietStep
<1>3. QuietInv => QuietLogoutIsFinal  BY DEF QuietInv, QuietLogoutIsFinal
<1>. QED  BY <1>1, <1>2, <1>3, SessionInvariant, PTL DEF Spec

-----------------------------------------------------------------------------
(* Authorisation. *)

\* The roles remembered of a request include those its user has until
\* RequireAuth reads them, and afterwards one that RequireRole let through.
AuthInv ==
    \A p \in Procs :
        /\ req[p].at = "handler" =>
              RolesHeld(req[p].session.user, users) \subseteq entitled[p]
        /\ req[p].at = "act" /\ req[p].route \in Groups =>
              entitled[p] \cap Allowed(req[p].route) # {}

\* An operation of an admin keeps it of the other requests under way.
LEMMA ManagesUsersAuth ==
    ASSUME Typed, AuthInv, NEW p \in Procs, ManagesUsers(p)
    PROVE  AuthInv'
<1>1. \A q \in Procs : req'[q] =
         IF q = p THEN [NoRequest EXCEPT !.at = "respond", !.session = req[p].session]
         ELSE req[q]
  BY DEF ManagesUsers, Responds, Typed, TypeOK
<1>2. req'[p].at = "respond"  BY <1>1 DEF NoRequest
<1>4. ASSUME NEW q \in Procs, q # p, req[q].at \in {"handler", "act"}
      PROVE  entitled'[q] = entitled[q] \cup RolesHeld(req[q].session.user, users')
  BY <1>4 DEF ManagesUsers
<1>6. ASSUME NEW q \in Procs, req'[q].at = "handler"
      PROVE  RolesHeld(req'[q].session.user, users') \subseteq entitled'[q]
  BY <1>1, <1>2, <1>4, <1>6
<1>7. ASSUME NEW q \in Procs, req'[q].at = "act", req'[q].route \in Groups
      PROVE  entitled'[q] \cap Allowed(req'[q].route) # {}
  BY <1>1, <1>2, <1>4, <1>7 DEF AuthInv
<1>. QED  BY <1>6, <1>7 DEF AuthInv, RolesHeld, Allowed

\* A step that leaves the other requests, and the users, alone keeps it if it
\* does so of its own request.
LEMMA OwnRequestAuth ==
    ASSUME Typed, AuthInv, NEW p \in Procs, UNCHANGED users,
           NEW new, req' = [req EXCEPT ![p] = new],
           NEW roles, entitled' = [entitled EXCEPT ![p] = roles],
           new.at = "handler" => RolesHeld(new.session.user, users) \subseteq roles,
           new.at = "act" /\ new.route \in Groups => roles \cap Allowed(new.route) # {}
    PROVE  AuthInv'
<1>1. \A q \in Procs : /\ req'[q] = IF q = p THEN new ELSE req[q]
                       /\ entitled'[q] = IF q = p THEN roles ELSE entitled[q]
  BY DEF Typed, TypeOK
<1>2. ASSUME NEW q \in Procs, req'[q].at = "handler"
      PROVE  RolesHeld(req'[q].session.user, users) \subseteq entitled'[q]
  BY <1>1, <1>2 DEF AuthInv
<1>3. ASSUME NEW q \in Procs, req'[q].at = "act", req'[q].route \in Groups
      PROVE  entitled'[q] \cap Allowed(req'[q].route) # {}
  BY <1>1, <1>3 DEF AuthInv
<1>. QED  BY <1>2, <1>3 DEF AuthInv, RolesHeld, Allowed

\* Every step keeps it.
LEMMA AuthStep == ASSUME Typed, AuthInv, [Next]_vars PROVE AuthInv'
<1>t. TypeOK  BY DEF Typed
<1>i. NoRequest.at = "idle"  BY DEF NoRequest
<1>1. CASE UNCHANGED vars
  BY <1>1 DEF vars, startVars, accessVars, history, AuthInv, RolesHeld, Allowed
<1>2. CASE Starting
  <2>1. phase # "serving"
    BY <1>2 DEF Starting, Start, Boot, ReadVersion, MarkDirty, RunMigration,
       ClearDirty, FinishMigrations, CountUsers, InsertAdmin, PrintPassword, Listen
  <2>2. req' = [p \in Procs |-> NoRequest]
    BY <1>2, <2>1 DEF Starting, accessVars, Typed
  <2>. QED  BY <1>i, <2>2 DEF AuthInv
<1>3. CASE Crash  BY <1>3, <1>i DEF Crash, AuthInv
<1>4. CASE PassTime \/ Cleanup
  BY <1>4 DEF PassTime, Cleanup, startVars, history, AuthInv, RolesHeld, Allowed
<1>5. ASSUME NEW p \in Procs, Handle(p) PROVE AuthInv'
  <2>0. \A r : NoRequest.at = "idle" /\ [NoRequest EXCEPT !.at = "respond", !.session = r].at
           = "respond"
    BY DEF NoRequest
  <2>u. entitled = [entitled EXCEPT ![p] = entitled[p]]  BY <1>t DEF TypeOK
  <2>1. ASSUME NEW token \in 0 .. Len(logins), Load(p, token) PROVE AuthInv'
    <3>. DEFINE new == [NoRequest EXCEPT !.at = "handler", !.session = Loaded(token)]
    <3>1. new.at = "handler" /\ new.session = Loaded(token)  BY DEF NoRequest
    <3>2. req' = [req EXCEPT ![p] = new] /\ UNCHANGED users
      BY <2>1 DEF Load, startVars
    <3>3. entitled' = [entitled EXCEPT ![p] = RolesHeld(Loaded(token).user, users)]
      BY <2>1 DEF Load
    <3>. HIDE DEF new
    <3>. QED  BY <3>1, <3>2, <3>3, OwnRequestAuth
  <2>2. ASSUME NEW id \in DOMAIN users, CheckPassword(p, id) PROVE AuthInv'
    <3>. DEFINE new == [req[p] EXCEPT !.at = "act", !.route = "login", !.user = id]
    <3>1. req' = [req EXCEPT ![p] = new] /\ UNCHANGED <<users, entitled>>
      BY <1>t, <2>2 DEF CheckPassword, startVars, history, TypeOK
    <3>2. new.at = "act" /\ new.route \notin Groups
      BY <1>t, RequestType, <2>2 DEF CheckPassword, Groups
    <3>. HIDE DEF new
    <3>. QED  BY <2>u, <3>1, <3>2, OwnRequestAuth
  <2>3. ASSUME NEW route \in Groups, Authenticate(p, route) PROVE AuthInv'
    <3>. DEFINE new == [req[p] EXCEPT !.at = "act", !.route = route]
    <3>1. req' = [req EXCEPT ![p] = new] /\ UNCHANGED <<users, entitled>>
      BY <1>t, <2>3 DEF Authenticate, startVars, history, TypeOK
    <3>2. new.at = "act" /\ new.route = route
      BY <1>t, RequestType, <2>3 DEF Authenticate
    <3>3. users[req[p].session.user].role \in entitled[p] \cap Allowed(route)
      BY <2>3 DEF Authenticate, AuthInv, RolesHeld
    <3>. HIDE DEF new
    <3>. QED  BY <2>u, <3>1, <3>2, <3>3, OwnRequestAuth
  <2>4. ASSUME NEW session, Responds(p, session), UNCHANGED users,
               entitled' = [entitled EXCEPT ![p] = {}]
        PROVE  AuthInv'
    <3>. DEFINE new == [NoRequest EXCEPT !.at = "respond", !.session = session]
    <3>1. new.at = "respond"  BY <2>0
    <3>2. req' = [req EXCEPT ![p] = new]  BY <2>4 DEF Responds
    <3>. HIDE DEF new
    <3>. QED  BY <2>4, <3>1, <3>2, OwnRequestAuth
  <2>5. CASE LogIn(p)
    BY <2>4, <2>5 DEF LogIn, startVars
  <2>6. CASE LogOut(p)
    BY <2>4, <2>6 DEF LogOut, startVars
  <2>7. CASE Operate(p) \/ Reject(p)
    BY <2>4, <2>7 DEF Operate, Reject, startVars
  <2>8. CASE ManagesUsers(p)
    BY <2>8, ManagesUsersAuth
  <2>9. CASE Save(p) \/ FailSave(p)
    <3>1. req' = [req EXCEPT ![p] = NoRequest] /\ UNCHANGED <<users, entitled>>
      BY <2>9 DEF Save, FailSave, startVars, history
    <3>. QED  BY <2>u, <1>i, <3>1, OwnRequestAuth
  <2>. QED
    BY <1>5, <2>1, <2>2, <2>3, <2>5, <2>6, <2>7, <2>8, <2>9
    DEF Handle, CreateUserHandler, UpdateRoleHandler, DeactivateUserHandler
<1>. QED  BY <1>1, <1>2, <1>3, <1>4, <1>5 DEF Next

\* Nothing behind RequireRole is done but for a user who was active in a role of
\* the route at some moment since the request began, and the users table is
\* changed by admins alone.
THEOREM OnlyTheAuthorisedAct == Spec => EffectsAreAuthorised
<1>1. Init => AuthInv  BY DEF Init, AuthInv, NoRequest
<1>2. Typed /\ AuthInv /\ [Next]_vars => AuthInv'  BY AuthStep
<1>3. ASSUME Typed, AuthInv, [Next]_vars
      PROVE  /\ \A p \in Procs : Acts(p) => entitled[p] \cap Allowed(req[p].route) # {}
             /\ users' # users =>
                   \/ phase = "inserting"
                   \/ \E p \in Procs : Acts(p) /\ "admin" \in entitled[p]
  <2>. USE <1>3
  <2>1. \A p \in Procs : Acts(p) => entitled[p] \cap Allowed(req[p].route) # {}
    BY DEF Acts, AuthInv
  <2>2. ASSUME NEW p \in Procs, ManagesUsers(p)
        PROVE  Acts(p) /\ "admin" \in entitled[p]
    <3>1. req'[p].at = "respond"
      BY <2>2 DEF ManagesUsers, Responds, Typed, TypeOK, NoRequest
    <3>2. req[p].at = "act" /\ req[p].route = "adminOnly"
      BY <2>2 DEF ManagesUsers
    <3>3. entitled[p] \cap {"admin"} # {}
      BY <3>2 DEF AuthInv, Allowed, Groups
    <3>. QED  BY <3>1, <3>2, <3>3 DEF Acts, Groups
  <2>3. ASSUME NEW p \in Procs, Handle(p), users' # users
        PROVE  ManagesUsers(p)
    BY <2>3 DEF Handle, Load, CheckPassword, LogIn, LogOut, Authenticate,
       CreateUserHandler, UpdateRoleHandler, DeactivateUserHandler, Operate, Reject, Save,
       FailSave, startVars
  <2>4. Start /\ users' # users => phase = "inserting"
    BY DEF Start, Boot, ReadVersion, MarkDirty, RunMigration, ClearDirty,
       FinishMigrations, CountUsers, InsertAdmin, PrintPassword, Listen
  <2>5. Crash \/ PassTime \/ Cleanup \/ UNCHANGED vars => UNCHANGED users
    BY DEF Crash, Die, PassTime, Cleanup, vars, startVars
  <2>6. users' # users => \/ phase = "inserting"
                          \/ \E p \in Procs : Acts(p) /\ "admin" \in entitled[p]
    BY <2>2, <2>3, <2>4, <2>5 DEF Next, Starting
  <2>. QED  BY <2>1, <2>6
<1>4. Spec => []Typed  BY TypedInit, TypedStep, PTL DEF Spec
<1>. QED  BY <1>1, <1>2, <1>3, <1>4, PTL DEF Spec, EffectsAreAuthorised

=============================================================================
