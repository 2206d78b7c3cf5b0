------------------------------ MODULE Startup -------------------------------
(***************************************************************************)
(* cmd/server/main.go before the server listens: the database is opened,   *)
(* pending migrations are applied one by one, the first admin is created   *)
(* if there is no user, and the process may exit or die at any step.       *)
(***************************************************************************)
EXTENDS Naturals, Sequences

CONSTANTS
    Migrations,  \* how many migrations server/db/migrations holds
    Names        \* usernames that an admin may give

ASSUME MigrationsAssumption == Migrations \in Nat \ {0}

VARIABLES
    phase,    \* what main does next
    version,  \* schema_migrations.version, 0 when there is no row
    dirty,    \* schema_migrations.dirty
    applied,  \* the migrations whose statements have been committed
    users,    \* the users table: users[id]
    shown     \* has the first admin's password been printed?

schemaVars == <<version, dirty, applied>>
startVars == <<phase, schemaVars, users, shown>>

Phases == {"down", "refused", "opened", "migrating", "running", "clearing",
           "counting", "inserting", "printing", "ready", "serving"}

Roles == {"staff_bookkeeper", "admin", "external_accountant"}

User == [name : Names \cup {"admin"}, role : Roles, active : BOOLEAN]

StartTypeOK ==
    /\ phase \in Phases
    /\ version \in 0 .. Migrations
    /\ dirty \in BOOLEAN
    /\ applied \subseteq 1 .. Migrations
    /\ users \in Seq(User)
    /\ shown \in BOOLEAN

\* A new installation.
StartInit ==
    /\ phase = "down"
    /\ version = 0
    /\ dirty = FALSE
    /\ applied = {}
    /\ users = << >>
    /\ shown = FALSE

Boot ==
    /\ phase \in {"down", "refused"}
    /\ phase' = "opened"
    /\ UNCHANGED <<schemaVars, users, shown>>

-----------------------------------------------------------------------------
(* RunMigrations. *)

\* Seeded fault: the error of Up is not looked at.
ReadVersionOnly ==
    /\ phase = "opened"
    /\ phase' = "migrating"
    /\ UNCHANGED <<schemaVars, users, shown>>

\* Up refuses a dirty schema, and main exits.
ReadVersion ==
    /\ phase = "opened"
    /\ phase' = IF dirty THEN "refused" ELSE "migrating"
    /\ UNCHANGED <<schemaVars, users, shown>>

\* The three transactions of one migration.
MarkDirty ==
    /\ phase = "migrating" /\ version < Migrations
    /\ version' = version + 1
    /\ dirty' = TRUE
    /\ phase' = "running"
    /\ UNCHANGED <<applied, users, shown>>

RunMigration ==
    /\ phase = "running"
    /\ applied' = applied \cup {version}
    /\ phase' = "clearing"
    /\ UNCHANGED <<version, dirty, users, shown>>

ClearDirty ==
    /\ phase = "clearing"
    /\ dirty' = FALSE
    /\ phase' = "migrating"
    /\ UNCHANGED <<version, applied, users, shown>>

\* migrate.ErrNoChange, or no migration left.
FinishMigrations ==
    /\ phase = "migrating" /\ version = Migrations
    /\ phase' = "counting"
    /\ UNCHANGED <<schemaVars, users, shown>>

-----------------------------------------------------------------------------
(* bootstrapFirstAdmin. *)

NameTaken(name) == \E id \in DOMAIN users : users[id].name = name

NewUser(name, role) == [name |-> name, role |-> role, active |-> TRUE]

\* Seeded fault: an installation whose last admin was deactivated is taken
\* for a new one.
NoActiveAdmin ==
    \A id \in DOMAIN users : ~ (users[id].active /\ users[id].role = "admin")

NoUser == users = << >>

CountUsers ==
    /\ phase = "counting"
    /\ phase' = IF NoUser THEN "inserting" ELSE "ready"
    /\ UNCHANGED <<schemaVars, users, shown>>

InsertAdmin ==
    /\ phase = "inserting"
    /\ IF NameTaken("admin")
       THEN phase' = "refused" /\ UNCHANGED users
       ELSE phase' = "printing" /\ users' = Append(users, NewUser("admin", "admin"))
    /\ UNCHANGED <<schemaVars, shown>>

PrintPassword ==
    /\ phase = "printing"
    /\ shown' = TRUE
    /\ phase' = "ready"
    /\ UNCHANGED <<schemaVars, users>>

-----------------------------------------------------------------------------

\* The first backup, the session manager, the routes; then the server listens.
Listen ==
    /\ phase = "ready"
    /\ phase' = "serving"
    /\ UNCHANGED <<schemaVars, users, shown>>

\* Any other error is log.Fatalf; to the database that is a crash.
Die ==
    /\ phase \notin {"down", "refused"}
    /\ phase' = "down"
    /\ UNCHANGED <<schemaVars, users, shown>>

Start ==
    \/ Boot \/ ReadVersion \/ MarkDirty \/ RunMigration \/ ClearDirty
    \/ FinishMigrations \/ CountUsers \/ InsertAdmin \/ PrintPassword \/ Listen

StartSpec == StartInit /\ [][Start \/ Die]_startVars

-----------------------------------------------------------------------------
(* Properties. *)

\* Wherever earlier starts died, a server that serves has the schema of every
\* migration, none of them cut short, and at least one account.
ServesWholeSchema ==
    /\ phase \in {"counting", "inserting", "printing", "ready", "serving"}
          => applied = 1 .. Migrations /\ ~ dirty
    /\ phase = "serving" => users # << >>

\* The only state a server refuses to start on, for good, is a migration cut
\* short: no history of users keeps it from coming up again.
RefusesOnlyDirtySchema == phase = "refused" => dirty

\* The password of the first admin is printed exactly once
\* (main.go:97-99). A crash after the INSERT leaves an admin whose
\* password was never printed, and the next start finds a user.
PasswordIsShown == phase = "serving" => shown
=============================================================================
