\* Two requests at a time, two users, two logins, restarts.
SPECIFICATION Spec
SYMMETRY Symmetry
CONSTANTS
    Migrations = 2
    Procs = {p1, p2}
    Names = {"admin", "bob"}
    RoleInputs = {"admin", "staff_bookkeeper", "owner"}
    Lifetime = 2
    IdleTimeout = 1
    MaxUsers = 2
    MaxLogins = 2
    MaxClock = 2
INVARIANTS
    TypeOK
    ServesWholeSchema
    RefusesOnlyDirtySchema
    SessionsKeepTheirUser
    QuietLogoutIsFinal
PROPERTIES
    EffectsAreAuthorised
    SessionsExpire
