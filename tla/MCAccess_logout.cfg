\* Two requests with one session, one of them a logout.
SPECIFICATION Spec
CONSTANTS
    Migrations = 1
    Procs = {p1, p2}
    Names = {"bob"}
    RoleInputs = {"admin"}
    Lifetime = 2
    IdleTimeout = 1
    MaxUsers = 1
    MaxLogins = 1
    MaxClock = 0
PROPERTIES
    LogoutIsFinal
