\* The server dies while it starts for the first time.
SPECIFICATION StartSpec
CONSTANTS
    Migrations = 2
    Names = {"bob"}
INVARIANTS
    PasswordIsShown
