\* A server dies after a script has created its tables and before the migration is recorded.
SPECIFICATION MigrationSpec
CONSTANTS
    Servers = {"office_api", "kitchen_api"}
    Documents = {d1}
    MaxCrashes = 1
INVARIANTS
    NothingHalfDone
CHECK_DEADLOCK FALSE
