\* Two accounts, two servers, five requests.
SPECIFICATION AuthSpec
CONSTANTS
    Accounts = {a1, a2}
    Sessions = {s1}
    Servers = {w1, w2}
    None = None
    Roles = {"SUPERADMIN", "VIEWER"}
    MaxVersion = 2
    MaxRequests = 5
INVARIANTS
    SuperadminNeverRunsOut
CHECK_DEADLOCK FALSE
