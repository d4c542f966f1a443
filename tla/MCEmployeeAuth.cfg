\* Three accounts, three roles, two sessions, two servers, five requests,
\* auth_version up to 2.
SPECIFICATION AuthSpec
CONSTANTS
    Accounts = {a1, a2, a3}
    Sessions = {s1, s2}
    Servers = {w1, w2}
    None = None
    Roles = {"SUPERADMIN", "ADMIN", "VIEWER"}
    MaxVersion = 2
    MaxRequests = 5
SYMMETRY AuthSymmetry
INVARIANTS
    SuperadminRemains
    OldSessionsStayDead
PROPERTIES
    RightsComeFromHolders
CHECK_DEADLOCK FALSE
