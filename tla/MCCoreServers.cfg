\* Liveness: without symmetry.  Two servers start on an empty database or on an old one
\* with two documents, two crashes; or one of them serves two forms, one of them guarded;
\* or the split acknowledgement against the atomic one of OrderCore, and the print
\* request on a panel beside the Core.
SPECIFICATION ServersSpec
CONSTANTS
    Servers = {"office_api", "kitchen_api"}
    Documents = {d1, d2}
    MaxCrashes = 2
    Pages = {p1, p2}
    Guarded = {p1}
    Args = {a1}
    Null = Null
    MaxForeign = 1
    MaxFaults = 1
    Orders = {o1}
    Versions = {v1, v2}
    Inquiries = {i1}
    Facts = {f1}
    Timings = {}
    Windows = {}
    Addresses = {a1}
    None = None
    MaxPauseEvents = 0
    Jobs = {j1, j2}
    AcceptTimeout = 1
    AckTimeout = 1
    MaxClock = 1
INVARIANTS
    ServersFindTheirTables
PROPERTIES
    SubmittedIsAnswered
    StartsSucceed
    Spec
    OverdueIsReplaced
