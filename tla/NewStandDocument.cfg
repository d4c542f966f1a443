\* A second version becomes effective after the document of the first was made.
SPECIFICATION ConfirmSpec
CONSTANTS
    Orders = {o1}
    Versions = {v1, v2}
    Inquiries = {i1}
    Facts = {f1}
    Timings = {}
    Windows = {}
    Addresses = {a1, none}
    NoAddress = none
    None = None
    MaxPauseEvents = 0
INVARIANTS
    NewStandsGetDocuments
CHECK_DEADLOCK FALSE
