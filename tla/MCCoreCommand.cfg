\* Prints: one order, two versions, three print jobs, office commands between the
\* database calls of the kitchen API, crashes of either process, deadlines that pass.
\* Commands: two forms about the same row, one of them guarded by the state it was
\* rendered from, two fillings of a form, one fault, one foreign write.
SPECIFICATION CoreCommandSpec
CONSTANTS
    Orders = {o1}
    Versions = {1, 2}
    Inquiries = {i1}
    Facts = {f1}
    Timings = {}
    Windows = {}
    Addresses = {a1}
    None = None
    MaxPauseEvents = 0
    Jobs = {1, 2, 3}
    AcceptTimeout = 1
    AckTimeout = 1
    MaxClock = 2
    Pages = {p1, p2}
    Guarded = {p1}
    Args = {a1, a2}
    Null = Null
    MaxForeign = 1
    MaxFaults = 1
SYMMETRY CommandSymmetry
INVARIANTS
    ReadyReleasesNewestStand
    AttemptsAreChained
    PaperTrail
    LedgerIsTheTruth
PROPERTIES
    AttemptsEndOnce
    NoLostUpdate
    OnceSpec
