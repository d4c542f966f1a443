\* One offer, accepted, converted, and its order cancelled.
SPECIFICATION CommerceSpec
CONSTANTS
    Orders = {o1}
    Versions = {v1}
    Inquiries = {i1}
    Facts = {f1}
    Timings = {}
    Windows = {}
    Addresses = {a1}
    None = None
    MaxPauseEvents = 0
    Offers = {q1}
    Methods = {m1}
    OfficeStages = {"open", "order", "lost"}
    MaxOfferVersions = 1
    MaxDay = 0
INVARIANTS
    StornoAllowsReconversion
CHECK_DEADLOCK FALSE
