\* An acknowledgement computed from a read before Storno is written after it.
SPECIFICATION KitchenSpec
CONSTANTS
    Orders = {o1}
    Versions = {v1, v2}
    Inquiries = {i1}
    Facts = {f1}
    Timings = {}
    Windows = {}
    Addresses = {a1}
    None = None
    MaxPauseEvents = 0
    Jobs = {j1}
    AcceptTimeout = 1
    AckTimeout = 1
    MaxClock = 1
PROPERTIES
    StornoIsIrreversible
