\* Confirmation: one order with up to three versions, one inquiry whose data change while
\* the order runs, an address and none, one pause and its end.  Contacts: four profiles,
\* three aliases.  Chat: two employees, two threads, a page of two messages of up to three.
\* Catalog: two clerks, five writes.  Pickup: six ticks, two days.  Charges: up to two
\* lines and three positions.
SPECIFICATION ToolsSpec
CONSTANTS
    Orders = {o1}
    Versions = {v1, v2, v3}
    Inquiries = {i1}
    Facts = {f1}
    Timings = {}
    Windows = {}
    Addresses = {a1, none}
    NoAddress = none
    None = None
    MaxPauseEvents = 2
    Profiles = {1, 2, 3, 4}
    Aliases = {mail, phone, inquiry}
    NoProfile = 0
    Employees = {e1, e2}
    ChatThreads = {t1, t2}
    PageLimit = 2
    MaxLog = 3
    Clerks = {c1, c2}
    Prices = {1, 2}
    MaxDishWrites = 5
    Fresh = 2
    MaxTicks = 6
    PickupDays = {1, 2}
    LineNames = {n1}
    Units = {1, 2}
    Fee = 2
    MaxPositions = 3
SYMMETRY ToolSymmetry
INVARIANTS
    MailFollowsTheOrder
    PageFollowsTheDocuments
    NoMessageIsMissed
    ChargesAreDeclared
PROPERTIES
    ContactIsOneTree
    SavesAreAsAsked
    SignalIsHonest
CHECK_DEADLOCK FALSE
