\* Desk: one inquiry with its offer and two orders: inquiry, offer and order commands in
\* every order, with Storno, deletion, replay and conversion after them.  Page: one page
\* of any kind, sent again and again, while every other office command and the kitchen
\* act on the one inquiry, its offer and its order.
SPECIFICATION OfficeSpec
CONSTANTS
    Orders = {1, 2}
    Versions = {1, 2, 3}
    Inquiries = {i1}
    Facts = {1, 2}
    Timings = {}
    Windows = {}
    Addresses = {a1}
    None = None
    MaxPauseEvents = 3
    Offers = {q1}
    Methods = {"BAR", "RECHNUNG"}
    OfficeStages = {"open", "order", "lost"}
    MaxOfferVersions = 2
    MaxDay = 2
    Pages = {p1}
INVARIANTS
    ConversionIsWhole
    StageFollowsOrder
    OfferedActionsAreAccepted
    EveryStepIsShown
PROPERTIES
    NothingIsTakenBack
    AcceptanceIsFinal
    ViewsAgree
    RefusalIsJust
    PageIsOneDecision
CHECK_DEADLOCK FALSE
