\* Orders: two orders, three versions with two event dates: every handler, the kitchen
\* acknowledgement, deletions, and the service operations that no handler calls.
\* Payments: one order, two versions, all methods, over the days around an event on
\* day 8.
SPECIFICATION PaymentsSpec
CONSTANTS
    Orders = {1, 2}
    Versions = {1, 2, 3}
    Inquiries = {1, 2}
    Facts = {8, 9}
    Timings = {}
    Windows = {}
    Addresses = {a1}
    None = None
    MaxPauseEvents = 2
    Days = {2, 17, 24}
    SentDays = {2}
    MaxChanges = 1
    MaxCorrections = 1
    MaxCash = 3
INVARIANTS
    EffectiveIsPrinted
    VersionsFormAHistory
    PauseLogBalances
    CashBooksAgree
    DemandsAreDue
PROPERTIES
    NothingVanishes
CHECK_DEADLOCK FALSE
