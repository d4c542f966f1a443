------------------------------ MODULE OrderCore ------------------------------
(****************************************************************************)
(* The order aggregate of the Core: orders, their immutable versions, the   *)
(* candidate and effective pointers, the kitchen print confirmation, Storno *)
(* (cancellation), the pause log and the READY_TO_SEND gate.                *)
(*                                                                          *)
(* Every action is one service call that runs inside one SQLite             *)
(* transaction.  The kitchen acknowledgement is atomic here; the module     *)
(* KitchenPrint splits it into the database calls the kitchen API makes.    *)
(*                                                                          *)
(* A version's data is abstracted to the four groups of fields the change   *)
(* services treat differently:                                              *)
(*   facts    event date, time window text, location, guests, planning mode *)
(*   timing   event_start_local, delivery_time_local                        *)
(*   window   delivery_date_local and delivery_window_{start,end}_local     *)
(*   address  the frozen operational context (recipient, delivery address)  *)
(****************************************************************************)
EXTENDS Naturals, Sequences, FiniteSets

CONSTANTS
    Orders,          \* order ids (uuid4, never drawn twice)
    Versions,        \* order version ids (uuid4, never drawn twice)
    Inquiries,       \* ids of the inquiries orders are converted from
    Facts,           \* values of the planning facts of a version
    Timings,         \* values of the exact local times of a version
    Windows,         \* values of the delivery window of a version
    Addresses,       \* values of an operational context
    None,            \* SQL NULL
    MaxPauseEvents   \* bound of the pause log of one order

ASSUME NoneAssumption ==
    None \notin Orders \cup Versions \cup Inquiries \cup Facts \cup Timings
                \cup Windows \cup Addresses

ASSUME PauseAssumption == MaxPauseEvents \in Nat

VARIABLES
    orders,     \* rows of the table orders, by id
    versions,   \* rows of order_versions with their context snapshot, by id
    pauses      \* per order: its order_operational_pause_events, oldest first

coreVars == <<orders, versions, pauses>>

Optional(S) == S \cup {None}

FieldGroups == {"facts", "timing", "window", "address"}

\* "unborn" and "purged" stand for ids without a row; a purged id is not drawn
\* again.  "cancelled" is an order whose cancelled_at is set.
OrderRow == [state     : {"unborn", "active", "cancelled", "purged"},
             inquiry   : Optional(Inquiries),
             candidate : Optional(Versions),
             effective : Optional(Versions)]

VersionRow == [state     : {"unborn", "stored", "purged"},
               order     : Optional(Orders),
               number    : Nat,
               parent    : Optional(Versions),
               confirmed : BOOLEAN,
               facts     : Optional(Facts),
               timing    : Optional(Timings),
               window    : Optional(Windows),
               address   : Optional(Addresses),
               changed   : SUBSET FieldGroups]

PauseEvent == [action : {"paused", "resumed"}, resumes : Nat]

NoOrder == [state |-> "unborn", inquiry |-> None,
            candidate |-> None, effective |-> None]

NoVersion == [state |-> "unborn", order |-> None, number |-> 0,
              parent |-> None, confirmed |-> FALSE, facts |-> None,
              timing |-> None, window |-> None, address |-> None,
              changed |-> {}]

-----------------------------------------------------------------------------
(* Reads of the repositories. *)

Exists(o)   == orders[o].state \in {"active", "cancelled"}
Active(o)   == orders[o].state = "active"
Stored(v)   == versions[v].state = "stored"
Owned(o, v) == Stored(v) /\ versions[v].order = o

VersionsOf(o) == {v \in Versions : Owned(o, v)}
NumbersOf(o)  == {versions[v].number : v \in VersionsOf(o)}

IsMaxOf(n, S) == n \in S /\ \A m \in S : m <= n

\* Faulty variant: numbers from the effective version instead of the newest.
LatestNumberOfEffective(o) ==
    IF orders[o].effective # None THEN versions[orders[o].effective].number
                                  ELSE Cardinality(VersionsOf(o))

LatestNumber(o)  ==
    CHOOSE n \in NumbersOf(o) \cup {0} : IsMaxOf(n, NumbersOf(o) \cup {0})
LatestVersion(o) ==
    CHOOSE v \in VersionsOf(o) : versions[v].number = LatestNumber(o)

\* _has_active_order
HasActiveOrder(i) == \E o \in Orders : Active(o) /\ orders[o].inquiry = i

HasLinkedOrder(i) == \E o \in Orders : Exists(o) /\ orders[o].inquiry = i

\* The fold over the pause history: index of the pause still open, 0 if none.
ActivePause(o) ==
    LET log  == pauses[o]
        open == {k \in 1..Len(log) :
                   /\ log[k].action = "paused"
                   /\ \A j \in (k + 1)..Len(log) :
                        log[j].action = "resumed" /\ log[j].resumes # k}
    IN  IF open = {} THEN 0 ELSE CHOOSE k \in open : TRUE

\* READY_TO_SEND: derived on every read, never stored.
Ready(o) ==
    /\ Active(o)
    /\ orders[o].candidate = None
    /\ orders[o].effective # None
    /\ Owned(o, orders[o].effective)
    /\ versions[orders[o].effective].confirmed
    /\ ActivePause(o) = 0

-----------------------------------------------------------------------------
Init ==
    /\ orders   = [o \in Orders |-> NoOrder]
    /\ versions = [v \in Versions |-> NoVersion]
    /\ pauses   = [o \in Orders |-> <<>>]

\* Conversion of an accepted offer: the order and its version 1 in one
\* transaction, refused while any order of the inquiry still has a row.
CreateOrder(o, v, i, row) ==
    /\ orders[o].state = "unborn"
    /\ versions[v].state = "unborn"
    /\ ~ HasLinkedOrder(i)
    /\ orders' = [orders EXCEPT ![o] = [NoOrder EXCEPT !.state = "active",
                                                       !.inquiry = i]]
    /\ versions' = [versions EXCEPT ![v] =
                      [state |-> "stored", order |-> o, number |-> 1,
                       parent |-> None, confirmed |-> FALSE,
                       facts |-> row.facts, timing |-> row.timing,
                       window |-> row.window, address |-> row.address,
                       changed |-> {}]]
    /\ UNCHANGED pauses

\* append_order_version: the new row and the updated aggregate root.
AppendVersion(o, v, row, candidate) ==
    /\ versions[v].state = "unborn"
    /\ versions' = [versions EXCEPT ![v] = row]
    /\ orders' = [orders EXCEPT ![o].candidate = candidate]
    /\ UNCHANGED pauses

\* changed_fields of a proposed change: the planning facts that differ.
NamedChanges(o, source, f) ==
    IF versions[source].facts # f THEN {"facts"} ELSE {}

\* propose_order_version_change: the parent is the effective stand, or the
\* newest version of an order that never had one; the exact local times are
\* not carried over, the delivery window and the context are.
ProposeChange(o, v, f) ==
    LET source == IF orders[o].effective # None THEN orders[o].effective
                                                ELSE LatestVersion(o)
    IN  /\ Active(o)
        /\ VersionsOf(o) # {}
        /\ orders[o].effective # None => Owned(o, orders[o].effective)
        /\ AppendVersion(o, v,
             [state |-> "stored", order |-> o, number |-> LatestNumber(o) + 1,
              parent |-> source, confirmed |-> FALSE,
              facts |-> f, timing |-> None,
              window |-> versions[source].window,
              address |-> versions[source].address,
              changed |-> NamedChanges(o, source, f)],
             v)

\* propose_delivery_address_change: the parent is the version the caller
\* names; neither the exact times nor the delivery window are carried over.
ProposeAddress(o, v, p, a) ==
    /\ Active(o)
    /\ Owned(o, p)
    /\ versions[p].address # None
    /\ AppendVersion(o, v,
         [state |-> "stored", order |-> o, number |-> LatestNumber(o) + 1,
          parent |-> p, confirmed |-> FALSE,
          facts |-> versions[p].facts, timing |-> None, window |-> None,
          address |-> a, changed |-> {"address"}],
         v)

\* create_relevant_order_change_version: appended without becoming candidate.
AppendRelevantChange(o, v, f) ==
    LET latest == LatestVersion(o)
    IN  /\ Active(o)
        /\ VersionsOf(o) # {}
        /\ AppendVersion(o, v,
             [state |-> "stored", order |-> o, number |-> LatestNumber(o) + 1,
              parent |-> None, confirmed |-> FALSE, facts |-> f,
              timing |-> versions[latest].timing,
              window |-> versions[latest].window,
              address |-> None, changed |-> {}],
             orders[o].candidate)

\* set_candidate_order_version
SetCandidate(o, v) ==
    /\ Active(o)
    /\ Owned(o, v)
    /\ orders' = [orders EXCEPT ![o].candidate = v]
    /\ UNCHANGED <<versions, pauses>>

\* confirm_kitchen_print: recorded once, never taken back, no pointer moves.
ConfirmPrint(o, v) ==
    /\ Active(o)
    /\ Owned(o, v)
    /\ versions' = [versions EXCEPT ![v].confirmed = TRUE]
    /\ UNCHANGED <<orders, pauses>>

\* The pointers after the kitchen acknowledged the print of v: the current
\* candidate becomes effective, and so does an order's first version when the
\* order has neither pointer; any other version is only confirmed.
ActivatedByPrint(row, v) ==
    IF row.candidate = v
    THEN [row EXCEPT !.effective = v, !.candidate = None]
    ELSE IF /\ row.effective = None
            /\ row.candidate = None
            /\ versions[v].number = 1
            /\ versions[v].parent = None
         THEN [row EXCEPT !.effective = v]
         ELSE row

\* Faulty variant: the cancellation is not looked at.
AcknowledgeCancelled(o, v) ==
    /\ Exists(o)
    /\ Owned(o, v)
    /\ versions' = [versions EXCEPT ![v].confirmed = TRUE]
    /\ orders' = [orders EXCEPT ![o] = ActivatedByPrint(@, v)]
    /\ UNCHANGED pauses

\* acknowledge_print_job, taken as one step.
AcknowledgePrint(o, v) ==
    /\ Active(o)
    /\ Owned(o, v)
    /\ versions' = [versions EXCEPT ![v].confirmed = TRUE]
    /\ orders' = [orders EXCEPT ![o] = ActivatedByPrint(@, v)]
    /\ UNCHANGED pauses

\* Faulty variant: no kitchen print gate.
MakeEffectiveUnprinted(o, v) ==
    /\ Active(o)
    /\ Owned(o, v)
    /\ \/ orders[o].candidate = v
       \/ orders[o].candidate = None /\ orders[o].effective = None
    /\ orders' = [orders EXCEPT ![o] = [@ EXCEPT !.effective = v, !.candidate = None]]
    /\ UNCHANGED <<versions, pauses>>

\* make_order_version_effective: the initial stand, or exactly the candidate,
\* and only a version whose kitchen print is confirmed.
MakeEffective(o, v) ==
    /\ Active(o)
    /\ Owned(o, v)
    /\ \/ orders[o].candidate = v
       \/ orders[o].candidate = None /\ orders[o].effective = None
    /\ versions[v].confirmed
    /\ orders' = [orders EXCEPT ![o] = [@ EXCEPT !.effective = v, !.candidate = None]]
    /\ UNCHANGED <<versions, pauses>>

\* cancel_order (Storno): the pointers stay as they are.
CancelOrder(o) ==
    /\ Active(o)
    /\ orders' = [orders EXCEPT ![o].state = "cancelled"]
    /\ UNCHANGED <<versions, pauses>>

\* Faulty variant: an order already on hold can be paused again.
PauseAgain(o) ==
    /\ Active(o)
    /\ Len(pauses[o]) < MaxPauseEvents
    /\ pauses' = [pauses EXCEPT ![o] =
                    Append(@, [action |-> "paused", resumes |-> 0])]
    /\ UNCHANGED <<orders, versions>>

\* pause_order
PauseOrder(o) ==
    /\ Active(o)
    /\ ActivePause(o) = 0
    /\ Len(pauses[o]) < MaxPauseEvents
    /\ pauses' = [pauses EXCEPT ![o] =
                    Append(@, [action |-> "paused", resumes |-> 0])]
    /\ UNCHANGED <<orders, versions>>

\* resume_order
ResumeOrder(o) ==
    /\ Active(o)
    /\ ActivePause(o) # 0
    /\ Len(pauses[o]) < MaxPauseEvents
    /\ pauses' = [pauses EXCEPT ![o] =
                    Append(@, [action |-> "resumed", resumes |-> ActivePause(o)])]
    /\ UNCHANGED <<orders, versions>>

\* The version whose recipient the office must type to delete the order.
DeletionTarget(o) ==
    IF orders[o].candidate \in VersionsOf(o) THEN orders[o].candidate
                                             ELSE LatestVersion(o)

\* cmd_delete_order and the purge it calls: the order, its versions and every
\* row that carries its id, in one transaction with the triggers suspended.
PurgeOrder(o) ==
    /\ Exists(o)
    /\ VersionsOf(o) # {}
    /\ versions[DeletionTarget(o)].address # None
    /\ orders' = [orders EXCEPT ![o] = [NoOrder EXCEPT !.state = "purged"]]
    /\ versions' = [v \in Versions |->
                      IF Owned(o, v) THEN [NoVersion EXCEPT !.state = "purged"]
                                     ELSE versions[v]]
    /\ pauses' = [pauses EXCEPT ![o] = <<>>]

InitialContents == [facts   : Facts,
                    timing  : Optional(Timings),
                    window  : Optional(Windows),
                    address : Optional(Addresses)]

\* What the handlers of the office do to an order they keep.
ChangeNext ==
    \E o \in Orders :
      \/ \E v \in Versions, f \in Facts : ProposeChange(o, v, f)
      \/ \E v, p \in Versions, a \in Addresses : ProposeAddress(o, v, p, a)
      \/ \E v \in Versions : MakeEffective(o, v)
      \/ CancelOrder(o)
      \/ PauseOrder(o)
      \/ ResumeOrder(o)

HandlerNext ==
    \/ ChangeNext
    \/ \E o \in Orders, v \in Versions, i \in Inquiries, row \in InitialContents :
         CreateOrder(o, v, i, row)

\* What the Office API and the kitchen do.
OfficeNext ==
    \/ HandlerNext
    \/ \E o \in Orders :
         \/ PurgeOrder(o)
         \/ \E v \in Versions : AcknowledgePrint(o, v)

\* The operations of the services that no handler calls.
UncalledNext ==
    \E o \in Orders, v \in Versions :
      \/ \E f \in Facts : AppendRelevantChange(o, v, f)
      \/ SetCandidate(o, v)
      \/ ConfirmPrint(o, v)

Next        == OfficeNext
ServiceNext == OfficeNext \/ UncalledNext

Spec        == Init /\ [][Next]_coreVars
ServiceSpec == Init /\ [][ServiceNext]_coreVars

-----------------------------------------------------------------------------
(* Properties. *)

\* Type invariant: every row has the columns its table declares.
TypeOK ==
    /\ orders \in [Orders -> OrderRow]
    /\ versions \in [Versions -> VersionRow]
    /\ pauses \in [Orders -> Seq(PauseEvent)]

\* The effective stand of an order is one of its own stored versions and the
\* kitchen has confirmed its print: operational_core_service and the kitchen
\* acknowledgement never let the kitchen work from a stand it has not printed.
EffectiveIsPrinted ==
    \A o \in Orders : orders[o].effective # None =>
        /\ Owned(o, orders[o].effective)
        /\ versions[orders[o].effective].confirmed

\* The version numbers of an order are 1..n, each used once, whatever mix of
\* changes appended them (max + 1 in three places of order_service).
HistoryIsGapless ==
    \A o \in Orders :
        /\ NumbersOf(o) = 1..LatestNumber(o)
        /\ \A v, w \in VersionsOf(o) :
             versions[v].number = versions[w].number => v = w
        /\ Exists(o) => VersionsOf(o) # {}

\* A version's parent is an older version of the same order, so the lineage of
\* every stand ends in a version of the order it belongs to.
LineageStaysInOrder ==
    \A v \in Versions : Stored(v) /\ versions[v].parent # None =>
        /\ Owned(versions[v].order, versions[v].parent)
        /\ versions[versions[v].parent].number < versions[v].number

\* A lemma of the proofs, no claim of its own: with the gate of CreateOrder an
\* inquiry never has two orders, a cancelled one included.
OneOrderPerInquiry ==
    \A o, p \in Orders :
        Exists(o) /\ Exists(p) /\ orders[o].inquiry = orders[p].inquiry => o = p

\* READY_TO_SEND releases the newest stand of an order, never one that a later
\* change has overtaken: the handlers make every new version the candidate,
\* and the candidate leaves that place only by becoming effective.
ReadyReleasesNewestStand ==
    \A o \in Orders : Ready(o) =>
        /\ versions[orders[o].effective].number = LatestNumber(o)
        /\ versions[orders[o].effective].confirmed

\* The planning facts and the recipient of a version differ from those of its
\* parent only when its changed_fields say so.
ChangesOfFactsAreNamed ==
    \A v \in Versions : Stored(v) /\ versions[v].parent # None =>
        LET p == versions[v].parent
        IN  /\ versions[v].facts # versions[p].facts =>
                 "facts" \in versions[v].changed
            /\ versions[v].address # versions[p].address =>
                 "address" \in versions[v].changed

\* The versions of an order are one history: numbered without gaps, each a named
\* change of an older version of the same order, although three services append
\* them and every form names its parent itself.
VersionsFormAHistory ==
    HistoryIsGapless /\ LineageStaysInOrder /\ ChangesOfFactsAreNamed

\* A pause is closed by exactly one resume: the order is held if and only if
\* the log holds one pause more than resumes.
PauseLogBalances ==
    /\ TypeOK
    /\ \A o \in Orders :
         LET of(a) == Cardinality({k \in 1..Len(pauses[o]) : pauses[o][k].action = a})
         IN  of("paused") = of("resumed") + (IF ActivePause(o) # 0 THEN 1 ELSE 0)

\* Storno is irreversible: a cancelled order keeps its row as it was, until it
\* is purged.
CancellationIsFinal ==
    [][\A o \in Orders : orders[o].state = "cancelled" =>
         orders'[o] = orders[o] \/ orders'[o].state = "purged"]_coreVars

\* A stored version is a snapshot: until its order is purged nothing in it
\* changes but the print confirmation, and that only from unset to set.
SnapshotsAreImmutable ==
    [][\A v \in Versions : Stored(v) =>
         \/ versions'[v] = versions[v]
         \/ versions'[v] = [versions[v] EXCEPT !.confirmed = TRUE]
         \/ orders'[versions[v].order].state = "purged"]_coreVars

\* The kitchen never goes back to an older stand: each change of the effective
\* pointer of an order selects a higher version number.
EffectiveMovesForward ==
    [][\A o \in Orders :
         LET e == orders[o].effective
             f == orders'[o].effective
         IN  e # None /\ f # None /\ e # f =>
               versions'[f].number > versions'[e].number]_coreVars

\* What was decided or printed is never taken back: not a Storno, not a stored
\* snapshot, and not the stand the kitchen works from.
NothingIsTakenBack ==
    CancellationIsFinal /\ SnapshotsAreImmutable /\ EffectiveMovesForward

=============================================================================
