---------------------------- MODULE PickupSignal ----------------------------
(* The kiosk's list of overdue pickups.  One thread polls the courier app and    *)
(* keeps the last good document, the serving thread only reads what is kept.     *)
(* Both look at the clocks in steps of their own: the day can turn between the   *)
(* check of a document and its storing, and between the reader's two checks.     *)
EXTENDS Integers

CONSTANTS
    Fresh,          \* _FRESH_SECONDS, in ticks of the monotonic clock
    MaxTicks,       \* bound: ticks
    PickupDays      \* bound: the days that pass, in order

ASSUME PickupBounds == Fresh \in Nat /\ MaxTicks \in Nat /\ PickupDays \subseteq Nat

VARIABLES
    ticks,          \* monotonic()
    today,          \* the day in Berlin
    round,          \* the refresher: what it has in hand, and where it is with it
    kept,           \* the document and _fetched_at, written under the lock
    lastGood,       \* the last document of its day that came in, and when
    reader          \* the serving thread's copy, and what lastGood was by then

pickupVars == <<ticks, today, round, kept, lastGood, reader>>

NoDocument == [day |-> -1, at |-> -1]
Resting == [step |-> "rest", day |-> -1]
NotReading == [step |-> "none", copy |-> NoDocument, good |-> NoDocument]

Pass ==
    /\ \/ ticks < MaxTicks /\ ticks' = ticks + 1 /\ UNCHANGED today
       \/ today + 1 \in PickupDays /\ today' = today + 1 /\ UNCHANGED ticks
    /\ UNCHANGED <<round, kept, reader, lastGood>>

\* A document of whatever day the courier app thinks it is.
Fetch(day) ==
    /\ round = Resting
    /\ round' = [step |-> "fetched", day |-> day]
    /\ UNCHANGED <<ticks, today, kept, reader, lastGood>>

\* After a failed round nothing is kept.
ForgetKept == kept' = NoDocument

\* No answer, a malformed one or one of another day: the last good one stays.
KeepKept == UNCHANGED kept

FetchFails ==
    /\ round = Resting
    /\ KeepKept
    /\ UNCHANGED <<ticks, today, round, reader, lastGood>>

CheckDay ==
    /\ round.step = "fetched"
    /\ IF round.day = today
       THEN /\ round' = [round EXCEPT !.step = "checked"]
            /\ UNCHANGED kept
       ELSE round' = Resting /\ KeepKept
    /\ UNCHANGED <<ticks, today, reader, lastGood>>

Store ==
    /\ round.step = "checked"
    /\ kept' = [day |-> round.day, at |-> ticks]
    /\ lastGood' = [day |-> round.day, at |-> ticks]
    /\ round' = Resting
    /\ UNCHANGED <<ticks, today, reader>>

TakeCopy ==
    /\ reader' = [step |-> IF kept = NoDocument THEN "blind" ELSE "copied",
                  copy |-> kept, good |-> lastGood]
    /\ UNCHANGED <<ticks, today, round, kept, lastGood>>

ReaderGoes(step) == /\ reader' = [reader EXCEPT !.step = step]
                    /\ UNCHANGED <<ticks, today, round, kept, lastGood>>

CheckAge ==
    /\ reader.step = "copied"
    /\ ReaderGoes(IF ticks - reader.copy.at > Fresh THEN "blind" ELSE "young")

CheckToday ==
    /\ reader.step = "young"
    /\ ReaderGoes(IF reader.copy.day = today THEN "shown" ELSE "blind")

Forget ==
    /\ reader.step \in {"shown", "blind"}
    /\ reader' = NotReading
    /\ UNCHANGED <<ticks, today, round, kept, lastGood>>

PickupInit ==
    /\ ticks = 0
    /\ today \in PickupDays /\ \A d \in PickupDays : today <= d
    /\ round = Resting /\ kept = NoDocument
    /\ reader = NotReading /\ lastGood = NoDocument

PickupNext ==
    \/ Pass \/ FetchFails \/ CheckDay \/ Store
    \/ \E day \in PickupDays : Fetch(day)
    \/ reader = NotReading /\ TakeCopy
    \/ CheckAge \/ CheckToday \/ Forget

PickupSpec == PickupInit /\ [][PickupNext]_pickupVars

PickupDocument == [day : Nat \cup {-1}, at : Nat \cup {-1}]

\* Type invariant.
PickupTypeOK ==
    /\ ticks \in Nat
    /\ today \in Nat
    /\ round \in [step : {"rest", "fetched", "checked"}, day : Nat \cup {-1}]
    /\ kept \in PickupDocument
    /\ reader \in [step : {"none", "copied", "young", "shown", "blind"},
                   copy : PickupDocument, good : PickupDocument]

\* The kitchen never gets another day's list, though a document can be checked
\* before midnight and stored after it.
ListIsOfToday ==
    [][reader'.step = "shown" /\ reader.step # "shown" => reader.copy.day = today]_pickupVars

\* The kitchen is told that the signal is blind only when no good document came
\* in for as long as one counts as fresh: single failed rounds show nothing.
BlindOnlyWhenSilent ==
    reader.step = "blind" =>
        reader.good.day # today \/ ticks - reader.good.at > Fresh

\* What the kitchen sees is of today, and blind is said only after a silence.
SignalIsHonest == [](PickupTypeOK /\ BlindOnlyWhenSilent) /\ ListIsOfToday

=============================================================================
