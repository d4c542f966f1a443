------------------------------- MODULE OfficeDesk -------------------------------
(****************************************************************************)
(* What the office sees of the commercial side: the next action of an        *)
(* inquiry, the task list, the offer queue, the calendar and the counters of *)
(* the Arbeitszentrale.  All of it is derived on every read and none of it   *)
(* has state, so the module adds operators to Offer and no action.           *)
(*                                                                          *)
(* Each of these services reads the same rows with rules of its own.  The    *)
(* properties relate their answers to one another and to what the commands   *)
(* of the Core accept.  The payment tasks are left to PaymentCash, and with  *)
(* them sorting, titles and the window of days a list is asked for.          *)
(****************************************************************************)
EXTENDS Offer

OfferOf(i) == CHOOSE f \in Offers : offers[f].inquiry = i

Lost(i) == inquiries[i].stage = "lost"

\* Faulty variant: an outstanding verification does not come first.
NextActionUnverified(i) ==
    IF Lost(i) \/ HasActiveOrder(i) THEN "none"
    ELSE IF OffersOf(i) # {} THEN ActionForOffer(OfferOf(i))
    ELSE IF MayPrepareOffer(i) THEN "prepare-offer"
    ELSE "none"

\* derive_inquiry_office_state: the one primary action of an inquiry.
NextAction(i) ==
    IF Lost(i) \/ HasActiveOrder(i) THEN "none"
    ELSE IF ~ inquiries[i].verified THEN "verify"
    ELSE IF OffersOf(i) # {} THEN ActionForOffer(OfferOf(i))
    ELSE IF MayPrepareOffer(i) THEN "prepare-offer"
    ELSE "none"

\* Faulty variant: the stand the kitchen works from hides the one after it.
EffectiveFirst(o) ==
    IF orders[o].effective \in VersionsOf(o) THEN orders[o].effective
                                             ELSE LatestVersion(o)

\* resolve_next_action: the candidate, or else the newest version.
TargetVersion(o) ==
    IF orders[o].candidate \in VersionsOf(o) THEN orders[o].candidate
                                             ELSE LatestVersion(o)

NeedsPrint(o) ==
    /\ Active(o)
    /\ VersionsOf(o) # {}
    /\ ~ versions[TargetVersion(o)].confirmed

\* list_tasks
Tasks ==
    {<<NextAction(i), i>> : i \in {j \in Inquiries :
        NextAction(j) \in {"verify", "prepare-offer", "prepare-next-version",
                           "convert-accepted"}}}
    \cup {<<"print-confirm", TargetVersion(o)>> : o \in {p \in Orders : NeedsPrint(p)}}

\* _classify: the group of an offer in the queue.
QueueGroup(f) ==
    IF \/ Projection(f) \in {"Converted", "Rejected", "Withdrawn", "Superseded"}
       \/ Lost(offers[f].inquiry)
    THEN "history"
    ELSE IF Projection(f) = "Expired" THEN "overdue" ELSE "action_required"

\* _next_action of the queue; an offer of a lost inquiry has none unless its
\* newest version was rejected or withdrawn.
QueueAction(f) ==
    LET s == Projection(f)
    IN  IF s \in {"Rejected", "Withdrawn"} THEN "prepare_next_version"
        ELSE IF QueueGroup(f) = "history" THEN "none"
        ELSE IF s = "Expired"  THEN "prepare_next_version"
        ELSE IF s = "Prepared" THEN "mark_sent"
        ELSE IF s = "Sent"     THEN "await_customer"
        ELSE IF inquiries[offers[f].inquiry].complete THEN "convert_accepted"
        ELSE "complete_contact"

\* _offer_calendar_eligible looks at the newest version, accepted or not.
HoldsTheDate(f) == State(f, Latest(f)) \in {"Prepared", "Sent", "Accepted"}

\* The effective version of an order, or else its target.
OrderEntry(o) ==
    IF orders[o].effective # None /\ Owned(o, orders[o].effective)
    THEN [kind |-> "confirmed", facts |-> versions[orders[o].effective].facts]
    ELSE [kind |-> "planned", facts |-> versions[TargetVersion(o)].facts]

NoEntry == [kind |-> "none", facts |-> None]

\* _project_inquiry: the one entry of an inquiry in the calendar.
CalendarEntry(i) ==
    IF HasActiveOrder(i)
    THEN OrderEntry(CHOOSE o \in Orders : Active(o) /\ orders[o].inquiry = i)
    ELSE IF HasLinkedOrder(i) THEN NoEntry
    ELSE IF OffersOf(i) # {} /\ HoldsTheDate(OfferOf(i))
    THEN [kind  |-> "tentative",
          facts |-> offers[OfferOf(i)].versions[Latest(OfferOf(i))].content.facts]
    ELSE IF Lost(i) THEN NoEntry
    ELSE [kind |-> "tentative", facts |-> None]

\* The counters of the Arbeitszentrale: WorkCenterService.snapshot.
Callbacks      == {i \in Inquiries : NextAction(i) = "verify"}
OffersWaiting  == {f \in Offers : Prepared(f) /\ Projection(f) \in {"Prepared", "Sent"}}
OffersAccepted == {f \in Offers : Prepared(f) /\ Projection(f) = "Accepted"}
PendingChanges == {o \in Orders :
                     /\ Active(o)
                     /\ orders[o].candidate \notin {None, orders[o].effective}
                     /\ Stored(orders[o].candidate)
                     /\ ~ versions[orders[o].candidate].confirmed}

-----------------------------------------------------------------------------
(* Properties. *)

\* Nothing is forgotten: an inquiry for which the Core would take the next
\* commercial step has a task that names it, or its offer waits in the queue
\* for the customer.  The desk finds the step by rules of its own
\* (derive_inquiry_office_state, _classify), the Core by the gates of each
\* command; a step only the Core knows of would never be taken.
EveryStepIsShown ==
    \A i \in Inquiries :
        /\ ~ Lost(i) /\ ~ inquiries[i].verified /\ ~ HasActiveOrder(i) =>
             <<"verify", i>> \in Tasks
        /\ MayPrepareOffer(i) => <<"prepare-offer", i>> \in Tasks
        /\ \A f \in OffersOf(i) :
             /\ MayConvert(f) => /\ <<"convert-accepted", i>> \in Tasks
                                 /\ QueueAction(f) = "convert_accepted"
             /\ MayPrepareNext(f) /\ MayProgress(i) =>
                  \/ <<"prepare-next-version", i>> \in Tasks
                  \/ QueueAction(f) = "await_customer"

\* An order nobody has to do anything about is ready: when the desk shows no
\* print task for an active order and it is not on hold, READY_TO_SEND holds
\* and releases what the task rule looked at (resolve_next_action and
\* evaluate_ready_to_send are derived from different rows).
QuietOrderIsReady ==
    \A o \in Orders :
        Active(o) /\ ~ NeedsPrint(o) /\ ActivePause(o) = 0 =>
            Ready(o) /\ orders[o].effective = TargetVersion(o)

\* The Arbeitszentrale and the lists behind it agree: a change counted as
\* pending is a print task, an accepted offer counted there is in the queue's
\* first group as long as its inquiry is alive, and an event the calendar
\* calls confirmed is a stand the kitchen has printed: the newest one, unless a
\* print task is open.  (A stand printed late, after the next change was made,
\* is confirmed too but never shown: _activation_after_successful_print.)
CountersAgree ==
    /\ \A o \in PendingChanges : <<"print-confirm", orders[o].candidate>> \in Tasks
    /\ \A f \in OffersAccepted :
         ~ Lost(offers[f].inquiry) => QueueGroup(f) = "action_required"
    /\ \A o \in Orders : Active(o) /\ CalendarEntry(orders[o].inquiry).kind = "confirmed" =>
         \E v \in VersionsOf(o) :
           /\ versions[v].confirmed
           /\ CalendarEntry(orders[o].inquiry).facts = versions[v].facts
           /\ versions[v].number < LatestNumber(o) => NeedsPrint(o)

\* An event the calendar shows as confirmed stays confirmed while its order is
\* active: a later change is planned next to it and takes its place only when
\* the kitchen has printed it.
ConfirmedStaysConfirmed ==
    [][\A i \in Inquiries :
         CalendarEntry(i).kind = "confirmed" /\ HasActiveOrder(i)' =>
            CalendarEntry(i)'.kind = "confirmed"]_offerVars

\* Tasks, counters, queue and calendar tell one story of an order, in every state
\* and from one state to the next.
ViewsAgree == [](QuietOrderIsReady /\ CountersAgree) /\ ConfirmedStaysConfirmed

=============================================================================
