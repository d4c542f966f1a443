------------------------------ MODULE PaymentCash ------------------------------
(****************************************************************************)
(* What an order owes: the office's payment record of an order with its     *)
(* reminders and its two audit logs, and the cash events of the courier,    *)
(* which run through their own state machine and write the same record.     *)
(*                                                                          *)
(* Composed with OrderCore: a revision, Storno or deletion of the order     *)
(* changes what the record means.  Every action is one command in one       *)
(* transaction.  The expected updated_at an office form sends and the       *)
(* replay of a command under its own id change no state; CoreCommand models *)
(* them.                                                                    *)
(*                                                                          *)
(* Days are numbers.  An instant is compared with the creation of versions  *)
(* only, so it is the set of the versions that existed then.                *)
(****************************************************************************)
EXTENDS OrderCore, Integers

CONSTANTS
    Days,             \* the days on which anything may happen
    SentDays,         \* the sent dates the office types in
    MaxChanges,       \* bound of the log of payment method changes
    MaxCorrections,   \* bound of the log of payment corrections
    MaxCash           \* bound of the cash events of one order

ASSUME DaysAssumption == Days \subseteq Nat /\ SentDays \subseteq Nat /\ Facts \subseteq Nat /\ Windows \subseteq Nat

VARIABLES
    reminders,     \* rows of order_payment_reminders, by order
    changes,       \* per order: order_payment_method_changes, the replaced rows
    corrections,   \* per order: order_payment_completion_corrections, likewise
    cash,          \* per order: courier_cash_events in their sequence
    today

payVars == <<orders, versions, pauses, reminders, changes, corrections, cash, today>>

PaymentUnchanged == UNCHANGED <<reminders, changes, corrections, cash>>

Methods == {"VORKASSE", "RECHNUNG", "BAR"}

\* NULL is neither a method nor a day.
ASSUME PaymentNoneAssumption ==
    None \notin Methods /\ None \notin Days /\ None \notin SentDays

\* cash_received is left out: it is paid_on of a BAR row and refused otherwise.
\* The *With fields stand for the audit stamps.
Reminder == [method : Optional(Methods), invoice : BOOLEAN, sent : Optional(SentDays),
             paid : BOOLEAN, quittung : BOOLEAN,
             reminded : Optional(Days), dunned : Optional(Days),
             invoicedWith : SUBSET Versions, paidWith : SUBSET Versions,
             printedWith : SUBSET Versions]

NoReminder == [method |-> None, invoice |-> FALSE, sent |-> None, paid |-> FALSE,
               quittung |-> FALSE, reminded |-> None, dunned |-> None,
               invoicedWith |-> {}, paidWith |-> {}, printedWith |-> {}]

Empty(m) == [NoReminder EXCEPT !.method = m]

\* What the office's payment form sends.
Form == [method : Methods, invoice : BOOLEAN, sent : Optional(SentDays),
         paid : BOOLEAN, quittung : BOOLEAN]

\* validate_payment_reminder: a cash row has no invoice facts, an invoice row no
\* Quittung, and each invoice fact rests on the one before it.
Valid(r) ==
    IF r.method = "BAR"
    THEN ~ r.invoice /\ r.sent = None /\ r.reminded = None /\ r.dunned = None
    ELSE /\ ~ r.quittung
         /\ r.sent # None \/ r.paid => r.invoice
         /\ r.reminded # None => r.invoice /\ r.sent # None
         /\ r.dunned # None => r.method = "RECHNUNG" /\ r.reminded # None

-----------------------------------------------------------------------------
(* Dates. *)

\* _event_date: that of the candidate, or else of the newest version.
EventDate(o) ==
    versions[IF orders[o].candidate \in VersionsOf(o) THEN orders[o].candidate
                                                      ELSE LatestVersion(o)].facts

\* _fulfilment_date: of the effective version, the candidate, or the newest.
FulfilmentDate(o) ==
    LET v == IF orders[o].effective \in VersionsOf(o) THEN orders[o].effective
             ELSE IF orders[o].candidate \in VersionsOf(o) THEN orders[o].candidate
             ELSE LatestVersion(o)
    IN  IF versions[v].window # None THEN versions[v].window ELSE versions[v].facts

ReminderDue(o, r) ==
    IF r.method = "VORKASSE" THEN today + 6 >= EventDate(o) ELSE today >= r.sent + 15

\* The two gates of save() for the marks of the form.
MayRemind(o, r) ==
    /\ r.method # "BAR" /\ r.invoice /\ r.sent # None /\ ~ r.paid
    /\ ReminderDue(o, r)

MayDun(r) ==
    /\ r.method = "RECHNUNG" /\ ~ r.paid /\ r.reminded # None
    /\ today >= r.reminded + 7

-----------------------------------------------------------------------------
(* The office's record. *)

\* Faulty variant: accepts whatever the form says of recorded facts.
RewritesNothing(cur, form) == FALSE

\* _reject_silent_fact_rewrite.
RewritesSilently(cur, form) ==
    \/ cur.invoice /\ ~ form.invoice
    \/ cur.sent # None /\ form.sent # cur.sent
    \/ cur.paid /\ ~ form.paid
    \/ cur.quittung /\ ~ form.quittung

\* The row save() writes: the facts of the form, stamps for those that are new.
Stamped(o, cur, form) ==
    [cur EXCEPT !.method = form.method, !.invoice = form.invoice, !.sent = form.sent,
                !.paid = form.paid, !.quittung = form.quittung,
        !.invoicedWith = IF form.invoice /\ ~ cur.invoice THEN VersionsOf(o) ELSE @,
        !.paidWith     = IF form.paid /\ ~ cur.paid THEN VersionsOf(o) ELSE @,
        !.printedWith  = IF form.quittung /\ ~ cur.quittung THEN VersionsOf(o) ELSE @]

Marked(r, remind, dun) ==
    [r EXCEPT !.reminded = IF remind /\ @ = None THEN today ELSE @,
              !.dunned   = IF dun /\ @ = None THEN today ELSE @]

\* PaymentReminderService.save.
Saves(o, form, remind, dun) ==
    LET cur == reminders[o]
        row == Stamped(o, cur, form)
        new == Marked(row, remind, dun)
    IN  /\ Active(o)
        /\ cur.method # None => form.method = cur.method /\ ~ RewritesSilently(cur, form)
        /\ remind /\ cur.reminded = None => MayRemind(o, row)
        /\ dun /\ cur.dunned = None => MayDun(Marked(row, remind, FALSE))
        /\ Valid(new)
        /\ reminders' = [reminders EXCEPT ![o] = new]

SavePayment(o, form, remind, dun) ==
    /\ Saves(o, form, remind, dun)
    /\ UNCHANGED <<orders, versions, pauses, changes, corrections, cash, today>>

\* change_payment_method: the whole row is archived and begun anew.
ChangeMethod(o, m) ==
    /\ Active(o)
    /\ reminders[o].method \notin {None, m}
    /\ ~ reminders[o].paid
    /\ Len(changes[o]) < MaxChanges
    /\ changes' = [changes EXCEPT ![o] = Append(@, reminders[o])]
    /\ reminders' = [reminders EXCEPT ![o] = Empty(m)]
    /\ UNCHANGED <<orders, versions, pauses, corrections, cash, today>>

\* correct_payment_completion: the payment is taken back and the row archived;
\* also of a cancelled order.
CorrectsPayment(o) ==
    /\ Exists(o)
    /\ reminders[o].paid
    /\ corrections' = [corrections EXCEPT ![o] = Append(@, reminders[o])]
    /\ reminders' = [reminders EXCEPT ![o] = [@ EXCEPT !.paid = FALSE, !.paidWith = {}]]

CorrectPayment(o) ==
    /\ Len(corrections[o]) < MaxCorrections
    /\ CorrectsPayment(o)
    /\ UNCHANGED <<orders, versions, pauses, changes, cash, today>>

-----------------------------------------------------------------------------
(* The courier's cash. *)

CashEvent == [event : {"received", "not_received", "handed", "confirmed", "direct",
                       "correction"},
              to    : {"custody", "awaiting", "final", "not_received", "review"},
              context : [changes : Nat, stand : Optional(Versions), printed : BOOLEAN,
                         corrected : Nat, reviewed : Nat]]

\* Index of the newest correction of the cash log, 0 if there is none.
LatestCashCorrection(o) ==
    LET S == {k \in 1..Len(cash[o]) : cash[o][k].event = "correction"}
    IN  IF S = {} THEN 0 ELSE CHOOSE k \in S : IsMaxOf(k, S)

\* Faulty variant: a correction of the payment does not end the context.
ContextWithoutCorrections(o) ==
    [changes |-> Len(changes[o]), stand |-> orders[o].effective,
     printed |-> reminders[o].quittung, corrected |-> 0,
     reviewed |-> LatestCashCorrection(o)]

\* The material of cash_execution_context_id.  Within one payment method the
\* Quittung is stamped once, so the stamp is a flag here.
Context(o) ==
    [changes |-> Len(changes[o]), stand |-> orders[o].effective,
     printed |-> reminders[o].quittung, corrected |-> Len(corrections[o]),
     reviewed |-> LatestCashCorrection(o)]

\* CourierCashContextService.projection answers only for these orders.
Projected(o) ==
    /\ Active(o)
    /\ reminders[o].method = "BAR"
    /\ orders[o].effective \in VersionsOf(o)

\* QUITTUNG_PRINTED_CURRENT: not printed before the version was created.
QuittungCurrent(o) ==
    reminders[o].quittung /\ orders[o].effective \in reminders[o].printedWith

\* The state a command finds: the newest event of the context, and in a context
\* without one "ready", unless the newest event of the order asks for a review.
CashState(o) ==
    LET log == cash[o]
        own == {k \in 1..Len(log) : log[k].context = Context(o)}
    IN  IF own # {} THEN log[CHOOSE k \in own : IsMaxOf(k, own)].to
        ELSE IF log # <<>> /\ log[Len(log)].to = "review" THEN "review"
        ELSE "ready"

\* The keys of _TRANSITIONS with their values.
Transitions == {<<"ready", "received", "custody">>,
                <<"ready", "not_received", "not_received">>,
                <<"custody", "handed", "awaiting">>,
                <<"awaiting", "confirmed", "final">>,
                <<"ready", "direct", "final">>}

Correctable == {"custody", "awaiting", "final", "not_received"}

Journal(o, e, to) ==
    cash' = [cash EXCEPT ![o] = Append(@, [event |-> e, to |-> to,
                                           context |-> Context(o)])]

FormOf(r) == [method |-> r.method, invoice |-> r.invoice, sent |-> r.sent,
              paid |-> r.paid, quittung |-> r.quittung]

\* process() for every event but the correction; the last one of a way records
\* the payment in the office's row, in the same transaction.  A direct handover
\* needs the fulfilment mode PICKUP, which the office sets at any time.
CashHandoff(o, e) ==
    /\ Len(cash[o]) < MaxCash
    /\ Projected(o)
    /\ \E t \in Transitions :
         /\ t[1] = CashState(o) /\ t[2] = e
         /\ t[1] = "ready" => QuittungCurrent(o)
         /\ IF t[3] = "final"
            THEN /\ ~ reminders[o].paid
                 /\ Saves(o, [FormOf(reminders[o]) EXCEPT !.paid = TRUE], FALSE, FALSE)
            ELSE UNCHANGED reminders
         /\ Journal(o, e, t[3])
    /\ UNCHANGED <<orders, versions, pauses, changes, corrections, today>>

\* process() for a correction.  It names any earlier event k of the order; only
\* the correction of a final one takes the payment back.
CashCorrection(o, k) ==
    /\ Len(cash[o]) < MaxCash
    /\ Projected(o)
    /\ CashState(o) \in Correctable
    /\ k \in 1..Len(cash[o])
    /\ IF cash[o][k].to = "final"
       THEN Len(corrections[o]) < MaxCorrections /\ CorrectsPayment(o)
       ELSE UNCHANGED <<reminders, corrections>>
    /\ Journal(o, "correction", "review")
    /\ UNCHANGED <<orders, versions, pauses, changes, today>>

-----------------------------------------------------------------------------
PaymentInit ==
    /\ Init
    /\ reminders = [o \in Orders |-> NoReminder]
    /\ changes = [o \in Orders |-> <<>>]
    /\ corrections = [o \in Orders |-> <<>>]
    /\ cash = [o \in Orders |-> <<>>]
    /\ \E d \in Days : today = d /\ \A e \in Days : d <= e

\* The conversion seeds the method; an order from before that rule has no row.
CreatePayable(o, v, i, row, m) ==
    /\ CreateOrder(o, v, i, row)
    /\ reminders' = [reminders EXCEPT ![o] = Empty(m)]
    /\ UNCHANGED <<changes, corrections, cash, today>>

\* The purge deletes from every table with a column order_id, with the triggers
\* that protect the logs suspended.
PurgePayable(o) ==
    /\ PurgeOrder(o)
    /\ reminders' = [reminders EXCEPT ![o] = NoReminder]
    /\ changes' = [changes EXCEPT ![o] = <<>>]
    /\ corrections' = [corrections EXCEPT ![o] = <<>>]
    /\ cash' = [cash EXCEPT ![o] = <<>>]
    /\ UNCHANGED today

OrderStep ==
    /\ \/ ChangeNext
       \/ \E o \in Orders, v \in Versions : AcknowledgePrint(o, v)
    /\ PaymentUnchanged /\ UNCHANGED today

NextDay ==
    /\ \E d \in Days : /\ today < d
                       /\ \A e \in Days : today < e => d <= e
                       /\ today' = d
    /\ UNCHANGED <<orders, versions, pauses>> /\ PaymentUnchanged

OfficePayments ==
    \E o \in Orders :
      \/ \E form \in Form, remind, dun \in BOOLEAN : SavePayment(o, form, remind, dun)
      \/ \E m \in Methods : ChangeMethod(o, m)
      \/ CorrectPayment(o)

CourierCash ==
    \E o \in Orders :
      \/ \E t \in Transitions : CashHandoff(o, t[2])
      \/ \E k \in 1..MaxCash : CashCorrection(o, k)

OrderLife ==
    \/ \E o \in Orders, v \in Versions, i \in Inquiries, row \in InitialContents,
          m \in Optional(Methods) : CreatePayable(o, v, i, row, m)
    \/ OrderStep
    \/ \E o \in Orders : PurgePayable(o)

PaymentNext == OfficePayments \/ CourierCash \/ OrderLife \/ NextDay

PaymentSpec == PaymentInit /\ [][PaymentNext]_payVars

-----------------------------------------------------------------------------
(* What the office is told to do next. *)

\* Some revision of the order is younger than the stamp that knew these versions.
RevisedSince(o, known) ==
    \E v \in VersionsOf(o) : versions[v].parent # None /\ v \notin known

CashStep(o, r) ==
    IF ~ r.quittung THEN "print Quittung"
    ELSE IF r.paid THEN "none"
    ELSE IF today > EventDate(o) THEN "clarify cash"
    ELSE "await cash"

PrepaymentStep(o, r) ==
    IF today + 3 >= EventDate(o) THEN "decide"
    ELSE IF today + 6 >= EventDate(o) /\ r.reminded = None THEN "remind"
    ELSE "check payment"

InvoiceStep(r) ==
    CASE r.reminded = None -> IF today >= r.sent + 15 THEN "remind" ELSE "check payment"
      [] r.reminded # None /\ r.dunned = None ->
           IF today >= r.reminded + 7 THEN "dun" ELSE "check payment"
      [] OTHER -> IF today >= r.dunned + 7 THEN "decide" ELSE "check payment"

\* derive_payment_reminder.
DerivedStep(o) ==
    LET r == reminders[o]
    IN  IF r.method = None THEN "choose method"
        ELSE IF r.method = "BAR" THEN CashStep(o, r)
        ELSE IF ~ r.invoice THEN "create invoice"
        ELSE IF r.paid THEN "none"
        ELSE IF r.sent = None THEN "complete invoice"
        ELSE IF r.method = "VORKASSE" THEN PrepaymentStep(o, r)
        ELSE InvoiceStep(r)

\* Faulty variant: an invoice older than a revision is still dunned.
StepDespiteRevision(o) ==
    IF ~ Active(o) THEN (IF reminders[o].paid THEN "check refund" ELSE "none")
    ELSE DerivedStep(o)

\* PaymentReminderService.view: Storno and later revisions overrule that step.
NextStep(o) ==
    LET r == reminders[o]
    IN  IF ~ Active(o) THEN (IF r.paid THEN "check refund" ELSE "none")
        ELSE IF r.method = "RECHNUNG" /\ ~ r.invoice /\ today <= FulfilmentDate(o)
             THEN "none"
        ELSE IF r.paid /\ RevisedSince(o, r.paidWith) THEN "review payment"
        ELSE IF r.method = "BAR" /\ r.quittung /\ RevisedSince(o, r.printedWith)
             THEN "reprint Quittung"
        ELSE IF r.invoice /\ RevisedSince(o, r.invoicedWith) THEN "correct invoice"
        ELSE DerivedStep(o)

-----------------------------------------------------------------------------
(* Properties. *)

\* Type invariant: the tables have their columns, and every payment row that was
\* written passes validate_payment_reminder.
PaymentTypeOK ==
    /\ reminders \in [Orders -> Reminder \cup {NoReminder}]
    /\ \A o \in Orders : reminders[o].method # None => Valid(reminders[o])
    /\ changes \in [Orders -> Seq(Reminder)]
    /\ corrections \in [Orders -> Seq(Reminder)]
    /\ cash \in [Orders -> Seq(CashEvent)]
    /\ today \in Days

\* Courier and office agree: where the cash log says the money reached the
\* chef, the office's record says paid, although the office can correct it,
\* change the method or revise the order without asking the courier; and every
\* payment the courier's way recorded but one was taken back by a correction.
CashAndPaymentAgree ==
    \A o \in Orders :
        /\ Projected(o) /\ CashState(o) = "final" => reminders[o].paid
        /\ Cardinality({k \in 1..Len(cash[o]) : cash[o][k].to = "final"})
             <= Len(corrections[o]) + 1

\* A review ends the courier's part: whatever revision, method or correction
\* follows, no cash event is accepted after a BAR_HANDOFF_CORRECTION.
ReviewIsTheLastCashEvent ==
    \A o \in Orders : \A k \in 1..Len(cash[o]) :
        cash[o][k].to = "review" => k = Len(cash[o])

\* The courier's log and the office's record are two books about one payment, each
\* written without a look at the other by one side.
CashBooksAgree == PaymentTypeOK /\ CashAndPaymentAgree /\ ReviewIsTheLastCashEvent

\* A reminder the office is told to send can be recorded: view() and save()
\* compute the due days in two places and from two readings of the row.
OfferedReminderIsAccepted ==
    \A o \in Orders :
        /\ NextStep(o) = "remind" => MayRemind(o, reminders[o])
        /\ NextStep(o) = "dun"    => MayDun(reminders[o])

\* Nobody is asked for money that is there or for an order that was cancelled,
\* nor reminded of an invoice that an order revision has made wrong.
NoDemandWithoutDebt ==
    \A o \in Orders :
        NextStep(o) \in {"remind", "dun", "clarify cash", "decide"} =>
          /\ Active(o)
          /\ ~ reminders[o].paid
          /\ reminders[o].method # "BAR" => ~ RevisedSince(o, reminders[o].invoicedWith)

\* What the panel tells the office to ask the customer for is owed and can be
\* recorded.
DemandsAreDue == OfferedReminderIsAccepted /\ NoDemandWithoutDebt

LosesFact(r, s) ==
    \/ \E f \in {"invoice", "paid", "quittung"} : r[f] /\ ~ s[f]
    \/ \E f \in {"sent", "reminded", "dunned"} : r[f] # None /\ s[f] # r[f]

\* No recorded payment fact disappears without a trace: a fact that a step takes
\* from the row is in the entry the same step adds to a log, or the order is
\* deleted.
NothingVanishes ==
    [][\A o \in Orders :
         Exists(o)' /\ LosesFact(reminders[o], reminders'[o]) =>
           \/ changes'[o] = Append(changes[o], reminders[o])
           \/ corrections'[o] = Append(corrections[o], reminders[o])]_payVars

=============================================================================
