-------------------------- MODULE PaymentCash_proofs --------------------------
(* Proofs about the office's payment record and the courier's cash log, for any   *)
(* number of orders, revisions, corrections and cash events.                      *)
EXTENDS PaymentCash, OrderCore_proofs

-----------------------------------------------------------------------------
(* The order aggregate under the payments is OrderCore. *)

LEMMA PaymentStepIsCoreStep == PaymentNext => [Next]_coreVars
PROOF
  <1>1. OfficePayments => UNCHANGED coreVars
    BY DEF OfficePayments, SavePayment, ChangeMethod, CorrectPayment, coreVars
  <1>2. CourierCash => UNCHANGED coreVars
    BY DEF CourierCash, CashHandoff, CashCorrection, coreVars
  <1>3. NextDay => UNCHANGED coreVars
    BY DEF NextDay, coreVars
  <1>4. OrderLife => Next
    BY DEF OrderLife, CreatePayable, OrderStep, PurgePayable, Next, OfficeNext, HandlerNext
  <1> QED
    BY <1>1, <1>2, <1>3, <1>4 DEF PaymentNext

\* The payments change nothing in an order: every theorem of OrderCore_proofs
\* about Spec holds of the orders, versions and holds in PaymentSpec.
THEOREM PaymentsKeepTheOrder == PaymentSpec => Spec
PROOF
  <1>1. PaymentInit => Init
    BY DEF PaymentInit
  <1>2. [PaymentNext]_payVars => [Next]_coreVars
    BY PaymentStepIsCoreStep DEF payVars, coreVars
  <1> QED
    BY <1>1, <1>2, PTL DEF PaymentSpec, Spec

-----------------------------------------------------------------------------
(* The inductive invariant. *)

\* A row without a method was never written; an order without a row has no books.
RowIsSound(o) ==
    /\ reminders[o].method # None => Valid(reminders[o])
    /\ reminders[o].method = None => reminders[o] = NoReminder
    /\ ~ Exists(o) => reminders[o] = NoReminder /\ cash[o] = <<>>

FinalsOf(log) == {k \in 1..Len(log) : log[k].to = "final"}

\* What the log of the courier owes to the two counters a context is made of and to the
\* payment in the office's row.  A final event of the present context stands for a
\* payment that is still there, and each earlier one for a correction; nothing follows
\* a correction of the log; a context never lies ahead of the log.
LogIsSound(log, method, corrected, paid) ==
    /\ \A k \in 1..Len(log) :
         /\ log[k].context.changes <= method
         /\ log[k].context.corrected <= corrected
         /\ log[k].context.reviewed < k
         /\ log[k].to = "review" <=> log[k].event = "correction"
         /\ log[k].to = "review" => k = Len(log)
         /\ /\ log[k].to = "final"
            /\ log[k].context.changes = method
            /\ log[k].context.corrected = corrected
            => paid
    /\ Cardinality(FinalsOf(log)) <= corrected + (IF paid THEN 1 ELSE 0)

BooksAgree(o) ==
    LogIsSound(cash[o], Len(changes[o]), Len(corrections[o]), reminders[o].paid)

PaymentTypes ==
    /\ reminders \in [Orders -> Reminder]
    /\ changes \in [Orders -> Seq(Reminder)]
    /\ corrections \in [Orders -> Seq(Reminder)]
    /\ cash \in [Orders -> Seq(CashEvent)]
    /\ today \in Days

PaymentInv ==
    /\ PaymentTypes
    /\ \A o \in Orders : RowIsSound(o) /\ BooksAgree(o)

-----------------------------------------------------------------------------
(* Lemmas about the log. *)

LEMMA ContextTypes ==
    ASSUME NEW log \in Seq(CashEvent), NEW k \in 1..Len(log)
    PROVE  /\ log[k] \in CashEvent
           /\ log[k].context.changes \in Nat
           /\ log[k].context.corrected \in Nat
           /\ log[k].context.reviewed \in Nat
PROOF
  <1>1. log[k] \in CashEvent
    OBVIOUS
  <1> QED
    BY <1>1 DEF CashEvent

LEMMA FinalCounts ==
    ASSUME NEW log \in Seq(CashEvent), NEW e \in CashEvent
    PROVE  /\ Cardinality(FinalsOf(log)) \in Nat
           /\ Cardinality(FinalsOf(Append(log, e))) =
                Cardinality(FinalsOf(log)) + (IF e.to = "final" THEN 1 ELSE 0)
PROOF
  <1> DEFINE n == Len(log)
             new == Append(log, e)
  <1>1. /\ n \in Nat /\ Len(new) = n + 1 /\ new[n + 1] = e
        /\ \A k \in 1..n : new[k] = log[k]
    BY AppendProperties
  <1>2. IsFiniteSet(1..n)
    BY <1>1, FS_Interval
  <1>3. IsFiniteSet(FinalsOf(log)) /\ n + 1 \notin FinalsOf(log)
    BY <1>1, <1>2, FS_Subset DEF FinalsOf
  <1>4. Cardinality(FinalsOf(log)) \in Nat
    BY <1>3, FS_CardinalityType
  <1>5. FinalsOf(new) = FinalsOf(log) \cup (IF e.to = "final" THEN {n + 1} ELSE {})
    BY <1>1 DEF FinalsOf
  <1> HIDE DEF new
  <1>6. CASE e.to = "final"
    <2>1. FinalsOf(new) = FinalsOf(log) \cup {n + 1}
      BY <1>5, <1>6
    <2>2. Cardinality(FinalsOf(log) \cup {n + 1}) = Cardinality(FinalsOf(log)) + 1
      BY <1>3, FS_AddElement
    <2> QED
      BY <1>4, <1>6, <2>1, <2>2 DEF new
  <1>7. CASE e.to # "final"
    <2>1. FinalsOf(new) = FinalsOf(log)
      BY <1>5, <1>7
    <2> QED
      BY <1>4, <1>7, <2>1 DEF new
  <1> QED
    BY <1>6, <1>7

LEMMA EmptyLogIsSound ==
    ASSUME NEW m, NEW c \in Nat, NEW p \in BOOLEAN
    PROVE  LogIsSound(<<>>, m, c, p)
PROOF
  <1>1. FinalsOf(<<>>) = {}
    BY DEF FinalsOf
  <1>2. Cardinality(FinalsOf(<<>>)) = 0
    BY <1>1, FS_EmptySet
  <1> QED
    BY <1>2 DEF LogIsSound

\* A payment may be recorded, the method of an unpaid order changed, and a payment
\* taken back with a correction.
LEMMA TheRecordMoves ==
    ASSUME NEW log \in Seq(CashEvent), NEW m \in Nat, NEW c \in Nat, NEW p \in BOOLEAN,
           LogIsSound(log, m, c, p)
    PROVE  /\ LogIsSound(log, m, c, TRUE)
           /\ ~ p => LogIsSound(log, m + 1, c, FALSE)
           /\ LogIsSound(log, m, c + 1, FALSE)
PROOF
  <1>1. \A k \in 1..Len(log) : /\ log[k].context.changes \in Nat
                               /\ log[k].context.corrected \in Nat
    BY ContextTypes
  <1>2. Cardinality(FinalsOf(log)) \in Nat
    <2>1. IsFiniteSet(1..Len(log))
      BY FS_Interval
    <2> QED
      BY <2>1, FS_Subset, FS_CardinalityType DEF FinalsOf
  <1>3. LogIsSound(log, m, c, TRUE)
    BY <1>2 DEF LogIsSound
  <1>4. ASSUME ~ p  PROVE LogIsSound(log, m + 1, c, FALSE)
    BY <1>1, <1>2, <1>4 DEF LogIsSound
  <1>5. LogIsSound(log, m, c + 1, FALSE)
    BY <1>1, <1>2 DEF LogIsSound
  <1> QED
    BY <1>3, <1>4, <1>5

\* One event more, in the present context: a final one together with its payment.
LEMMA TheLogGrows ==
    ASSUME NEW log \in Seq(CashEvent), NEW m \in Nat, NEW c \in Nat, NEW p \in BOOLEAN,
           NEW q \in BOOLEAN, NEW e \in CashEvent,
           LogIsSound(log, m, c, p),
           \A k \in 1..Len(log) : log[k].to # "review",
           e.context.changes = m, e.context.corrected = c,
           e.context.reviewed <= Len(log),
           e.to = "review" <=> e.event = "correction",
           IF e.to = "final" THEN ~ p /\ q ELSE q = p
    PROVE  LogIsSound(Append(log, e), m, c, q)
PROOF
  <1> DEFINE n == Len(log)
             new == Append(log, e)
  <1>1. /\ n \in Nat /\ Len(new) = n + 1 /\ new[n + 1] = e
        /\ \A k \in 1..n : new[k] = log[k]
    BY AppendProperties
  <1>2. /\ Cardinality(FinalsOf(log)) \in Nat
        /\ Cardinality(FinalsOf(new)) =
             Cardinality(FinalsOf(log)) + (IF e.to = "final" THEN 1 ELSE 0)
    BY FinalCounts
  <1>3. e.context.reviewed \in Nat
    BY DEF CashEvent
  <1> HIDE DEF new
  <1>4. ASSUME NEW k \in 1..(n + 1)
        PROVE  /\ new[k].context.changes <= m
               /\ new[k].context.corrected <= c
               /\ new[k].context.reviewed < k
               /\ new[k].to = "review" <=> new[k].event = "correction"
               /\ new[k].to = "review" => k = n + 1
               /\ /\ new[k].to = "final"
                  /\ new[k].context.changes = m
                  /\ new[k].context.corrected = c
                  => q
    <2>1. CASE k = n + 1
      BY <1>1, <1>3, <2>1
    <2>2. CASE k \in 1..n
      BY <1>1, <2>2 DEF LogIsSound
    <2> QED
      BY <1>1, <2>1, <2>2
  <1>5. Cardinality(FinalsOf(new)) <= c + (IF q THEN 1 ELSE 0)
    BY <1>2 DEF LogIsSound
  <1>6. LogIsSound(new, m, c, q)
    BY <1>1, <1>4, <1>5 DEF LogIsSound
  <1> QED
    BY <1>6 DEF new

\* The last correction of a sound log is its last event, or there is none.
LEMMA TheLastCorrection ==
    ASSUME NEW o \in Orders, cash[o] \in Seq(CashEvent), BooksAgree(o)
    PROVE  /\ LatestCashCorrection(o) \in 0..Len(cash[o])
           /\ cash[o] # <<>> /\ cash[o][Len(cash[o])].to = "review" =>
                LatestCashCorrection(o) = Len(cash[o])
PROOF
  <1> DEFINE n == Len(cash[o])
             S == {k \in 1..n : cash[o][k].event = "correction"}
  <1>1. n \in Nat /\ LatestCashCorrection(o) =
          IF S = {} THEN 0 ELSE CHOOSE k \in S : IsMaxOf(k, S)
    BY DEF LatestCashCorrection
  <1>2. \A k \in S : k = n
    BY DEF BooksAgree, LogIsSound
  <1>3. CASE S = {}
    <2>1. cash[o] # <<>> => cash[o][n].event # "correction"
      BY <1>1, <1>3
    <2>2. cash[o] # <<>> => cash[o][n].to # "review"
      BY <1>1, <2>1 DEF BooksAgree, LogIsSound
    <2> QED
      BY <1>1, <1>3, <2>2
  <1>4. CASE S # {}
    <2>1. (CHOOSE k \in S : IsMaxOf(k, S)) \in S
      BY <1>1, <1>4, GreatestExists
    <2>2. (CHOOSE k \in S : IsMaxOf(k, S)) = n /\ n \in 1..n
      BY <1>2, <2>1
    <2>3. LatestCashCorrection(o) = n
      BY <1>1, <1>4, <2>2
    <2> HIDE DEF S
    <2>4. n \in 0..n
      BY <1>1
    <2> QED
      BY <2>3, <2>4
  <1> QED
    BY <1>3, <1>4

\* After a review no state admits an event.
LEMMA AReviewBlocks ==
    ASSUME NEW o \in Orders, cash[o] \in Seq(CashEvent), BooksAgree(o),
           cash[o] # <<>>, cash[o][Len(cash[o])].to = "review"
    PROVE  CashState(o) = "review"
PROOF
  <1> DEFINE n == Len(cash[o])
             own == {k \in 1..n : cash[o][k].context = Context(o)}
  <1>1. n \in Nat /\ Context(o).reviewed = n
    BY TheLastCorrection DEF Context
  <1>2. \A k \in 1..n : cash[o][k].context.reviewed < k /\ cash[o][k].context.reviewed \in Nat
    BY ContextTypes DEF BooksAgree, LogIsSound
  <1>3. own = {}
    BY <1>1, <1>2
  <1> QED
    BY <1>3 DEF CashState

\* So a log that admits one has no correction yet.
LEMMA OpenLog ==
    ASSUME NEW o \in Orders, cash[o] \in Seq(CashEvent), BooksAgree(o),
           CashState(o) # "review"
    PROVE  \A k \in 1..Len(cash[o]) : cash[o][k].to # "review"
PROOF
  <1>1. \A k \in 1..Len(cash[o]) : cash[o][k].to = "review" => k = Len(cash[o])
    BY DEF BooksAgree, LogIsSound
  <1> QED
    BY <1>1, AReviewBlocks

\* A state other than ready and review is that of an event of the present context.
LEMMA StateOfContext ==
    ASSUME NEW o \in Orders, cash[o] \in Seq(CashEvent),
           CashState(o) \notin {"ready", "review"}
    PROVE  \E k \in 1..Len(cash[o]) :
             cash[o][k].context = Context(o) /\ cash[o][k].to = CashState(o)
PROOF
  <1> DEFINE own == {k \in 1..Len(cash[o]) : cash[o][k].context = Context(o)}
  <1>1. own # {} /\ CashState(o) = cash[o][CHOOSE k \in own : IsMaxOf(k, own)].to
    BY DEF CashState
  <1>2. own \in SUBSET (1..Len(cash[o])) /\ Len(cash[o]) \in Nat
    OBVIOUS
  <1>3. \A k \in own : k \in 1..Len(cash[o]) /\ cash[o][k].context = Context(o)
    OBVIOUS
  <1> HIDE DEF own
  <1>4. (CHOOSE k \in own : IsMaxOf(k, own)) \in own
    BY <1>1, <1>2, GreatestExists
  <1> QED
    BY <1>1, <1>3, <1>4

LEMMA ContextIsTyped ==
    ASSUME TypeOK, PaymentInv, NEW o \in Orders
    PROVE  /\ Context(o) \in [changes : Nat, stand : Optional(Versions), printed : BOOLEAN,
                              corrected : Nat, reviewed : Nat]
           /\ Context(o).changes = Len(changes[o])
           /\ Context(o).corrected = Len(corrections[o])
           /\ Context(o).reviewed <= Len(cash[o])
PROOF
  <1>1. /\ Len(changes[o]) \in Nat /\ Len(corrections[o]) \in Nat
        /\ reminders[o].quittung \in BOOLEAN
        /\ orders[o].effective \in Optional(Versions)
    BY DEF TypeOK, PaymentInv, PaymentTypes, OrderRow, Reminder
  <1>2. LatestCashCorrection(o) \in 0..Len(cash[o]) /\ Len(cash[o]) \in Nat
    BY TheLastCorrection DEF PaymentInv, PaymentTypes
  <1> QED
    BY <1>1, <1>2 DEF Context

-----------------------------------------------------------------------------
(* The rows the office writes. *)

LEMMA BlankReminder == NoReminder \in Reminder /\ \A m \in Optional(Methods) :
                         Empty(m) \in Reminder /\ Empty(m).method = m /\ ~ Empty(m).paid
  BY DEF NoReminder, Reminder, Optional, Empty

\* save() writes one well-formed row, and takes no recorded fact from it.
LEMMA SavedRow ==
    ASSUME PaymentInv, NEW o \in Orders, NEW form \in Form, NEW remind \in BOOLEAN,
           NEW dun \in BOOLEAN, Saves(o, form, remind, dun)
    PROVE  \E r \in Reminder :
             /\ Active(o) /\ reminders' = [reminders EXCEPT ![o] = r]
             /\ Valid(r) /\ r.method = form.method /\ r.method # None
             /\ r.paid = form.paid /\ (reminders[o].paid => r.paid)
             /\ ~ LosesFact(reminders[o], r)
PROOF
  <1> DEFINE cur == reminders[o]
             row == Stamped(o, cur, form)
             new == Marked(row, remind, dun)
  <1>1. /\ Active(o) /\ Valid(new) /\ reminders' = [reminders EXCEPT ![o] = new]
        /\ cur.method # None => form.method = cur.method /\ ~ RewritesSilently(cur, form)
    BY DEF Saves
  <1>2. cur \in Reminder /\ today \in Days /\ (cur.method = None => cur = NoReminder)
    BY DEF PaymentInv, PaymentTypes, RowIsSound
  <1>3. /\ row \in Reminder
        /\ row.method = form.method /\ row.invoice = form.invoice /\ row.sent = form.sent
        /\ row.paid = form.paid /\ row.quittung = form.quittung
        /\ row.reminded = cur.reminded /\ row.dunned = cur.dunned
    <2> DEFINE inv == IF form.invoice /\ ~ cur.invoice THEN VersionsOf(o) ELSE cur.invoicedWith
               pay == IF form.paid /\ ~ cur.paid THEN VersionsOf(o) ELSE cur.paidWith
               prt == IF form.quittung /\ ~ cur.quittung THEN VersionsOf(o) ELSE cur.printedWith
    <2>1. VersionsOf(o) \in SUBSET Versions
      BY DEF VersionsOf
    <2>2. inv \in SUBSET Versions /\ pay \in SUBSET Versions /\ prt \in SUBSET Versions
      BY <1>2, <2>1 DEF Reminder
    <2>3. row = [method |-> form.method, invoice |-> form.invoice, sent |-> form.sent,
                 paid |-> form.paid, quittung |-> form.quittung,
                 reminded |-> cur.reminded, dunned |-> cur.dunned,
                 invoicedWith |-> inv, paidWith |-> pay, printedWith |-> prt]
      <3> DEFINE r1 == [cur EXCEPT !.method = form.method, !.invoice = form.invoice,
                                   !.sent = form.sent]
                 r2 == [r1 EXCEPT !.paid = form.paid, !.quittung = form.quittung]
                 r3 == [r2 EXCEPT !.invoicedWith = inv, !.paidWith = pay, !.printedWith = prt]
      <3>1. row = r3
        BY DEF Stamped
      <3> QED
        BY <1>2, <3>1 DEF Reminder
    <2> HIDE DEF row, inv, pay, prt
    <2> QED
      BY <1>2, <2>2, <2>3 DEF Reminder, Form, Optional
  <1>4. /\ new \in Reminder
        /\ new.method = form.method /\ new.invoice = form.invoice /\ new.sent = form.sent
        /\ new.paid = form.paid /\ new.quittung = form.quittung
        /\ cur.reminded # None => new.reminded = cur.reminded
        /\ cur.dunned # None => new.dunned = cur.dunned
    <2> HIDE DEF row
    <2> QED
      BY <1>2, <1>3 DEF Marked, Reminder, Optional
  <1>5. form.method # None
    BY PaymentNoneAssumption DEF Form
  <1> HIDE DEF new, row
  <1>6. ~ LosesFact(cur, new)
    <2>1. CASE cur.method = None
      BY <1>2, <2>1 DEF LosesFact, NoReminder
    <2>2. CASE cur.method # None
      BY <1>1, <1>4, <2>2 DEF LosesFact, RewritesSilently
    <2> QED
      BY <2>1, <2>2
  <1>7. cur.paid => new.paid
    BY <1>6 DEF LosesFact
  <1> QED
    BY <1>1, <1>4, <1>5, <1>6, <1>7

-----------------------------------------------------------------------------
(* The steps. *)

\* A step on the books of one order.
LEMMA OneOrderMoves ==
    ASSUME PaymentInv, NEW o \in Orders, PaymentTypes',
           \A p \in Orders : /\ Exists(p) => Exists(p)' \/ p = o
                             /\ p # o => /\ reminders'[p] = reminders[p]
                                         /\ changes'[p] = changes[p]
                                         /\ corrections'[p] = corrections[p]
                                         /\ cash'[p] = cash[p],
           RowIsSound(o)', BooksAgree(o)'
    PROVE  PaymentInv'
PROOF
  <1>1. ASSUME NEW p \in Orders, p # o  PROVE RowIsSound(p)' /\ BooksAgree(p)'
    BY <1>1 DEF PaymentInv, RowIsSound, BooksAgree
  <1> QED
    BY <1>1 DEF PaymentInv

\* Steps that leave the books alone: those on the order itself, and the days.
LEMMA BooksStay ==
    ASSUME TypeOK, PaymentInv, OrderStep \/ NextDay \/ UNCHANGED payVars
    PROVE  PaymentInv'
PROOF
  <1>1. /\ reminders' = reminders /\ changes' = changes
        /\ corrections' = corrections /\ cash' = cash
    BY DEF OrderStep, NextDay, PaymentUnchanged, payVars
  <1>2. today' \in Days
    BY DEF OrderStep, NextDay, payVars, PaymentInv, PaymentTypes
  <1>3. orders \in [Orders -> OrderRow]
    BY DEF TypeOK
  <1>4. \A p \in Orders : Exists(p) => Exists(p)'
    <2>1. CASE OrderStep
      <3>1. ASSUME NEW o \in Orders, NEW v \in Versions, NEW row, AppendVersion(o, v, row, v)
            PROVE  \A p \in Orders : Exists(p) => Exists(p)'
        BY <1>3, <3>1 DEF AppendVersion, Exists, OrderRow
      <3>2. ASSUME NEW o \in Orders,
                   \/ \E v \in Versions : MakeEffective(o, v) \/ AcknowledgePrint(o, v)
                   \/ CancelOrder(o) \/ PauseOrder(o) \/ ResumeOrder(o)
            PROVE  \A p \in Orders : Exists(p) => Exists(p)'
        <4>1. CASE \E v \in Versions : MakeEffective(o, v)
          <5> PICK v \in Versions : MakeEffective(o, v)
            BY <4>1
          <5> QED
            BY <1>3, EffectiveIsSet DEF Exists
        <4>2. CASE \E v \in Versions : AcknowledgePrint(o, v)
          <5> PICK v \in Versions : AcknowledgePrint(o, v)
            BY <4>2
          <5> DEFINE new == ActivatedByPrint(orders[o], v)
          <5>1. orders' = [orders EXCEPT ![o] = new]
            BY DEF AcknowledgePrint
          <5>2. new.state = orders[o].state
            BY <1>3 DEF ActivatedByPrint, OrderRow
          <5> HIDE DEF new
          <5> QED
            BY <1>3, <5>1, <5>2 DEF Exists
        <4>3. CASE CancelOrder(o) \/ PauseOrder(o) \/ ResumeOrder(o)
          BY <1>3, <4>3 DEF CancelOrder, PauseOrder, ResumeOrder, Exists, OrderRow
        <4> QED
          BY <3>2, <4>1, <4>2, <4>3
      <3> QED
        BY <2>1, <3>1, <3>2 DEF OrderStep, ChangeNext, ProposeChange, ProposeAddress
    <2>2. CASE NextDay \/ UNCHANGED payVars
      BY <2>2 DEF NextDay, payVars, Exists
    <2> QED
      BY <2>1, <2>2
  <1>5. ASSUME NEW p \in Orders  PROVE RowIsSound(p)' /\ BooksAgree(p)'
    BY <1>1, <1>4 DEF PaymentInv, RowIsSound, BooksAgree
  <1> QED
    BY <1>1, <1>2, <1>5 DEF PaymentInv, PaymentTypes

LEMMA SaveStep ==
    ASSUME PaymentInv, NEW o \in Orders, NEW form \in Form, NEW remind \in BOOLEAN,
           NEW dun \in BOOLEAN, SavePayment(o, form, remind, dun)
    PROVE  PaymentInv'
PROOF
  <1>1. PICK r \in Reminder :
             /\ Active(o) /\ reminders' = [reminders EXCEPT ![o] = r]
             /\ Valid(r) /\ r.method # None /\ (reminders[o].paid => r.paid)
    BY SavedRow DEF SavePayment
  <1>2. /\ UNCHANGED <<orders, changes, corrections, cash, today>>
        /\ Active(o)'
    BY <1>1 DEF SavePayment, Active
  <1>3. PaymentTypes
    BY DEF PaymentInv
  <1>4. PaymentTypes' /\ reminders'[o] = r /\ \A p \in Orders : p # o => reminders'[p] = reminders[p]
    BY <1>1, <1>2, <1>3 DEF PaymentTypes
  <1>5. RowIsSound(o)'
    BY <1>1, <1>2, <1>4 DEF RowIsSound, Exists, Active
  <1>6. BooksAgree(o)'
    <2>1. /\ BooksAgree(o) /\ cash[o] \in Seq(CashEvent) /\ Len(changes[o]) \in Nat
          /\ Len(corrections[o]) \in Nat /\ reminders[o].paid \in BOOLEAN /\ r.paid \in BOOLEAN
      BY <1>3 DEF PaymentInv, PaymentTypes, Reminder
    <2>2. LogIsSound(cash[o], Len(changes[o]), Len(corrections[o]), r.paid)
      <3>1. CASE r.paid
        BY <2>1, <3>1, TheRecordMoves DEF BooksAgree
      <3>2. CASE ~ r.paid
        BY <1>1, <2>1, <3>2 DEF BooksAgree
      <3> QED
        BY <3>1, <3>2
    <2> QED
      BY <1>2, <1>4, <2>2 DEF BooksAgree
  <1>7. \A p \in Orders : Exists(p) => Exists(p)'
    BY <1>2 DEF Exists
  <1> QED
    BY <1>2, <1>4, <1>5, <1>6, <1>7, OneOrderMoves

LEMMA MethodStep ==
    ASSUME PaymentInv, NEW o \in Orders, NEW m \in Methods, ChangeMethod(o, m)
    PROVE  PaymentInv'
PROOF
  <1>1. /\ Active(o) /\ ~ reminders[o].paid /\ m \in Optional(Methods)
        /\ changes' = [changes EXCEPT ![o] = Append(@, reminders[o])]
        /\ reminders' = [reminders EXCEPT ![o] = Empty(m)]
        /\ UNCHANGED <<orders, versions, pauses, corrections, cash, today>>
    BY DEF ChangeMethod, Optional
  <1>2. PaymentTypes
    BY DEF PaymentInv
  <1>3. /\ reminders'[o] = Empty(m) /\ changes'[o] = Append(changes[o], reminders[o])
        /\ \A p \in Orders : p # o => reminders'[p] = reminders[p] /\ changes'[p] = changes[p]
    BY <1>1, <1>2 DEF PaymentTypes
  <1>4. /\ Empty(m) \in Reminder /\ Empty(m).method = m /\ ~ Empty(m).paid
        /\ reminders[o] \in Reminder /\ changes[o] \in Seq(Reminder)
    BY <1>1, <1>2, BlankReminder DEF PaymentTypes
  <1>5. changes'[o] \in Seq(Reminder) /\ Len(changes'[o]) = Len(changes[o]) + 1
    BY <1>3, <1>4, AppendProperties
  <1>6. PaymentTypes'
    BY <1>1, <1>2, <1>3, <1>4, <1>5 DEF PaymentTypes
  <1>7. RowIsSound(o)'
    <2>1. Valid(Empty(m)) /\ m # None
      BY PaymentNoneAssumption DEF Valid, Empty, NoReminder, Methods
    <2> QED
      BY <1>1, <1>3, <1>4, <2>1 DEF RowIsSound, Exists, Active
  <1>8. BooksAgree(o)'
    <2>1. /\ BooksAgree(o) /\ cash[o] \in Seq(CashEvent) /\ Len(changes[o]) \in Nat
          /\ Len(corrections[o]) \in Nat /\ reminders[o].paid \in BOOLEAN
      BY <1>2 DEF PaymentInv, PaymentTypes, Reminder
    <2>2. LogIsSound(cash[o], Len(changes[o]) + 1, Len(corrections[o]), FALSE)
      BY <1>1, <2>1, TheRecordMoves DEF BooksAgree
    <2>3. Empty(m).paid = FALSE
      BY DEF Empty, NoReminder
    <2> QED
      BY <1>1, <1>3, <1>5, <2>2, <2>3 DEF BooksAgree
  <1>9. \A p \in Orders : Exists(p) => Exists(p)'
    BY <1>1 DEF Exists
  <1> QED
    BY <1>1, <1>3, <1>6, <1>7, <1>8, <1>9, OneOrderMoves

\* What a correction of the payment does to the row and its archive.
LEMMA Corrects ==
    ASSUME PaymentInv, NEW o \in Orders, CorrectsPayment(o)
    PROVE  /\ Exists(o) /\ reminders[o].paid
           /\ reminders' \in [Orders -> Reminder] /\ corrections' \in [Orders -> Seq(Reminder)]
           /\ corrections'[o] = Append(corrections[o], reminders[o])
           /\ Len(corrections'[o]) = Len(corrections[o]) + 1
           /\ reminders'[o].paid = FALSE /\ reminders'[o].method # None
           /\ Valid(reminders'[o])
           /\ \A p \in Orders : p # o => /\ reminders'[p] = reminders[p]
                                         /\ corrections'[p] = corrections[p]
PROOF
  <1> DEFINE r == [reminders[o] EXCEPT !.paid = FALSE, !.paidWith = {}]
  <1>1. PaymentTypes /\ RowIsSound(o)
    BY DEF PaymentInv
  <1>2. /\ Exists(o) /\ reminders[o].paid
        /\ corrections' = [corrections EXCEPT ![o] = Append(@, reminders[o])]
        /\ reminders' = [reminders EXCEPT ![o] = r]
    <2>1. reminders \in [Orders -> Reminder]
      BY <1>1 DEF PaymentTypes
    <2> QED
      BY <2>1 DEF CorrectsPayment
  <1>3. reminders[o] \in Reminder /\ corrections[o] \in Seq(Reminder)
    BY <1>1 DEF PaymentTypes
  <1>4. r \in Reminder /\ r.paid = FALSE /\ r.method = reminders[o].method
    BY <1>3 DEF Reminder
  <1>5. reminders[o].method # None
    BY <1>1, <1>2 DEF RowIsSound, NoReminder
  <1>6. Valid(r)
    BY <1>1, <1>3, <1>5 DEF RowIsSound, Valid, Reminder
  <1>7. /\ Append(corrections[o], reminders[o]) \in Seq(Reminder)
        /\ Len(Append(corrections[o], reminders[o])) = Len(corrections[o]) + 1
    BY <1>3, AppendProperties
  <1> HIDE DEF r
  <1> QED
    BY <1>1, <1>2, <1>4, <1>5, <1>6, <1>7 DEF PaymentTypes

LEMMA CorrectionStep ==
    ASSUME PaymentInv, NEW o \in Orders, CorrectPayment(o)
    PROVE  PaymentInv'
PROOF
  <1>1. CorrectsPayment(o) /\ UNCHANGED <<orders, changes, cash, today>>
    BY DEF CorrectPayment
  <1>2. PaymentTypes
    BY DEF PaymentInv
  <1>3. PaymentTypes'
    BY <1>1, <1>2, Corrects DEF PaymentTypes
  <1>4. RowIsSound(o)'
    BY <1>1, Corrects DEF RowIsSound, Exists
  <1>5. BooksAgree(o)'
    <2>1. /\ BooksAgree(o) /\ cash[o] \in Seq(CashEvent) /\ Len(changes[o]) \in Nat
          /\ Len(corrections[o]) \in Nat /\ reminders[o].paid \in BOOLEAN
      BY <1>2 DEF PaymentInv, PaymentTypes, Reminder
    <2>2. LogIsSound(cash[o], Len(changes[o]), Len(corrections[o]) + 1, FALSE)
      BY <2>1, TheRecordMoves DEF BooksAgree
    <2> QED
      BY <1>1, <2>2, Corrects DEF BooksAgree
  <1>6. \A p \in Orders : Exists(p) => Exists(p)'
    BY <1>1 DEF Exists
  <1> QED
    BY <1>1, <1>3, <1>4, <1>5, <1>6, Corrects, OneOrderMoves

\* An event that is journalled stands at the end of the log with the present context.
LEMMA Journalled ==
    ASSUME TypeOK, PaymentInv, NEW o \in Orders,
           NEW e \in {"received", "not_received", "handed", "confirmed", "direct", "correction"},
           NEW to \in {"custody", "awaiting", "final", "not_received", "review"},
           to = "review" <=> e = "correction",
           CashState(o) # "review", Journal(o, e, to),
           NEW q \in BOOLEAN,
           IF to = "final" THEN ~ reminders[o].paid /\ q ELSE q = reminders[o].paid
    PROVE  /\ cash' \in [Orders -> Seq(CashEvent)]
           /\ \A p \in Orders : p # o => cash'[p] = cash[p]
           /\ LogIsSound(cash'[o], Len(changes[o]), Len(corrections[o]), q)
PROOF
  <1> DEFINE new == [event |-> e, to |-> to, context |-> Context(o)]
  <1>1. /\ cash \in [Orders -> Seq(CashEvent)] /\ BooksAgree(o)
        /\ Len(changes[o]) \in Nat /\ Len(corrections[o]) \in Nat
        /\ reminders[o].paid \in BOOLEAN
    BY DEF PaymentInv, PaymentTypes, Reminder
  <1>2. /\ new \in CashEvent
        /\ new.event = e /\ new.to = to
        /\ new.context.changes = Len(changes[o]) /\ new.context.corrected = Len(corrections[o])
        /\ new.context.reviewed <= Len(cash[o])
    BY ContextIsTyped DEF CashEvent
  <1>3. cash' = [cash EXCEPT ![o] = Append(@, new)]
    BY DEF Journal
  <1> HIDE DEF new
  <1>4. cash'[o] = Append(cash[o], new) /\ Append(cash[o], new) \in Seq(CashEvent)
    BY <1>1, <1>2, <1>3, AppendProperties
  <1>5. \A k \in 1..Len(cash[o]) : cash[o][k].to # "review"
    BY <1>1, OpenLog
  <1>6. LogIsSound(Append(cash[o], new), Len(changes[o]), Len(corrections[o]), q)
    BY <1>1, <1>2, <1>5, TheLogGrows DEF BooksAgree
  <1> QED
    BY <1>1, <1>3, <1>4, <1>6

LEMMA HandoffStep ==
    ASSUME TypeOK, PaymentInv, NEW o \in Orders, NEW e, CashHandoff(o, e)
    PROVE  PaymentInv'
PROOF
  <1>1. PICK t \in Transitions :
         /\ t[1] = CashState(o) /\ t[2] = e
         /\ IF t[3] = "final"
            THEN /\ ~ reminders[o].paid
                 /\ Saves(o, [FormOf(reminders[o]) EXCEPT !.paid = TRUE], FALSE, FALSE)
            ELSE UNCHANGED reminders
         /\ Journal(o, e, t[3])
    BY DEF CashHandoff
  <1>2. /\ Projected(o) /\ Active(o) /\ reminders[o].method = "BAR"
        /\ UNCHANGED <<orders, versions, pauses, changes, corrections, today>>
    BY DEF CashHandoff, Projected
  <1>3. /\ CashState(o) # "review"
        /\ e \in {"received", "not_received", "handed", "confirmed", "direct"}
        /\ t[3] \in {"custody", "awaiting", "final", "not_received"}
    BY <1>1 DEF Transitions
  <1>4. PaymentTypes /\ RowIsSound(o) /\ reminders[o] \in Reminder
    BY DEF PaymentInv, PaymentTypes
  <1>5. \E r \in Reminder :
          /\ reminders' = [reminders EXCEPT ![o] = r] /\ Valid(r) /\ r.method # None
          /\ IF t[3] = "final" THEN ~ reminders[o].paid /\ r.paid ELSE r.paid = reminders[o].paid
    <2>1. CASE t[3] = "final"
      <3> DEFINE form == [FormOf(reminders[o]) EXCEPT !.paid = TRUE]
      <3>1. form \in Form /\ form.paid
        BY <1>2, <1>4 DEF FormOf, Form, Reminder, Methods
      <3>2. Saves(o, form, FALSE, FALSE) /\ ~ reminders[o].paid
        BY <1>1, <2>1
      <3> HIDE DEF form
      <3>3. PICK r \in Reminder :
              /\ reminders' = [reminders EXCEPT ![o] = r] /\ Valid(r)
              /\ r.method # None /\ r.paid = form.paid
        <4>1. ASSUME NEW f \in Form, NEW remind \in BOOLEAN, NEW dun \in BOOLEAN,
                     Saves(o, f, remind, dun)
              PROVE  \E r \in Reminder :
                       /\ reminders' = [reminders EXCEPT ![o] = r] /\ Valid(r)
                       /\ r.method # None /\ r.paid = f.paid
          BY <4>1, SavedRow
        <4>2. ASSUME NEW f \in Form, Saves(o, f, FALSE, FALSE)
              PROVE  \E r \in Reminder :
                       /\ reminders' = [reminders EXCEPT ![o] = r] /\ Valid(r)
                       /\ r.method # None /\ r.paid = f.paid
          BY <4>1, <4>2
        <4> QED
          BY <3>1, <3>2, <4>2
      <3> QED
        BY <2>1, <3>1, <3>2, <3>3
    <2>2. CASE t[3] # "final"
      <3>1. reminders' = [reminders EXCEPT ![o] = reminders[o]]
        BY <1>1, <1>4, <2>2 DEF PaymentTypes
      <3>2. reminders[o].method # None /\ Valid(reminders[o])
        BY <1>2, <1>4, PaymentNoneAssumption DEF RowIsSound, Methods
      <3> QED
        BY <1>4, <2>2, <3>1, <3>2
    <2> QED
      BY <2>1, <2>2
  <1>6. PICK r \in Reminder :
          /\ reminders' = [reminders EXCEPT ![o] = r] /\ Valid(r) /\ r.method # None
          /\ IF t[3] = "final" THEN ~ reminders[o].paid /\ r.paid ELSE r.paid = reminders[o].paid
    BY <1>5
  <1>7. /\ cash' \in [Orders -> Seq(CashEvent)]
        /\ \A p \in Orders : p # o => cash'[p] = cash[p]
        /\ LogIsSound(cash'[o], Len(changes[o]), Len(corrections[o]), r.paid)
    <2>1. r.paid \in BOOLEAN
      BY DEF Reminder
    <2> QED
      BY <1>1, <1>3, <1>6, <2>1, Journalled
  <1>8. reminders'[o] = r /\ \A p \in Orders : p # o => reminders'[p] = reminders[p]
    BY <1>4, <1>6 DEF PaymentTypes
  <1>9. PaymentTypes'
    BY <1>2, <1>4, <1>6, <1>7 DEF PaymentTypes
  <1>10. RowIsSound(o)' /\ BooksAgree(o)'
    BY <1>2, <1>6, <1>7, <1>8 DEF RowIsSound, BooksAgree, Exists, Active
  <1>11. \A p \in Orders : Exists(p) => Exists(p)'
    BY <1>2 DEF Exists
  <1> QED
    BY <1>2, <1>7, <1>8, <1>9, <1>10, <1>11, OneOrderMoves

LEMMA CashCorrectionStep ==
    ASSUME TypeOK, PaymentInv, NEW o \in Orders, NEW k, CashCorrection(o, k)
    PROVE  PaymentInv'
PROOF
  <1>1. /\ Projected(o) /\ CashState(o) \in Correctable
        /\ IF cash[o][k].to = "final" THEN CorrectsPayment(o)
                                      ELSE UNCHANGED <<reminders, corrections>>
        /\ Journal(o, "correction", "review")
        /\ UNCHANGED <<orders, changes, today>>
    BY DEF CashCorrection
  <1>2. PaymentTypes /\ RowIsSound(o) /\ reminders[o] \in Reminder
    BY DEF PaymentInv, PaymentTypes
  <1>3. reminders[o].paid \in BOOLEAN /\ CashState(o) # "review"
    BY <1>1, <1>2 DEF Reminder, Correctable
  <1>4. /\ cash' \in [Orders -> Seq(CashEvent)]
        /\ \A p \in Orders : p # o => cash'[p] = cash[p]
        /\ LogIsSound(cash'[o], Len(changes[o]), Len(corrections[o]), reminders[o].paid)
    BY <1>1, <1>3, Journalled
  <1>5. \A p \in Orders : Exists(p) => Exists(p)'
    BY <1>1 DEF Exists
  <1>6. CASE cash[o][k].to = "final"
    <2>1. CorrectsPayment(o)
      BY <1>1, <1>6
    <2>2. PaymentTypes'
      BY <1>1, <1>2, <1>4, <2>1, Corrects DEF PaymentTypes
    <2>3. RowIsSound(o)'
      BY <1>1, <2>1, Corrects DEF RowIsSound, Exists
    <2>4. /\ cash'[o] \in Seq(CashEvent) /\ Len(changes[o]) \in Nat /\ Len(corrections[o]) \in Nat
      BY <1>2, <1>4 DEF PaymentTypes
    <2>5. LogIsSound(cash'[o], Len(changes[o]), Len(corrections[o]) + 1, FALSE)
      BY <1>3, <1>4, <2>4, TheRecordMoves
    <2>6. BooksAgree(o)'
      BY <1>1, <2>1, <2>5, Corrects DEF BooksAgree
    <2> QED
      BY <1>1, <1>4, <1>5, <2>1, <2>2, <2>3, <2>6, Corrects, OneOrderMoves
  <1>7. CASE cash[o][k].to # "final"
    <2>1. reminders' = reminders /\ corrections' = corrections
      BY <1>1, <1>7
    <2>2. PaymentTypes'
      BY <1>1, <1>2, <1>4, <2>1 DEF PaymentTypes
    <2>3. RowIsSound(o)' /\ BooksAgree(o)'
      BY <1>1, <1>2, <1>4, <2>1 DEF RowIsSound, BooksAgree, Exists, Projected, Active
    <2> QED
      BY <1>1, <1>4, <1>5, <2>1, <2>2, <2>3, OneOrderMoves
  <1> QED
    BY <1>6, <1>7

LEMMA CreationStep ==
    ASSUME TypeOK, PaymentInv, NEW o \in Orders, NEW v \in Versions, NEW i \in Inquiries,
           NEW row \in InitialContents, NEW m \in Optional(Methods),
           CreatePayable(o, v, i, row, m)
    PROVE  PaymentInv'
PROOF
  <1>1. /\ CreateOrder(o, v, i, row) /\ reminders' = [reminders EXCEPT ![o] = Empty(m)]
        /\ UNCHANGED <<changes, corrections, cash, today>>
    BY DEF CreatePayable
  <1>2. /\ orders[o].state = "unborn" /\ orders'[o].state = "active"
        /\ \A p \in Orders : p # o => orders'[p] = orders[p]
    BY <1>1 DEF CreateOrder, TypeOK, NoOrder
  <1>3. PaymentTypes /\ RowIsSound(o)
    BY DEF PaymentInv
  <1>4. Empty(m) \in Reminder /\ Empty(m).method = m /\ Empty(m).paid = FALSE
    BY BlankReminder DEF Empty, NoReminder
  <1>5. /\ PaymentTypes' /\ reminders'[o] = Empty(m)
        /\ \A p \in Orders : p # o => reminders'[p] = reminders[p]
    BY <1>1, <1>3, <1>4 DEF PaymentTypes
  <1>6. RowIsSound(o)'
    <2>1. m # None => Valid(Empty(m))
      BY DEF Valid, Empty, NoReminder, Optional, Methods
    <2>2. ASSUME m = None  PROVE Empty(m) = NoReminder
      <3>1. [NoReminder EXCEPT !.method = NoReminder.method] = NoReminder
        BY DEF NoReminder
      <3> QED
        BY <2>2, <3>1 DEF Empty, NoReminder
    <2> QED
      BY <1>2, <1>4, <1>5, <2>1, <2>2 DEF RowIsSound, Exists
  <1>7. BooksAgree(o)'
    <2>1. cash'[o] = <<>> /\ Len(corrections[o]) \in Nat
      BY <1>1, <1>2, <1>3 DEF RowIsSound, Exists, PaymentTypes
    <2> QED
      BY <1>1, <1>4, <1>5, <2>1, EmptyLogIsSound DEF BooksAgree
  <1>8. \A p \in Orders : Exists(p) => Exists(p)'
    BY <1>2 DEF Exists
  <1> QED
    BY <1>1, <1>5, <1>6, <1>7, <1>8, OneOrderMoves

LEMMA DeletionStep ==
    ASSUME TypeOK, PaymentInv, NEW o \in Orders, PurgePayable(o)
    PROVE  PaymentInv'
PROOF
  <1>1. /\ PurgeOrder(o)
        /\ reminders' = [reminders EXCEPT ![o] = NoReminder]
        /\ changes' = [changes EXCEPT ![o] = <<>>]
        /\ corrections' = [corrections EXCEPT ![o] = <<>>]
        /\ cash' = [cash EXCEPT ![o] = <<>>] /\ today' = today
    BY DEF PurgePayable
  <1>2. \A p \in Orders : p # o => orders'[p] = orders[p]
    BY <1>1 DEF PurgeOrder, TypeOK
  <1>3. PaymentTypes
    BY DEF PaymentInv
  <1>4. <<>> \in Seq(Reminder) /\ <<>> \in Seq(CashEvent)
    OBVIOUS
  <1>5. /\ PaymentTypes'
        /\ reminders'[o] = NoReminder /\ changes'[o] = <<>> /\ corrections'[o] = <<>>
        /\ cash'[o] = <<>>
        /\ \A p \in Orders : p # o => /\ reminders'[p] = reminders[p]
                                      /\ changes'[p] = changes[p]
                                      /\ corrections'[p] = corrections[p]
                                      /\ cash'[p] = cash[p]
    BY <1>1, <1>3, <1>4, BlankReminder DEF PaymentTypes
  <1>6. RowIsSound(o)' /\ BooksAgree(o)'
    <2>1. NoReminder.method = None /\ NoReminder.paid = FALSE
      BY DEF NoReminder
    <2>2. LogIsSound(<<>>, 0, 0, FALSE)
      BY EmptyLogIsSound
    <2>3. RowIsSound(o)'
      BY <1>5, <2>1 DEF RowIsSound
    <2>4. Len(changes'[o]) = 0 /\ Len(corrections'[o]) = 0
      BY <1>5
    <2> QED
      BY <1>5, <2>1, <2>2, <2>3, <2>4 DEF BooksAgree
  <1>7. \A p \in Orders : Exists(p) => Exists(p)' \/ p = o
    BY <1>2 DEF Exists
  <1> QED
    BY <1>5, <1>6, <1>7, OneOrderMoves

LEMMA PaymentInvariant == PaymentSpec => []PaymentInv
PROOF
  <1>1. PaymentInit => PaymentInv
    <2> SUFFICES ASSUME PaymentInit  PROVE PaymentInv
      OBVIOUS
    <2>1. PaymentTypes
      BY BlankReminder DEF PaymentInit, PaymentTypes
    <2>2. ASSUME NEW o \in Orders  PROVE RowIsSound(o) /\ BooksAgree(o)
      <3>1. /\ reminders[o] = NoReminder /\ cash[o] = <<>>
            /\ changes[o] = <<>> /\ corrections[o] = <<>>
        BY DEF PaymentInit
      <3>2. NoReminder.method = None /\ NoReminder.paid = FALSE
        BY DEF NoReminder
      <3>3. LogIsSound(<<>>, 0, 0, FALSE) /\ Len(changes[o]) = 0 /\ Len(corrections[o]) = 0
        BY <3>1, EmptyLogIsSound
      <3> QED
        BY <3>1, <3>2, <3>3 DEF RowIsSound, BooksAgree
    <2> QED
      BY <2>1, <2>2 DEF PaymentInv
  <1>2. TypeOK /\ PaymentInv /\ [PaymentNext]_payVars => PaymentInv'
    <2> SUFFICES ASSUME TypeOK, PaymentInv, [PaymentNext]_payVars  PROVE PaymentInv'
      OBVIOUS
    <2>1. CASE OfficePayments
      BY <2>1, SaveStep, MethodStep, CorrectionStep DEF OfficePayments
    <2>2. CASE CourierCash
      BY <2>2, HandoffStep, CashCorrectionStep DEF CourierCash
    <2>3. CASE OrderLife
      BY <2>3, CreationStep, BooksStay, DeletionStep DEF OrderLife
    <2>4. CASE NextDay \/ UNCHANGED payVars
      BY <2>4, BooksStay
    <2> QED
      BY <2>1, <2>2, <2>3, <2>4 DEF PaymentNext
  <1>3. PaymentSpec => []TypeOK
    BY PaymentsKeepTheOrder, OfficeUsesTheServices, TypeCorrectness, PTL
  <1> QED
    BY <1>1, <1>2, <1>3, PTL DEF PaymentSpec

-----------------------------------------------------------------------------
(* What the runs check. *)

LEMMA PaymentTypesAreOK == ASSUME PaymentInv  PROVE PaymentTypeOK
PROOF
  <1>1. PaymentTypes /\ \A o \in Orders : RowIsSound(o)
    BY DEF PaymentInv
  <1> QED
    BY <1>1 DEF PaymentTypes, PaymentTypeOK, RowIsSound

\* A final state of the present context stands on a final event in it, and that one
\* has its payment.
LEMMA BooksImplyAgreement ==
    ASSUME TypeOK, PaymentInv  PROVE CashAndPaymentAgree
PROOF
  <1> SUFFICES ASSUME NEW o \in Orders
               PROVE  /\ Projected(o) /\ CashState(o) = "final" => reminders[o].paid
                      /\ Cardinality({k \in 1..Len(cash[o]) : cash[o][k].to = "final"})
                           <= Len(corrections[o]) + 1
    BY DEF CashAndPaymentAgree
  <1>1. /\ BooksAgree(o) /\ cash[o] \in Seq(CashEvent)
        /\ Len(corrections[o]) \in Nat /\ reminders[o].paid \in BOOLEAN
    BY DEF PaymentInv, PaymentTypes, Reminder
  <1>2. ASSUME CashState(o) = "final"  PROVE reminders[o].paid
    <2>1. PICK k \in 1..Len(cash[o]) :
             cash[o][k].context = Context(o) /\ cash[o][k].to = "final"
      BY <1>1, <1>2, StateOfContext
    <2>2. /\ cash[o][k].context.changes = Len(changes[o])
          /\ cash[o][k].context.corrected = Len(corrections[o])
      BY <2>1, ContextIsTyped
    <2> QED
      BY <1>1, <2>1, <2>2 DEF BooksAgree, LogIsSound
  <1>3. Cardinality(FinalsOf(cash[o])) <= Len(corrections[o]) + 1
    <2>1. IsFiniteSet(1..Len(cash[o]))
      BY FS_Interval
    <2>2. Cardinality(FinalsOf(cash[o])) \in Nat
      BY <2>1, FS_Subset, FS_CardinalityType DEF FinalsOf
    <2>3. Cardinality(FinalsOf(cash[o]))
            <= Len(corrections[o]) + (IF reminders[o].paid THEN 1 ELSE 0)
      BY <1>1 DEF BooksAgree, LogIsSound
    <2>4. CASE reminders[o].paid
      BY <1>1, <2>2, <2>3, <2>4
    <2>5. CASE ~ reminders[o].paid
      BY <1>1, <2>2, <2>3, <2>5
    <2> QED
      BY <2>4, <2>5
  <1> QED
    BY <1>2, <1>3 DEF FinalsOf

\* CashBooksAgree holds for any number of orders, corrections and cash events: the
\* office's record and the courier's log never contradict each other about a payment.
THEOREM CourierAndOfficeAgree == PaymentSpec => []CashBooksAgree
PROOF
  <1>1. TypeOK /\ PaymentInv => CashBooksAgree
    <2> SUFFICES ASSUME TypeOK, PaymentInv  PROVE CashBooksAgree
      OBVIOUS
    <2>1. ReviewIsTheLastCashEvent
      BY DEF PaymentInv, BooksAgree, LogIsSound, ReviewIsTheLastCashEvent
    <2> QED
      BY <2>1, PaymentTypesAreOK, BooksImplyAgreement DEF CashBooksAgree
  <1>2. PaymentSpec => []TypeOK
    BY PaymentsKeepTheOrder, OfficeUsesTheServices, TypeCorrectness, PTL
  <1> QED
    BY <1>1, <1>2, PaymentInvariant, PTL

\* DemandsAreDue holds whatever dates the office types in: view() never names a step
\* that save() refuses, and never asks for money that is not owed.
THEOREM DemandsStandOnDebts == PaymentSpec => []DemandsAreDue
PROOF
  <1>1. PaymentInv => DemandsAreDue
    <2> SUFFICES ASSUME PaymentInv, NEW o \in Orders
                 PROVE  /\ NextStep(o) = "remind" => MayRemind(o, reminders[o])
                        /\ NextStep(o) = "dun"    => MayDun(reminders[o])
                        /\ NextStep(o) \in {"remind", "dun", "clarify cash", "decide"} =>
                             /\ Active(o)
                             /\ ~ reminders[o].paid
                             /\ reminders[o].method # "BAR" =>
                                  ~ RevisedSince(o, reminders[o].invoicedWith)
      BY DEF DemandsAreDue, OfferedReminderIsAccepted, NoDemandWithoutDebt
    <2> DEFINE r == reminders[o]
    <2>1. r \in Reminder
      BY DEF PaymentInv, PaymentTypes
    <2>2. r.method \in {"VORKASSE", "RECHNUNG", "BAR", None}
      BY <2>1 DEF Reminder, Optional, Methods
    <2>3. CASE NextStep(o) \notin {"remind", "dun", "clarify cash", "decide"}
      BY <2>3
    <2>4. CASE NextStep(o) \in {"remind", "dun", "clarify cash", "decide"}
      <3>1. /\ Active(o) /\ NextStep(o) = DerivedStep(o)
            /\ ~ (r.invoice /\ RevisedSince(o, r.invoicedWith))
        BY <2>4 DEF NextStep
      <3>2. CASE r.method = "BAR"
        BY <2>4, <3>1, <3>2, PaymentNoneAssumption DEF DerivedStep, CashStep, Methods
      <3>3. CASE r.method = "VORKASSE"
        BY <2>4, <3>1, <3>3, PaymentNoneAssumption
           DEF DerivedStep, PrepaymentStep, MayRemind, ReminderDue, Methods
      <3>4. CASE r.method = "RECHNUNG"
        BY <2>4, <3>1, <3>4, PaymentNoneAssumption
           DEF DerivedStep, InvoiceStep, MayRemind, MayDun, ReminderDue, Methods
      <3>5. CASE r.method = None
        BY <2>4, <3>1, <3>5 DEF DerivedStep
      <3> QED
        BY <2>2, <3>2, <3>3, <3>4, <3>5
    <2> QED
      BY <2>3, <2>4
  <1> QED
    BY <1>1, PaymentInvariant, PTL

LEMMA RowThatStays == ASSUME PaymentInv, NEW o \in Orders, reminders'[o] = reminders[o]
                      PROVE  ~ LosesFact(reminders[o], reminders'[o])
  BY DEF LosesFact

\* NothingVanishes, of every step of every length of history: what the office or the
\* courier takes from the row is in one of the two audit logs.
THEOREM FactsLeaveATrace == PaymentSpec => NothingVanishes
PROOF
  <1> DEFINE Traced ==
        \A o \in Orders :
          Exists(o)' /\ LosesFact(reminders[o], reminders'[o]) =>
            \/ changes'[o] = Append(changes[o], reminders[o])
            \/ corrections'[o] = Append(corrections[o], reminders[o])
  <1>1. TypeOK /\ PaymentInv /\ [PaymentNext]_payVars => [Traced]_payVars
    <2> SUFFICES ASSUME TypeOK, PaymentInv, PaymentNext, NEW o \in Orders,
                        Exists(o)', LosesFact(reminders[o], reminders'[o])
                 PROVE  \/ changes'[o] = Append(changes[o], reminders[o])
                        \/ corrections'[o] = Append(corrections[o], reminders[o])
      OBVIOUS
    <2>1. /\ reminders \in [Orders -> Reminder] /\ changes \in [Orders -> Seq(Reminder)]
          /\ reminders'[o] # reminders[o]
      BY RowThatStays DEF PaymentInv, PaymentTypes
    <2>2. ASSUME NEW p \in Orders, NEW form \in Form, NEW remind \in BOOLEAN,
                 NEW dun \in BOOLEAN, Saves(p, form, remind, dun)
          PROVE  FALSE
      <3>1. PICK r \in Reminder : /\ reminders' = [reminders EXCEPT ![p] = r]
                                  /\ ~ LosesFact(reminders[p], r)
        BY <2>2, SavedRow
      <3>2. p = o /\ reminders'[o] = r
        BY <2>1, <3>1
      <3> QED
        BY <3>1, <3>2
    <2>3. ASSUME NEW p \in Orders, CorrectsPayment(p)
          PROVE  corrections'[o] = Append(corrections[o], reminders[o])
      BY <2>1, <2>3, Corrects
    <2>4. CASE OfficePayments
      <3>1. ASSUME NEW p \in Orders, NEW m \in Methods, ChangeMethod(p, m)
            PROVE  changes'[o] = Append(changes[o], reminders[o])
        BY <2>1, <3>1 DEF ChangeMethod
      <3> QED
        BY <2>2, <2>3, <2>4, <3>1 DEF OfficePayments, SavePayment, CorrectPayment
    <2>5. CASE CourierCash
      <3>1. ASSUME NEW p \in Orders, NEW e, CashHandoff(p, e)  PROVE FALSE
        <4> DEFINE form == [FormOf(reminders[p]) EXCEPT !.paid = TRUE]
        <4>1. Projected(p) /\ Saves(p, form, FALSE, FALSE)
          BY <2>1, <3>1 DEF CashHandoff
        <4>2. form \in Form
          BY <2>1, <4>1 DEF FormOf, Form, Reminder, Methods, Projected
        <4> HIDE DEF form
        <4>3. ASSUME NEW f \in Form, Saves(p, f, FALSE, FALSE)  PROVE FALSE
          <5>1. ASSUME NEW remind \in BOOLEAN, NEW dun \in BOOLEAN,
                       Saves(p, f, remind, dun)
                PROVE  FALSE
            BY <2>2, <5>1
          <5> QED
            BY <4>3, <5>1
        <4> QED
          BY <4>1, <4>2, <4>3
      <3>2. ASSUME NEW p \in Orders, NEW k, CashCorrection(p, k)
            PROVE  corrections'[o] = Append(corrections[o], reminders[o])
        BY <2>1, <2>3, <3>2 DEF CashCorrection
      <3> QED
        BY <2>5, <3>1, <3>2 DEF CourierCash
    <2>6. CASE OrderLife
      <3>1. ASSUME NEW p \in Orders, NEW v \in Versions, NEW i \in Inquiries,
                   NEW row \in InitialContents, NEW m \in Optional(Methods),
                   CreatePayable(p, v, i, row, m)
            PROVE  FALSE
        <4>1. p = o /\ orders[o].state = "unborn"
          BY <2>1, <3>1 DEF CreatePayable, CreateOrder, NoOrder
        <4>2. reminders[o] = NoReminder
          BY <4>1 DEF PaymentInv, RowIsSound, Exists
        <4> QED
          BY <4>2 DEF LosesFact, NoReminder
      <3>2. ~ OrderStep
        BY <2>1 DEF OrderStep, PaymentUnchanged
      <3>3. ASSUME NEW p \in Orders, PurgePayable(p)  PROVE FALSE
        <4>1. p = o
          BY <2>1, <3>3 DEF PurgePayable
        <4>2. ~ Exists(o)'
          BY <3>3, <4>1 DEF PurgePayable, PurgeOrder, Exists, TypeOK, NoOrder
        <4> QED
          BY <4>2
      <3> QED
        BY <2>6, <3>1, <3>2, <3>3 DEF OrderLife
    <2>7. ~ NextDay
      BY <2>1 DEF NextDay, PaymentUnchanged
    <2> QED
      BY <2>4, <2>5, <2>6, <2>7 DEF PaymentNext
  <1>2. PaymentSpec => []TypeOK
    BY PaymentsKeepTheOrder, OfficeUsesTheServices, TypeCorrectness, PTL
  <1>3. PaymentSpec => [][Traced]_payVars
    BY <1>1, <1>2, PaymentInvariant, PTL DEF PaymentSpec
  <1> QED
    BY <1>3 DEF NothingVanishes

=============================================================================
