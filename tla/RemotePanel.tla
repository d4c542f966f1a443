------------------------------ MODULE RemotePanel ------------------------------
(****************************************************************************)
(* The office panel as a client of the Core: it renders pages with hidden    *)
(* fields, sends what is typed into them as commands, and learns the answer  *)
(* or nothing at all.                                                        *)
(*                                                                          *)
(* A page is rendered once and may be sent any number of times, today or     *)
(* tomorrow: the office clicks twice, or tries again because the connection  *)
(* broke.  Before it posts, the client reads the Core; what other pages and  *)
(* the kitchen do meanwhile are the steps of Offer.  The command carries the *)
(* id minted for the page and what the page saw (its _expect_ fields), and   *)
(* the Core looks the id up in its ledger before it looks at anything else.  *)
(* The panel serves one request at a time, so there is one flight.           *)
(*                                                                          *)
(* updated_at is abstracted to whether the row was written since the page    *)
(* was rendered.  Payments, chat, catalog and accounts have forms of the     *)
(* same kind and are left to the modules that model them.                    *)
(****************************************************************************)
EXTENDS OfficeDesk

CONSTANTS
    Pages       \* rendered pages, each with the command id minted for it

\* What the panel tells the office about a form it has sent.
Says == {"gone", "not_paused", "refused", "existing", "stale", "done", "replayed",
         "conflict"}

ASSUME AnswersAssumption == None \notin Says

VARIABLES
    pages,      \* per page: what was rendered, None before
    disturbed,  \* per page: what has happened to the Core since
    flight,     \* the command on its way to the Core, None without
    ledger,     \* office_api_commands: the command recorded under a page's id
    answer      \* what the panel has just shown for a page, None otherwise

panelVars == <<offerVars, pages, disturbed, flight, ledger, answer>>

OrderForms   == {"version", "address", "effective", "cancel", "pause", "resume",
                 "delete"}
InquiryForms == {"update", "contact", "delivery", "verify", "convert"}
OfferForms   == {"mark-sent", "acceptance", "rejection", "withdrawal", "conversion"}
Forms        == OrderForms \cup InquiryForms \cup OfferForms

\* A page is one form of its order or inquiry, each rendered with an id of its
\* own; the forms of an offer's page share the id of the page.
PageKinds == OrderForms \cup InquiryForms \cup {"offer"}

\* The forms that carry the updated_at of the row they were rendered from.
Stamped == {"cancel", "update", "contact", "delivery"}

\* What the office types into a form.
Choices(form) ==
    CASE form = "version"  -> Facts
      [] form = "address"  -> Addresses
      [] form = "update"   -> OfficeStages
      [] form = "delivery" -> BOOLEAN
      [] form \in {"convert", "conversion"} -> Methods
      [] OTHER -> {None}

-----------------------------------------------------------------------------
(* What a page shows. *)

PointersOf(o) == [latest |-> LatestNumber(o), effective |-> orders[o].effective,
                  candidate |-> orders[o].candidate]

PausesOf(o) == [active |-> ActivePause(o), latest |-> Len(pauses[o])]

\* The _expect_ fields of a form, and what the Core compares them with.
Precondition(form, s) ==
    IF form \in {"version", "address"} THEN PointersOf(s)
    ELSE IF form = "effective" THEN [PointersOf(s) EXCEPT !.latest = 0]
    ELSE IF form \in {"pause", "resume"} THEN PausesOf(s)
    ELSE None

\* The version a form names: the parent of a new address, the version to make
\* effective, the version an offer's page stands for.
NamedVersion(kind, s) ==
    IF kind = "address" THEN TargetVersion(s)
    ELSE IF kind = "effective" THEN orders[s].candidate
    ELSE IF kind = "offer"
    THEN IF offers[s].accepted # 0 THEN offers[s].accepted ELSE Latest(s)
    ELSE None

\* render_order: the forms of an order that is not cancelled.
RendersOrderForm(kind, o) ==
    /\ kind \in OrderForms
    /\ IF kind = "delete" THEN Exists(o) ELSE Active(o)
    /\ kind \in {"address", "delete"} => versions[TargetVersion(o)].address # None
    /\ kind = "effective" =>
         /\ orders[o].candidate # None
         /\ versions[orders[o].candidate].confirmed
    /\ kind = "pause"  => ActivePause(o) = 0
    /\ kind = "resume" => ActivePause(o) # 0

\* render_inquiry
RendersInquiryForm(kind, i) ==
    /\ kind \in InquiryForms
    /\ kind = "contact" => ~ inquiries[i].complete
    /\ kind = "verify"  => NextAction(i) = "verify"
    /\ kind = "convert" =>
         NextAction(i) = "convert-accepted" /\ Projection(OfferOf(i)) = "Accepted"

\* _next_step and _secondary_sent_actions: the forms of an offer's page.
FormsOfOffer(state) ==
    IF state = "Prepared" THEN {"mark-sent"}
    ELSE IF state = "Sent" THEN {"acceptance", "rejection", "withdrawal"}
    ELSE IF state = "Accepted" THEN {"conversion"}
    ELSE {}

Renders(kind, s) ==
    \/ s \in Orders    /\ RendersOrderForm(kind, s)
    \/ s \in Inquiries /\ RendersInquiryForm(kind, s)
    \/ s \in Offers    /\ kind = "offer" /\ Prepared(s) /\ FormsOfOffer(Projection(s)) # {}

\* What the office had before its eyes, and decides on, when it sends a form of
\* the kind: rows and logs, of which the form carries a stamp or a few ids.
ShownOf(kind, s) ==
    IF kind = "offer" THEN Projection(s)
    ELSE IF kind \in {"pause", "resume"} THEN pauses[s]
    ELSE IF kind \in {"version", "address"}
    THEN [row |-> orders[s], versions |-> VersionsOf(s)]
    ELSE IF kind \in {"effective", "cancel"} THEN orders[s]
    ELSE IF kind \in {"update", "contact", "delivery"} THEN inquiries[s]
    ELSE None

PageOf(kind, s) ==
    [kind |-> kind, subject |-> s, expect |-> Precondition(kind, s),
     version |-> NamedVersion(kind, s), shown |-> ShownOf(kind, s)]

FormsOf(page) ==
    IF page.kind = "offer" THEN FormsOfOffer(page.shown) ELSE {page.kind}

-----------------------------------------------------------------------------
PanelInit ==
    /\ OfferInit
    /\ pages     = [p \in Pages |-> None]
    /\ disturbed = [p \in Pages |-> "no"]
    /\ flight    = None
    /\ ledger    = [p \in Pages |-> None]
    /\ answer    = None

CoreUnchanged == UNCHANGED offerVars

\* begin_request and _command_fields
OpenPage(p, kind, s) ==
    /\ pages[p] = None
    /\ Renders(kind, s)
    /\ pages' = [pages EXCEPT ![p] = PageOf(kind, s)]
    /\ answer' = None
    /\ UNCHANGED <<disturbed, flight, ledger>> /\ CoreUnchanged

\* What the client reads before it posts, and what it then tells the office
\* without posting anything; None when it posts.
ReadByOrderForm(form, o) ==
    IF ~ Exists(o) THEN "gone"
    ELSE IF form = "resume" /\ ActivePause(o) = 0 THEN "not_paused"
    ELSE None

\* convert_accepted_offer_for_inquiry: the order the offer already has, or no.
ReadByConvert(i) ==
    IF NextAction(i) = "convert-accepted" THEN None
    ELSE IF \E f \in OffersOf(i) : links[f] # None THEN "existing" ELSE "refused"

\* The offer is read again when the form is sent: its state now, and the
\* version that stands for it now.
ReadByOfferForm(form, f) ==
    IF form \in FormsOfOffer(Projection(f)) THEN None ELSE "refused"

Read(form, s) ==
    IF form \in OrderForms THEN ReadByOrderForm(form, s)
    ELSE IF form = "convert" THEN ReadByConvert(s)
    ELSE IF form \in OfferForms THEN ReadByOfferForm(form, s)
    ELSE None

NewEnvelope(form, subject, choice) ==
    [form |-> form, subject |-> subject, choice |-> choice,
     expect |-> None, version |-> None, variant |-> None]

\* _RemoteOrderService and _RemoteOperationalCoreService send the values of the
\* page, not those just read.
OrderEnvelope(page, choice) ==
    [NewEnvelope(page.kind, page.subject, choice) EXCEPT !.expect = page.expect,
                                                         !.version = page.version]

\* _RemoteInquiryService
InquiryEnvelope(page, choice) == NewEnvelope(page.kind, page.subject, choice)

\* A form of an offer names the version just read; acceptance and conversion
\* also name a variant (and an acceptance) of the version the page showed.
OfferEnvelope(page, form, choice) ==
    [NewEnvelope(form, page.subject, choice) EXCEPT
        !.version = NamedVersion("offer", page.subject),
        !.variant = IF form \in {"acceptance", "conversion"}
                    THEN page.version ELSE None]

\* The conversion from an inquiry's page takes all it names from what was read.
ConvertEnvelope(page, choice) ==
    LET f == OfferOf(page.subject)
    IN  [NewEnvelope("conversion", f, choice) EXCEPT
            !.version = offers[f].accepted, !.variant = offers[f].accepted]

Envelope(page, form, choice) ==
    IF form = "convert" THEN ConvertEnvelope(page, choice)
    ELSE IF form \in OrderForms THEN OrderEnvelope(page, choice)
    ELSE IF form \in InquiryForms THEN InquiryEnvelope(page, choice)
    ELSE OfferEnvelope(page, form, choice)

Answer(p, a) == answer' = [page |-> p, says |-> a]

\* A form of a page is sent: what the client reads refuses it at once, or its
\* command is on the way.
SubmitForm(p, form, choice) ==
    /\ pages[p] # None
    /\ flight = None
    /\ form \in FormsOf(pages[p])
    /\ LET said == Read(form, pages[p].subject)
       IN  \/ /\ said # None
              /\ Answer(p, said)
              /\ UNCHANGED flight
           \/ /\ said = None
              /\ flight' = [page |-> p, envelope |-> Envelope(pages[p], form, choice)]
              /\ answer' = None
    /\ UNCHANGED <<pages, disturbed, ledger>> /\ CoreUnchanged

-----------------------------------------------------------------------------
(* The Core. *)

OutsideUnchanged == UNCHANGED <<inquiries, offers, links, methods, today>>

CmdCreateVersion(e) ==
    /\ \/ /\ e.form = "version"
          /\ \E v \in Versions : ProposeChange(e.subject, v, e.choice)
       \/ /\ e.form = "address"
          /\ \E v \in Versions : ProposeAddress(e.subject, v, e.version, e.choice)
    /\ OutsideUnchanged

CmdEffective(e) ==
    e.form = "effective" /\ MakeEffective(e.subject, e.version) /\ OutsideUnchanged

CmdCancel(e) == e.form = "cancel" /\ CancelOrder(e.subject) /\ OutsideUnchanged
CmdPause(e)  == e.form = "pause"  /\ PauseOrder(e.subject)  /\ OutsideUnchanged
CmdResume(e) == e.form = "resume" /\ ResumeOrder(e.subject) /\ OutsideUnchanged
CmdDelete(e) == e.form = "delete" /\ PurgeConverted(e.subject)

CmdInquiry(e) ==
    \/ e.form = "update"   /\ UpdateInquiry(e.subject, e.choice)
    \/ e.form = "contact"  /\ ~ inquiries[e.subject].complete /\ CompleteContact(e.subject)
    \/ e.form = "delivery" /\ SetDelivery(e.subject, e.choice)
    \/ e.form = "verify"   /\ VerifyInquiry(e.subject)

CmdMarkSent(e)   == e.form = "mark-sent"  /\ RecordSent(e.subject, e.version, today)
CmdRejection(e)  == e.form = "rejection"  /\ RecordRejection(e.subject, e.version)
CmdWithdrawal(e) == e.form = "withdrawal" /\ RecordWithdrawal(e.subject, e.version)

\* invalid_variant: the variant must be one of the version named.
CmdAcceptance(e) ==
    /\ e.form = "acceptance"
    /\ e.variant = e.version
    /\ RecordAcceptance(e.subject, e.version, today)

\* The acceptance named must be that of the version named.
CmdConversion(e) ==
    /\ e.form = "conversion"
    /\ e.variant = e.version
    /\ \/ \E o \in Orders, v \in Versions, a \in Optional(Addresses) :
            ConvertAccepted(e.subject, o, v, a, e.choice)
       \/ ReplayConversion(e.subject, e.choice)

Perform(e) ==
    \/ CmdCreateVersion(e) \/ CmdEffective(e) \/ CmdCancel(e) \/ CmdPause(e)
    \/ CmdResume(e) \/ CmdDelete(e) \/ CmdInquiry(e)
    \/ CmdMarkSent(e) \/ CmdAcceptance(e) \/ CmdRejection(e) \/ CmdWithdrawal(e)
    \/ CmdConversion(e)

\* The bounds leave room for what the command would add.
Room(e) ==
    /\ e.form \in {"version", "address", "conversion"} =>
         \E v \in Versions : versions[v].state = "unborn"
    /\ e.form = "conversion" => \E o \in Orders : orders[o].state = "unborn"
    /\ e.form \in {"pause", "resume"} => Len(pauses[e.subject]) < MaxPauseEvents

\* The gates of the command are shut.
IsRefused(e) == Room(e) /\ ~ ENABLED Perform(e)

Gone(e) == e.form \in OrderForms /\ ~ Exists(e.subject)

\* stale_state: the row was written, or what the page expects no longer holds.
Stale(p, e) ==
    \/ e.form \in Stamped /\ disturbed[p] = "subject"
    \/ e.form \in OrderForms /\ e.expect # Precondition(e.form, e.subject)

\* What the page's own command has changed counts for the page as well.
Disturb(p) ==
    IF pages[p] = None \/ UNCHANGED offerVars THEN disturbed[p]
    ELSE LET s == pages[p].subject
         IN  IF \/ s \in Orders /\ orders'[s] # orders[s]
                \/ s \in Inquiries /\ inquiries'[s] # inquiries[s]
             THEN "subject"
             ELSE IF disturbed[p] = "no" THEN "elsewhere" ELSE disturbed[p]

Disturbance == disturbed' = [p \in Pages |-> Disturb(p)]

\* Faulty variant: the preconditions come before the ledger.
HandlePreconditionFirst(p, e) ==
    \/ /\ Gone(e) \/ Stale(p, e)
       /\ Answer(p, IF Gone(e) THEN "gone" ELSE "stale")
       /\ UNCHANGED ledger /\ CoreUnchanged
    \/ /\ ~ Gone(e) /\ ~ Stale(p, e)
       /\ ledger[p] # None
       /\ Answer(p, IF ledger[p] = e THEN "replayed" ELSE "conflict")
       /\ UNCHANGED ledger /\ CoreUnchanged
    \/ /\ ledger[p] = None /\ ~ Gone(e) /\ ~ Stale(p, e)
       /\ Perform(e)
       /\ ledger' = [ledger EXCEPT ![p] = e]
       /\ Answer(p, "done")
    \/ /\ ledger[p] = None /\ ~ Gone(e) /\ ~ Stale(p, e)
       /\ IsRefused(e)
       /\ Answer(p, "refused")
       /\ UNCHANGED ledger /\ CoreUnchanged

\* Faulty variant: only an equal envelope is looked up, another is carried out.
HandleAnotherEnvelope(p, e) ==
    \/ /\ ledger[p] = e
       /\ Answer(p, "replayed")
       /\ UNCHANGED ledger /\ CoreUnchanged
    \/ /\ ledger[p] # e
       /\ Gone(e) \/ Stale(p, e)
       /\ Answer(p, IF Gone(e) THEN "gone" ELSE "stale")
       /\ UNCHANGED ledger /\ CoreUnchanged
    \/ /\ ledger[p] # e /\ ~ Gone(e) /\ ~ Stale(p, e)
       /\ Perform(e)
       /\ ledger' = [ledger EXCEPT ![p] = e]
       /\ Answer(p, "done")
    \/ /\ ledger[p] # e /\ ~ Gone(e) /\ ~ Stale(p, e)
       /\ IsRefused(e)
       /\ Answer(p, "refused")
       /\ UNCHANGED ledger /\ CoreUnchanged

\* One command in one transaction: the ledger first, then the handler with its
\* preconditions, then the ledger entry.  A refusal is not recorded.
Handle(p, e) ==
    \/ /\ ledger[p] # None
       /\ Answer(p, IF ledger[p] = e THEN "replayed" ELSE "conflict")
       /\ UNCHANGED ledger /\ CoreUnchanged
    \/ /\ ledger[p] = None
       /\ Gone(e) \/ Stale(p, e)
       /\ Answer(p, IF Gone(e) THEN "gone" ELSE "stale")
       /\ UNCHANGED ledger /\ CoreUnchanged
    \/ /\ ledger[p] = None /\ ~ Gone(e) /\ ~ Stale(p, e)
       /\ Perform(e)
       /\ ledger' = [ledger EXCEPT ![p] = e]
       /\ Answer(p, "done")
    \/ /\ ledger[p] = None /\ ~ Gone(e) /\ ~ Stale(p, e)
       /\ IsRefused(e)
       /\ Answer(p, "refused")
       /\ UNCHANGED ledger /\ CoreUnchanged

\* The Core handles the command; the answer may get lost, which the office
\* cannot tell from a command that never arrived.
HandleFlight ==
    /\ flight # None
    /\ Handle(flight.page, flight.envelope)
    /\ Disturbance
    /\ flight' = None
    /\ UNCHANGED pages

LoseFlight ==
    /\ flight # None
    /\ flight' = None
    /\ answer' = None
    /\ UNCHANGED <<pages, disturbed, ledger>> /\ CoreUnchanged

\* Another page, the configurator, the kitchen or the calendar.
Elsewhere ==
    /\ CommerceNext
    /\ Disturbance
    /\ answer' = None
    /\ UNCHANGED <<pages, flight, ledger>>

\* An inquiry saved with the values it has: only updated_at moves.
SavedUnchanged(i) ==
    /\ \E p \in Pages : pages[p] # None /\ pages[p].subject = i
    /\ disturbed' = [p \in Pages |->
          IF pages[p] # None /\ pages[p].subject = i THEN "subject" ELSE disturbed[p]]
    /\ answer' = None
    /\ UNCHANGED <<pages, flight, ledger>> /\ CoreUnchanged

PanelNext ==
    \/ \E p \in Pages :
         \/ \E kind \in PageKinds, s \in Orders \cup Inquiries \cup Offers :
              OpenPage(p, kind, s)
         \/ \E form \in Forms : \E choice \in Choices(form) : SubmitForm(p, form, choice)
    \/ HandleFlight
    \/ LoseFlight
    \/ Elsewhere
    \/ \E i \in Inquiries : SavedUnchanged(i)

PanelSpec == PanelInit /\ [][PanelNext]_panelVars

-----------------------------------------------------------------------------
(* Properties. *)

\* Type invariant: what is in flight or in the ledger comes from a rendered
\* page, and a page names a version of the kind its form is about.
PanelTypeOK ==
    /\ \A p \in Pages :
         /\ disturbed[p] \in {"no", "elsewhere", "subject"}
         /\ IF pages[p] = None THEN ledger[p] = None
            ELSE /\ pages[p].kind \in PageKinds
                 /\ pages[p].kind \in {"address", "effective"} =>
                      pages[p].version \in Versions
                 /\ pages[p].kind = "offer" => pages[p].version \in Numbers(pages[p].subject)
    /\ flight # None => pages[flight.page] # None /\ flight.envelope.form \in Forms
    /\ answer # None => answer.says \in Says

SaysNow(a) == answer' # None /\ answer'.says \in a

\* Nothing is saved over what the office has not seen: a form that is carried
\* out finds the order, its pause or its inquiry as its page showed it, however
\* late it is sent and whatever happened in between; an acceptance is recorded
\* for the version the page showed.  (Deletion, verification and the other
\* evidence of an offer carry no expectation and are not promised.)
ActsOnWhatItShowed ==
    [][SaysNow({"done"}) =>
         LET page == pages[flight.page]
             e    == flight.envelope
         IN  /\ e.form \in {"version", "address"} =>
                  /\ orders[e.subject] = page.shown.row
                  /\ VersionsOf(e.subject) = page.shown.versions
             /\ e.form \in {"effective", "cancel"} => orders[e.subject] = page.shown
             /\ e.form \in {"pause", "resume"} => pauses[e.subject] = page.shown
             /\ e.form \in {"update", "contact", "delivery"} =>
                  inquiries[e.subject] = page.shown
             /\ e.form = "acceptance" => offers'[e.subject].accepted = page.version
      ]_panelVars

\* A refusal is true: when the office reads that its form was too late or was
\* refused, no earlier sending of the page was carried out, so the message
\* never denies what is saved.  (Not for the forms that look at the Core before
\* they post: resuming, the evidence of an offer, and what is deleted.)
RefusalIsTrue ==
    [][SaysNow({"stale", "refused"})
          /\ pages[answer'.page].kind \notin {"resume", "delete", "convert", "offer"} =>
         ledger[answer'.page] = None]_panelVars

\* What the panel renders, the Core takes: a form sent before anything else
\* happened is carried out.  (The page of an offer does not look at its inquiry,
\* which must be complete, verified, alive and resolved for the Core; and the
\* office may pick a stage that an inquiry with an active order cannot have.)
FreshFormIsTaken ==
    [][SaysNow({"gone", "not_paused", "stale", "refused"}) =>
         LET p == answer'.page
             s == pages[p].subject
         IN  \/ ledger[p] # None
             \/ disturbed[p] # "no"
             \/ pages[p].kind = "update" /\ HasActiveOrder(s)
             \/ /\ s \in Offers
                /\ \/ ~ MayProgress(offers[s].inquiry)
                   \/ ~ inquiries[offers[s].inquiry].complete
                   \/ ~ inquiries[offers[s].inquiry].delivery]_panelVars

\* A refusal is just: it denies nothing that is saved, and something happened
\* between the page and the form that explains it.
RefusalIsJust == RefusalIsTrue /\ FreshFormIsTaken

\* One page decides once: however often its forms are sent, and in whatever
\* order, at most one of them is carried out.
PageDecidesOnce ==
    [][\A p \in Pages : ledger[p] # None =>
         /\ ledger'[p] = ledger[p]
         /\ answer' # None /\ answer'.page = p => CoreUnchanged]_panelVars

\* A page is one decision about what it shows, however often, late and with
\* whichever of its buttons it is sent.
PageIsOneDecision == []PanelTypeOK /\ ActsOnWhatItShowed /\ PageDecidesOnce

=============================================================================
