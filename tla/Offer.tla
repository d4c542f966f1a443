--------------------------------- MODULE Offer ---------------------------------
(****************************************************************************)
(* The commercial side of the Core: inquiries, the offer prepared for each,  *)
(* its versions and their evidence, the acceptance, and the conversion of an *)
(* accepted version into an order of OrderCore.                              *)
(*                                                                          *)
(* Every action is one office command, one transaction under BEGIN           *)
(* IMMEDIATE.  Nothing of an offer is ever updated: versions, evidence and   *)
(* links are rows inserted once, and the state of a version is derived from  *)
(* them on every read.                                                       *)
(*                                                                          *)
(* Instants are counted in days of Europe/Berlin.  The office types the      *)
(* times of evidence, the configurator stamps a snapshot with its own clock, *)
(* the Core records with today.  A version is abstracted to its two dates,   *)
(* the planning data an order takes over and its evidence; its variants,     *)
(* positions and prices are left out, and with them the choice of a variant. *)
(****************************************************************************)
EXTENDS OrderCore

CONSTANTS
    Offers,             \* offer ids (uuid4, never drawn twice)
    Methods,            \* payment methods
    OfficeStages,       \* CRM stages the office gives an inquiry by hand
    MaxOfferVersions,   \* bound of the versions of one offer
    MaxDay              \* bound of the calendar

ASSUME NoOfferAssumption == None \notin Offers \cup Methods

\* None is the NULL of a column with an instant, not a day.
ASSUME CalendarAssumption == MaxDay \in Nat /\ None \notin 0..MaxDay

ASSUME StagesAssumption == OfficeStages \subseteq {"open", "order", "lost"}

VARIABLES
    inquiries,   \* rows of the table inquiries, by id
    offers,      \* offers with their versions and evidence, by id
    links,       \* offer_conversion_links: the order of an offer
    methods,     \* payment_method in the payment record of an order
    today        \* the calendar day

offerVars == <<orders, versions, pauses,
               inquiries, offers, links, methods, today>>

Days == 0..MaxDay

\* "open" stands for the CRM stages before the decision, "order" is
\* "Bestätigt / Auftrag", "lost" is "Abgelehnt / verloren".
Stages == {"open", "order", "lost"}

InquiryRow == [stage     : Stages,
               verified  : BOOLEAN,   \* no call verification is outstanding
               complete  : BOOLEAN,   \* e-mail and phone are known
               delivery  : BOOLEAN]   \* a DELIVERY inquiry has an address

\* A version cannot be both rejected and withdrawn.
OfferVersion == [created : Days,
                 until   : Days,
                 content : [facts  : Facts,
                            timing : Optional(Timings),
                            window : Optional(Windows)],
                 sent    : Days \cup {None},
                 closed  : {"no", "rejected", "withdrawn"}]

\* versions[n] is version number n; accepted is the number of the accepted
\* version, 0 before the acceptance.
OfferRow == [inquiry  : Optional(Inquiries),
             versions : Seq(OfferVersion),
             accepted : Nat]

NoOffer == [inquiry |-> None, versions |-> <<>>, accepted |-> 0]

-----------------------------------------------------------------------------
(* Reads. *)

Numbers(f)      == 1..Len(offers[f].versions)
Latest(f)       == Len(offers[f].versions)
Prepared(f)     == offers[f].inquiry # None
Sent(f, n)      == offers[f].versions[n].sent # None
OffersOf(i)     == {f \in Offers : offers[f].inquiry = i}
Undecided(f)    == offers[f].accepted = 0 /\ links[f] = None

\* derive_offer_state, in the order of precedence of its early returns.
State(f, n) ==
    LET v == offers[f].versions[n]
    IN  IF n = offers[f].accepted
        THEN IF links[f] # None THEN "Converted" ELSE "Accepted"
        ELSE IF v.closed = "rejected"  THEN "Rejected"
        ELSE IF v.closed = "withdrawn" THEN "Withdrawn"
        ELSE IF ~ Sent(f, n) THEN "Prepared"
        ELSE IF \E m \in Numbers(f) : m > n /\ Sent(f, m) THEN "Superseded"
        ELSE IF today > v.until THEN "Expired"
        ELSE "Sent"

HasNewerOpenVersion(f, n) ==
    \E m \in Numbers(f) : m > n /\ State(f, m) \in {"Prepared", "Sent"}

\* Faulty variant: a newer draft does not block the older version.
AllowsAcceptanceBesideDraft(f, n) == Undecided(f) /\ State(f, n) = "Sent"

\* offer_allows_acceptance
AllowsAcceptance(f, n) ==
    /\ Undecided(f)
    /\ State(f, n) = "Sent"
    /\ ~ HasNewerOpenVersion(f, n)

\* offer_allows_prepare_next_version
AllowsNext(f) ==
    /\ Undecided(f)
    /\ State(f, Latest(f)) \in {"Sent", "Expired", "Rejected", "Withdrawn"}

\* What Offer.__post_init__ asks of a withdrawal recorded today.
WithdrawalInTime(f, n) ==
    LET v == offers[f].versions[n]
    IN  today >= (IF Sent(f, n) THEN v.sent ELSE v.created)

\* What Offer.__post_init__ asks of an acceptance: the customer decided after
\* the version was sent, before it expired and after every version prepared.
AcceptanceInTime(f, n, at) ==
    /\ offers[f].versions[n].sent <= at
    /\ at <= offers[f].versions[n].until
    /\ \A m \in Numbers(f) : offers[f].versions[m].created <= at

\* The part of the gates that new conversions and replays share.
MayProgress(i) == inquiries[i].stage # "lost" /\ inquiries[i].verified

\* evaluate_inquiry_offer_preparation
MayPrepareOffer(i) ==
    /\ MayProgress(i)
    /\ inquiries[i].complete
    /\ ~ HasActiveOrder(i)
    /\ OffersOf(i) = {}

MayPrepareNext(f) ==
    /\ Prepared(f)
    /\ inquiries[offers[f].inquiry].complete
    /\ ~ HasActiveOrder(offers[f].inquiry)
    /\ AllowsNext(f)

\* The gates of convert_accepted_offer for an offer that has no order yet.
MayConvert(f) ==
    LET i == offers[f].inquiry
    IN  /\ Prepared(f)
        /\ offers[f].accepted # 0
        /\ links[f] = None
        /\ MayProgress(i)
        /\ ~ HasLinkedOrder(i)
        /\ inquiries[i].delivery
        /\ inquiries[i].complete

-----------------------------------------------------------------------------
OfferInit ==
    /\ Init
    /\ inquiries \in [Inquiries -> {r \in InquiryRow : r.stage = "open" /\ r.delivery}]
    /\ offers   = [f \in Offers |-> NoOffer]
    /\ links    = [f \in Offers |-> None]
    /\ methods  = [o \in Orders |-> None]
    /\ today    = 0

OrdersUnchanged == UNCHANGED <<orders, versions, pauses, methods>>

\* Faulty variant: the stage of an inquiry with an active order is free.
UpdateInquiryFreely(i, s) ==
    /\ inquiries' = [inquiries EXCEPT ![i].stage = s]
    /\ UNCHANGED <<offers, links, today>> /\ OrdersUnchanged

\* cmd_update_inquiry
UpdateInquiry(i, s) ==
    /\ HasActiveOrder(i) => s = "order"
    /\ inquiries' = [inquiries EXCEPT ![i].stage = s]
    /\ UNCHANGED <<offers, links, today>> /\ OrdersUnchanged

\* cmd_verify
VerifyInquiry(i) ==
    /\ inquiries' = [inquiries EXCEPT ![i].verified = TRUE]
    /\ UNCHANGED <<offers, links, today>> /\ OrdersUnchanged

\* cmd_contact_completion: fills what is missing, replaces nothing.
CompleteContact(i) ==
    /\ inquiries' = [inquiries EXCEPT ![i].complete = TRUE]
    /\ UNCHANGED <<offers, links, today>> /\ OrdersUnchanged

\* cmd_customer_addresses and cmd_fulfillment_mode: either may resolve the
\* delivery context or leave it unresolved again.
SetDelivery(i, resolved) ==
    /\ inquiries' = [inquiries EXCEPT ![i].delivery = resolved]
    /\ UNCHANGED <<offers, links, today>> /\ OrdersUnchanged

\* A snapshot of the configurator; created is its clock, not the Core's.
NewVersion(created, until, content) ==
    [created |-> created, until |-> until, content |-> content,
     sent |-> None, closed |-> "no"]

\* prepare_offer_version
PrepareOffer(f, i, v) ==
    /\ offers[f] = NoOffer
    /\ MayPrepareOffer(i)
    /\ offers' = [offers EXCEPT ![f] =
                    [inquiry |-> i, versions |-> <<v>>, accepted |-> 0]]
    /\ UNCHANGED <<inquiries, links, today>> /\ OrdersUnchanged

\* prepare_next_offer_version: expected is the number the page was built from.
PrepareNext(f, v, expected) ==
    /\ MayPrepareNext(f)
    /\ expected = Latest(f)
    /\ expected < MaxOfferVersions
    /\ v.created >= offers[f].versions[1].created
    /\ offers' = [offers EXCEPT ![f].versions = Append(@, v)]
    /\ UNCHANGED <<inquiries, links, today>> /\ OrdersUnchanged

\* record_sent_evidence: a draft past its date may still be recorded as sent.
RecordSent(f, n, at) ==
    /\ Undecided(f)
    /\ inquiries[offers[f].inquiry].complete
    /\ State(f, n) = "Prepared"
    /\ offers[f].versions[n].created <= at
    /\ at <= today
    /\ offers' = [offers EXCEPT ![f].versions[n].sent = at]
    /\ UNCHANGED <<inquiries, links, today>> /\ OrdersUnchanged

\* record_acceptance_evidence
RecordAcceptance(f, n, at) ==
    /\ inquiries[offers[f].inquiry].complete
    /\ AllowsAcceptance(f, n)
    /\ AcceptanceInTime(f, n, at)
    /\ at <= today
    /\ offers' = [offers EXCEPT ![f].accepted = n]
    /\ UNCHANGED <<inquiries, links, today>> /\ OrdersUnchanged

\* record_rejection_evidence: sent_at itself is always a valid rejected_at.
RecordRejection(f, n) ==
    /\ Undecided(f)
    /\ inquiries[offers[f].inquiry].complete
    /\ State(f, n) = "Sent"
    /\ offers' = [offers EXCEPT ![f].versions[n].closed = "rejected"]
    /\ UNCHANGED <<inquiries, links, today>> /\ OrdersUnchanged

\* record_withdrawal_evidence
RecordWithdrawal(f, n) ==
    /\ Undecided(f)
    /\ inquiries[offers[f].inquiry].complete
    /\ State(f, n) \in {"Prepared", "Sent"}
    /\ WithdrawalInTime(f, n)
    /\ offers' = [offers EXCEPT ![f].versions[n].closed = "withdrawn"]
    /\ UNCHANGED <<inquiries, links, today>> /\ OrdersUnchanged

\* The data of version 1 of the order: the planning data of the accepted
\* version and the context frozen from the inquiry.
InitialRow(f, a) ==
    LET content == offers[f].versions[offers[f].accepted].content
    IN  [facts |-> content.facts, timing |-> content.timing,
         window |-> content.window, address |-> a]

\* cmd_convert_accepted of an offer without an order: the order with its first
\* version, the link, the payment method and the stage of the inquiry.
ConvertAccepted(f, o, v, a, m) ==
    LET i == offers[f].inquiry
    IN  /\ MayConvert(f)
        /\ CreateOrder(o, v, i, InitialRow(f, a))
        /\ links' = [links EXCEPT ![f] = o]
        /\ methods' = [methods EXCEPT ![o] = m]
        /\ inquiries' = [inquiries EXCEPT ![i].stage = "order"]
        /\ UNCHANGED <<offers, today>>

\* cmd_convert_accepted of an offer that has its order: the answer is that
\* order, cancelled or not, and the stage of the inquiry is written again.
ReplayConversion(f, m) ==
    LET i == offers[f].inquiry
        o == links[f]
    IN  /\ o # None
        /\ MayProgress(i)
        /\ methods[o] \in {None, m}
        /\ methods' = [methods EXCEPT ![o] = m]
        /\ inquiries' = [inquiries EXCEPT ![i].stage = "order"]
        /\ UNCHANGED <<orders, versions, pauses, offers, links, today>>

\* change_payment_method; that it is refused after a payment is not modelled.
ChangeMethod(o, m) ==
    /\ Active(o)
    /\ methods[o] \notin {None, m}
    /\ methods' = [methods EXCEPT ![o] = m]
    /\ UNCHANGED <<orders, versions, pauses,
                   inquiries, offers, links, today>>

\* Faulty variant: the purge forgets the conversion link.
PurgeKeepsLink(o) ==
    /\ PurgeOrder(o)
    /\ methods' = [methods EXCEPT ![o] = None]
    /\ UNCHANGED <<inquiries, offers, links, today>>

\* cmd_delete_order: every row that carries the order's id goes with it, the
\* conversion link and the payment record among them.
PurgeConverted(o) ==
    /\ PurgeOrder(o)
    /\ links' = [f \in Offers |-> IF links[f] = o THEN None ELSE links[f]]
    /\ methods' = [methods EXCEPT ![o] = None]
    /\ UNCHANGED <<inquiries, offers, today>>

\* What happens to the order afterwards never touches the offer.
OrderStep ==
    /\ \/ ChangeNext
       \/ \E o \in Orders, v \in Versions : AcknowledgePrint(o, v)
    /\ UNCHANGED <<inquiries, offers, links, methods, today>>

NextDay ==
    /\ today < MaxDay
    /\ today' = today + 1
    /\ UNCHANGED <<inquiries, offers, links>> /\ OrdersUnchanged

Snapshots == {NewVersion(c, u, x) : c \in Days, u \in Days,
                x \in [facts : Facts, timing : Optional(Timings),
                       window : Optional(Windows)]}

InquiryNext ==
    \E i \in Inquiries :
      \/ \E s \in OfficeStages : UpdateInquiry(i, s)
      \/ VerifyInquiry(i)
      \/ CompleteContact(i)
      \/ \E resolved \in BOOLEAN : SetDelivery(i, resolved)

OfferNext ==
    \E f \in Offers :
      \/ \E i \in Inquiries, v \in Snapshots : PrepareOffer(f, i, v)
      \/ \E v \in Snapshots, n \in 1..MaxOfferVersions : PrepareNext(f, v, n)
      \/ \E n \in Numbers(f) :
           \/ \E at \in Days : RecordSent(f, n, at) \/ RecordAcceptance(f, n, at)
           \/ RecordRejection(f, n)
           \/ RecordWithdrawal(f, n)
      \/ \E o \in Orders, v \in Versions, a \in Optional(Addresses), m \in Methods :
           ConvertAccepted(f, o, v, a, m)
      \/ \E m \in Methods : ReplayConversion(f, m)

CommerceNext ==
    \/ InquiryNext
    \/ OfferNext
    \/ OrderStep
    \/ \E o \in Orders : PurgeConverted(o) \/ \E m \in Methods : ChangeMethod(o, m)
    \/ NextDay

CommerceSpec == OfferInit /\ [][CommerceNext]_offerVars

-----------------------------------------------------------------------------
(* What the office panel tells the office to do next. *)

\* derive_inquiry_offer_projection: the state that stands for the whole offer.
Projection(f) ==
    State(f, IF offers[f].accepted # 0 THEN offers[f].accepted ELSE Latest(f))

\* Faulty variant: an unresolved delivery does not hide the conversion.
ActionForOfferUndelivered(f) ==
    LET i == offers[f].inquiry
    IN  IF Projection(f) = "Accepted" /\ inquiries[i].complete THEN "convert-accepted"
        ELSE IF Projection(f) \in {"Prepared", "Sent"} THEN "offer-pending"
        ELSE IF /\ Projection(f) \in {"Expired", "Rejected", "Withdrawn"}
                /\ inquiries[i].complete
             THEN "prepare-next-version"
        ELSE "none"

\* The branch of derive_inquiry_office_state for an inquiry with an offer; a
\* converted offer whose order still has a row offers nothing.
ActionForOffer(f) ==
    LET i == offers[f].inquiry
    IN  IF \/ /\ Projection(f) = "Accepted"
              /\ inquiries[i].complete
              /\ inquiries[i].delivery
           \/ /\ Projection(f) = "Converted"
              /\ ~ HasLinkedOrder(i)
              /\ inquiries[i].delivery
        THEN "convert-accepted"
        ELSE IF Projection(f) \in {"Prepared", "Sent"} THEN "offer-pending"
        ELSE IF /\ Projection(f) \in {"Expired", "Rejected", "Withdrawn"}
                /\ inquiries[i].complete
             THEN "prepare-next-version"
        ELSE "none"

-----------------------------------------------------------------------------
(* Properties. *)

\* Type invariant: every row has the columns its table declares.
OfferTypeOK ==
    /\ inquiries \in [Inquiries -> InquiryRow]
    /\ offers \in [Offers -> OfferRow]
    /\ links \in [Offers -> Optional(Orders)]
    /\ methods \in [Orders -> Optional(Methods)]
    /\ today \in Days

\* The accepted version is the last word of the office: it was sent and never
\* closed, and whatever was prepared after it was withdrawn without being sent
\* (offer_allows_acceptance: a newer open version blocks an older one).
AcceptedIsTheLastWord ==
    \A f \in Offers : offers[f].accepted # 0 =>
        /\ offers[f].accepted \in Numbers(f)
        /\ Sent(f, offers[f].accepted)
        /\ offers[f].versions[offers[f].accepted].closed = "no"
        /\ \A m \in Numbers(f) : m > offers[f].accepted =>
             offers[f].versions[m].closed = "withdrawn" /\ ~ Sent(f, m)

\* An acceptance the panel offers can be recorded: the checks of the Offer
\* constructor never refuse a customer who accepts today, although a version
\* carries the clock of the configurator and the constructor refuses an
\* acceptance older than any version of the offer.
OfferedAcceptanceIsValid ==
    \A f \in Offers : \A n \in Numbers(f) :
        AllowsAcceptance(f, n) => AcceptanceInTime(f, n, today)

\* Order, link and payment method are written by one conversion and deleted by
\* one purge: an order has a row if and only if exactly one offer links to it,
\* that offer is accepted and of the same inquiry, the method is known, and
\* the order began with the planning data the customer accepted.
ConversionIsWhole ==
    \A o \in Orders :
        /\ Exists(o) <=> \E f \in Offers : links[f] = o
        /\ Exists(o) <=> methods[o] # None
        /\ \A f \in Offers : links[f] = o =>
             /\ offers[f].inquiry = orders[o].inquiry
             /\ offers[f].accepted # 0
             /\ \A g \in Offers : links[g] = o => g = f
             /\ \A v \in VersionsOf(o) : versions[v].number = 1 =>
                  versions[v].facts = InitialRow(f, None).facts

\* The user manual (docs/user/office-panel.md, "Convert an inquiry to an order"):
\* conversion asks for an inquiry that is not lost, has no active order and is
\* verified, and after Storno the page may offer re-conversion.  So an accepted
\* offer whose inquiry has no active order any more can be converted.
StornoAllowsReconversion ==
    \A f \in Offers :
        LET i == offers[f].inquiry
        IN  /\ Prepared(f)
            /\ offers[f].accepted # 0
            /\ MayProgress(i)
            /\ ~ HasActiveOrder(i)
            /\ inquiries[i].delivery
            /\ inquiries[i].complete
            => MayConvert(f)

\* The inquiry of an active order stands at "Bestätigt / Auftrag": neither the
\* office nor a later command leaves an order under an open or lost inquiry.
StageFollowsOrder ==
    \A i \in Inquiries : HasActiveOrder(i) => inquiries[i].stage = "order"

\* The primary action the panel derives for an inquiry ("the one truthful
\* primary office action") is one the Core accepts: what it offers for the
\* offer of an inquiry passes the gates of the command behind it.
PrimaryActionIsTruthful ==
    \A f \in Offers :
        Prepared(f) /\ MayProgress(offers[f].inquiry)
                    /\ ~ HasActiveOrder(offers[f].inquiry) =>
          /\ ActionForOffer(f) = "convert-accepted" => MayConvert(f)
          /\ ActionForOffer(f) = "prepare-next-version" => MayPrepareNext(f)

\* What the panel offers to do with an offer, the Core does: the views and the
\* gates are written apart and read different columns.
OfferedActionsAreAccepted == OfferedAcceptanceIsValid /\ PrimaryActionIsTruthful

\* An accepted offer is closed for ever: no version, no evidence and no other
\* acceptance is ever added, whatever becomes of the order.
AcceptedIsClosed ==
    [][\A f \in Offers : offers[f].accepted # 0 => offers'[f] = offers[f]]_offerVars

\* An acceptance is the end of the negotiation: it is about the last word of the
\* office, and nothing follows it.
AcceptanceIsFinal == [](OfferTypeOK /\ AcceptedIsTheLastWord) /\ AcceptedIsClosed

=============================================================================
