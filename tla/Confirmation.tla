----------------------------- MODULE Confirmation -----------------------------
(****************************************************************************)
(* The order confirmation (Auftragsbestaetigung): the frozen document of an *)
(* effective stand and its sending into the test outbox, on top of the      *)
(* order aggregate and of the inquiry that still holds the customer's data. *)
(*                                                                          *)
(* The customer's contact, the delivery address and the way the order is    *)
(* handed over live twice: in the inquiry, where the office may change them *)
(* at any time, and in the operational context frozen with every version.   *)
(* The preview reads one, the document the other.                           *)
(*                                                                          *)
(* Every action is one command in one transaction.  The rows of the two     *)
(* tables are sequences in the order of their insertion, in which a deleted *)
(* row keeps its place: a document as purged, a message as 0.  Texts,       *)
(* totals, hashes and the payment method are not modelled, and the inquiry  *)
(* has a usable customer name.  The context of a version is the pair of     *)
(* versions[v].address and frozenMode[v]; a context without a delivery      *)
(* address has the address NoAddress.                                       *)
(****************************************************************************)
EXTENDS OrderCore

CONSTANT NoAddress      \* no delivery address

ASSUME AddressAssumption == NoAddress \in Addresses

VARIABLES
    customer,       \* per inquiry: contact, mode of delivery, delivery address
    frozenMode,     \* per version: fulfillment_mode of its context
    documents,      \* rows of order_confirmation_document_snapshots
    outbox          \* rows of order_confirmation_send_evidence: the document sent

confirmVars == <<coreVars, customer, frozenMode, documents, outbox>>

Modes    == {"UNKNOWN", "DELIVERY", "PICKUP"}
Contacts == {"none", "phone", "email"}

Customer  == [contact : Contacts, mode : Modes, address : Addresses]
Recipient == [mode : Modes, address : Addresses]

DocumentRow == [state : {"stored", "purged"}, order : Orders, version : Versions,
                ready : BOOLEAN, mode : Modes, address : Addresses]

CustomerOf(o)  == customer[orders[o].inquiry]
DocumentsOf(o) == {k \in 1..Len(documents) :
                     documents[k].state = "stored" /\ documents[k].order = o}
DocumentOf(v)  == {k \in 1..Len(documents) :
                     documents[k].state = "stored" /\ documents[k].version = v}
Messages       == {n \in 1..Len(outbox) : outbox[n] # 0}
Sent(k)        == \E n \in Messages : outbox[n] = k

-----------------------------------------------------------------------------
(* The recipient of a document. *)

\* build_customer_document_recipient: from the inquiry as it is now; who
\* collects the food has no delivery address.
LiveRecipient(c, mode) ==
    [mode    |-> mode,
     address |-> IF mode = "PICKUP" THEN NoAddress ELSE c.address]

ExactRecipient(v, mode) ==
    [mode    |-> mode,
     address |-> IF mode = "PICKUP" THEN NoAddress ELSE versions[v].address]

\* _create_inputs: the mode frozen with the effective version, unless it was
\* unknown then; the address of its context, unless the context says nothing.
RecipientOf(o) ==
    LET v    == orders[o].effective
        mode == IF v # None /\ frozenMode[v] # "UNKNOWN" THEN frozenMode[v]
                                                         ELSE CustomerOf(o).mode
    IN  IF /\ v # None
           /\ \/ versions[v].parent # None
              \/ versions[v].address # NoAddress
              \/ frozenMode[v] # "UNKNOWN"
        THEN ExactRecipient(v, mode)
        ELSE LiveRecipient(CustomerOf(o), mode)

\* Faulty variant: an address the office removed is filled in again.
PreviewedWithLiveAddress(o) ==
    LET v == orders[o].effective
        c == CustomerOf(o)
    IN  IF v # None /\ versions[v].address # NoAddress
        THEN ExactRecipient(v, c.mode)
        ELSE LiveRecipient(c, c.mode)

\* preview_order_confirmation: the mode of the inquiry as it is now.
PreviewedOf(o) ==
    LET v == orders[o].effective
        c == CustomerOf(o)
    IN  IF v # None /\ (versions[v].parent # None \/ versions[v].address # NoAddress)
        THEN ExactRecipient(v, c.mode)
        ELSE LiveRecipient(c, c.mode)

\* evaluate_customer_document_eligibility without a blocker
Eligible(o, r) ==
    /\ Active(o)
    /\ orders[o].effective # None
    /\ orders[o].candidate = None
    /\ versions[orders[o].effective].confirmed
    /\ CustomerOf(o).contact # "none"
    /\ r.mode # "UNKNOWN"
    /\ r.mode = "DELIVERY" => r.address # NoAddress

\* _send_blocker finds nothing: the document is that of the effective stand,
\* its recipient was known when it was frozen, and the order is ready.
Sendable(o, k) ==
    /\ documents[k].version = orders[o].effective
    /\ documents[k].ready
    /\ Ready(o)

-----------------------------------------------------------------------------
(* What the order page of the panel offers. *)

\* get_latest_for_order
LatestDocument(o) ==
    IF DocumentsOf(o) = {} THEN 0
    ELSE CHOOSE k \in DocumentsOf(o) : \A l \in DocumentsOf(o) : l <= k

\* _requires_confirmation_document
OffersDocument(o) == LatestDocument(o) = 0 /\ Eligible(o, PreviewedOf(o))

\* The documents the panel offers to send: the latest, as long as it has no
\* evidence and the order is not paused.
OffersSend(o) ==
    {k \in DocumentsOf(o) :
       k = LatestDocument(o) /\ ~ Sent(k) /\ ActivePause(o) = 0}

-----------------------------------------------------------------------------
(* Commands. *)

\* _initial_operational_context
InitialAddress(c) == IF c.mode = "PICKUP" THEN NoAddress ELSE c.address

\* cmd_convert_accepted: both contact fields known, a delivery with an address.
Convert(o, v, i, f) ==
    LET c == customer[i]
    IN  /\ c.contact = "email"
        /\ c.mode = "DELIVERY" => c.address # NoAddress
        /\ CreateOrder(o, v, i, [facts |-> f, timing |-> None, window |-> None,
                                 address |-> InitialAddress(c)])
        /\ frozenMode' = [frozenMode EXCEPT ![v] = c.mode]
        /\ UNCHANGED <<customer, documents, outbox>>

\* The two changes append a version whose context has the mode of its parent.
Revise(o, v) ==
    /\ \/ \E f \in Facts : ProposeChange(o, v, f)
       \/ \E p \in Versions, a \in Addresses : ProposeAddress(o, v, p, a)
    /\ frozenMode' = [frozenMode EXCEPT ![v] = frozenMode[versions'[v].parent]]
    /\ UNCHANGED <<customer, documents, outbox>>

\* The commands that append no version and touch no document.
Operate(o) ==
    /\ \/ \E v \in Versions : AcknowledgePrint(o, v) \/ MakeEffective(o, v)
       \/ CancelOrder(o)
       \/ PauseOrder(o)
       \/ ResumeOrder(o)
    /\ UNCHANGED <<customer, frozenMode, documents, outbox>>

\* cmd_contact_completion: fills what is missing, never changes what is there.
CompleteContact(i, c) ==
    /\ \/ customer[i].contact = "none" /\ c \in {"phone", "email"}
       \/ customer[i].contact = "phone" /\ c = "email"
    /\ customer' = [customer EXCEPT ![i].contact = c]
    /\ UNCHANGED <<coreVars, frozenMode, documents, outbox>>

\* cmd_customer_addresses: also while an order of the inquiry runs.
SetAddress(i, a) ==
    /\ customer' = [customer EXCEPT ![i].address = a]
    /\ UNCHANGED <<coreVars, frozenMode, documents, outbox>>

\* cmd_fulfillment_mode: likewise.
SetMode(i, mode) ==
    /\ customer' = [customer EXCEPT ![i].mode = mode]
    /\ UNCHANGED <<coreVars, frozenMode, documents, outbox>>

\* _persist_snapshot_from_projection
NewDocument(o, r) ==
    [state |-> "stored", order |-> o, version |-> orders[o].effective,
     ready |-> CustomerOf(o).contact = "email",
     mode |-> r.mode, address |-> r.address]

\* prepare_snapshot: an existing document of the effective version is answered
\* instead of a second one.
PrepareSnapshot(o) ==
    /\ DocumentOf(orders[o].effective) = {}
    /\ Eligible(o, RecipientOf(o))
    /\ documents' = Append(documents, NewDocument(o, RecipientOf(o)))

\* cmd_confirmation_document, for the effective version the form names.
PrepareDocument(o, expected) ==
    /\ Active(o)
    /\ orders[o].effective = expected
    /\ PrepareSnapshot(o)
    /\ UNCHANGED <<coreVars, customer, frozenMode, outbox>>

\* Faulty variant: any document of the order may be sent.
SendAnyDocument(o, k) ==
    /\ ~ Sent(k)
    /\ documents[k].ready
    /\ Ready(o)
    /\ outbox' = Append(outbox, k)

\* send_to_fake_outbox: attempt, message and evidence in one bundle.
SendToOutbox(o, k) ==
    /\ ~ Sent(k)
    /\ Sendable(o, k)
    /\ outbox' = Append(outbox, k)

\* cmd_confirmation_document_send, for the document and the effective version
\* the form names.
SendDocument(o, expected, k) ==
    /\ Active(o)
    /\ orders[o].effective = expected
    /\ k \in DocumentsOf(o)
    /\ SendToOutbox(o, k)
    /\ UNCHANGED <<coreVars, customer, frozenMode, documents>>

\* cmd_delete_order: every row that carries the order's id.
Purge(o) ==
    /\ PurgeOrder(o)
    /\ documents' = [k \in DOMAIN documents |->
                       IF documents[k].order = o
                       THEN [documents[k] EXCEPT !.state = "purged"]
                       ELSE documents[k]]
    /\ outbox' = [n \in DOMAIN outbox |->
                    IF outbox[n] \in DocumentsOf(o) THEN 0 ELSE outbox[n]]
    /\ UNCHANGED <<customer, frozenMode>>

-----------------------------------------------------------------------------
\* A database may hold orders from before the contact gate and before contexts
\* knew a mode of delivery (migration 9).
ConfirmInit ==
    /\ documents = <<>>
    /\ outbox = <<>>
    /\ customer \in [Inquiries -> Customer]
    /\ frozenMode = [v \in Versions |-> "UNKNOWN"]
    /\ pauses = [o \in Orders |-> <<>>]
    /\ \/ orders = [o \in Orders |-> NoOrder] /\ versions = [v \in Versions |-> NoVersion]
       \/ \E o \in Orders, v \in Versions, i \in Inquiries, f \in Facts, a \in Addresses :
            /\ orders = [p \in Orders |->
                  IF p = o THEN [NoOrder EXCEPT !.state = "active", !.inquiry = i]
                           ELSE NoOrder]
            /\ versions = [w \in Versions |->
                  IF w = v THEN [NoVersion EXCEPT !.state = "stored", !.order = o,
                                   !.number = 1, !.facts = f, !.address = a]
                           ELSE NoVersion]

ConfirmNext ==
    \/ \E o \in Orders, v \in Versions :
         \/ \E i \in Inquiries, f \in Facts : Convert(o, v, i, f)
         \/ Revise(o, v)
    \/ \E o \in Orders :
         \/ Operate(o)
         \/ \E v \in Versions : PrepareDocument(o, v)
         \/ \E v \in Versions, k \in 1..Len(documents) : SendDocument(o, v, k)
         \/ Purge(o)
    \/ \E i \in Inquiries :
         \/ \E c \in Contacts : CompleteContact(i, c)
         \/ \E a \in Addresses : SetAddress(i, a)
         \/ \E mode \in Modes : SetMode(i, mode)

ConfirmSpec == ConfirmInit /\ [][ConfirmNext]_confirmVars

-----------------------------------------------------------------------------
(* Properties. *)

\* Type invariant.
ConfirmTypeOK ==
    /\ TypeOK
    /\ customer \in [Inquiries -> Customer]
    /\ frozenMode \in [Versions -> Modes]
    /\ documents \in Seq(DocumentRow)
    /\ outbox \in Seq(0..Len(documents))

\* A version is confirmed to the customer by one document only, and no document
\* goes out twice, however often the forms are sent (prepare_snapshot answers
\* the existing document, send_to_fake_outbox refuses).
NothingConfirmedTwice ==
    /\ \A v \in Versions : Cardinality(DocumentOf(v)) <= 1
    /\ \A m, n \in Messages : outbox[m] = outbox[n] => m = n

\* The messages of an order leave in the order of its stands: none describes an
\* older stand than one sent before it, through changes from any parent, late
\* prints and the office's own choice of the effective version.
SendsFollowTheStands ==
    \A m, n \in Messages :
        LET v == documents[outbox[m]].version
            w == documents[outbox[n]].version
        IN  m < n /\ versions[v].order = versions[w].order =>
                versions[v].number < versions[w].number

\* Customer and kitchen have the same in hand: a document belongs to a printed
\* stand, and neither a change of the inquiry nor one of the order after it was
\* frozen lets it name another address or another way of delivery.
CustomerAndKitchenAgree ==
    \A k \in 1..Len(documents) : documents[k].state = "stored" =>
        LET d == documents[k]
            v == d.version
        IN  /\ Owned(d.order, v)
            /\ versions[v].confirmed
            /\ d.mode # "UNKNOWN"
            /\ frozenMode[v] # "UNKNOWN" => d.mode = frozenMode[v]
            /\ d.mode = "PICKUP" => d.address = NoAddress
            /\ d.mode = "DELIVERY" /\ (versions[v].parent # None
                                       \/ versions[v].address # NoAddress) =>
                   d.address = versions[v].address

\* A document the panel offers is a document the Core creates, and with the
\* recipient its preview showed, as long as the inquiry's mode of delivery is
\* the one the order was made with.  When the mode was changed since, the preview
\* goes by the new mode and the document by the old one: then the customer may
\* read another recipient than the clerk, and the one reason to refuse is a
\* delivery whose stand has lost its address.
PreviewIsTheDocument ==
    \A o \in Orders : OffersDocument(o) =>
        LET v == orders[o].effective
            r == RecipientOf(o)
        IN  IF frozenMode[v] \in {"UNKNOWN", CustomerOf(o).mode}
            THEN Eligible(o, r) /\ r = PreviewedOf(o)
            ELSE /\ r.mode = frozenMode[v]
                 /\ \/ Eligible(o, r)
                    \/ r.mode = "DELIVERY" /\ versions[v].address = NoAddress

\* The panel reads the latest document only: it is that of the effective stand
\* whenever that stand has one, however late documents are made and whichever
\* stand the office makes effective.
LatestIsTheStands ==
    \A o \in Orders :
        LET v == orders[o].effective
        IN  v # None /\ DocumentOf(v) # {} => documents[LatestDocument(o)].version = v

\* So whatever document the Core would send, the panel offers to send.  It offers
\* more than that: a document of an older stand, of an order that is cancelled,
\* not ready or about to change, and one without a mail address; the Core refuses
\* these.
WhatCanBeSentIsOffered ==
    \A o \in Orders, k \in 1..Len(documents) :
        k \in DocumentsOf(o) /\ ~ Sent(k) /\ Sendable(o, k) => k \in OffersSend(o)

\* The office may rely on the order page for a new stand, too: while the effective
\* stand has no document and the Core would freeze the one the preview shows, the
\* page offers to.  test_new_effective_version_gets_new_snapshot
\* (tests/unit/test_order_confirmation_document.py) has it made, and the Core does;
\* the page only looks whether the order has any document, so it is NOT so.
NewStandsGetDocuments ==
    \A o \in Orders :
        /\ Ready(o) /\ DocumentOf(orders[o].effective) = {}
        /\ Eligible(o, PreviewedOf(o)) /\ Eligible(o, RecipientOf(o))
        => OffersDocument(o)

\* A purge leaves nothing of the order for the customer: neither a document nor
\* a message whose order is gone, although both tables refuse deletion.
PurgeLeavesNoMail ==
    /\ \A k \in 1..Len(documents) :
         documents[k].state = "stored" => Exists(documents[k].order)
    /\ \A n \in Messages : documents[outbox[n]].state = "stored"

\* The customer's mail follows the order: one document and one message per stand,
\* in the order of the stands, naming what the kitchen has, gone with the order.
MailFollowsTheOrder ==
    /\ ConfirmTypeOK
    /\ NothingConfirmedTwice
    /\ SendsFollowTheStands
    /\ CustomerAndKitchenAgree
    /\ PurgeLeavesNoMail

\* The order page decides from its own reads, the Core from its gates: what the page
\* previews is what is frozen, and it leaves out nothing that can be sent.
PageFollowsTheDocuments ==
    PreviewIsTheDocument /\ LatestIsTheStands /\ WhatCanBeSentIsOffered

=============================================================================
