------------------------------ MODULE Offer_proofs ------------------------------
(* Theorems about the commercial side, for every number of inquiries, offers *)
(* and orders: it implements OrderCore, so every theorem about the order      *)
(* aggregate holds for it too, its rows are typed, an acceptance is about the *)
(* last word of the office and closes the offer for ever, and the inquiry of  *)
(* an active order stands at the stage of one; conversions are whole, what    *)
(* the desk shows is what its buttons can do; and behind the panel, which     *)
(* sends late and twice, all of this holds and a page decides once.           *)
EXTENDS RemotePanel, OrderCore_proofs

\* Rows are typed, and an accepted number is that of a version.
OfferInv ==
    /\ inquiries \in [Inquiries -> InquiryRow]
    /\ offers \in [Offers -> OfferRow]
    /\ \A f \in Offers : offers[f].accepted # 0 => offers[f].accepted \in Numbers(f)

-----------------------------------------------------------------------------
(* Steps that replace the row of one offer. *)

LEMMA OfferRowReplaced ==
    ASSUME OfferInv, NEW f \in Offers, NEW row \in OfferRow,
           row.accepted # 0 => row.accepted \in 1..Len(row.versions),
           offers' = [offers EXCEPT ![f] = row],
           inquiries' = inquiries
    PROVE  OfferInv'
PROOF
  <1>1. offers' \in [Offers -> OfferRow] /\ offers'[f] = row
    BY DEF OfferInv
  <1>2. ASSUME NEW g \in Offers, offers'[g].accepted # 0
        PROVE  offers'[g].accepted \in 1..Len(offers'[g].versions)
    <2>1. CASE g = f
      BY <1>1, <1>2, <2>1
    <2>2. CASE g # f
      <3>1. offers'[g] = offers[g]
        BY <2>2 DEF OfferInv
      <3> QED
        BY <1>2, <3>1 DEF OfferInv, Numbers
    <2> QED
      BY <2>1, <2>2
  <1> QED
    BY <1>1, <1>2 DEF OfferInv, Numbers

LEMMA VersionReplaced ==
    ASSUME OfferInv, NEW f \in Offers, NEW n \in Numbers(f), NEW w \in OfferVersion,
           offers' = [offers EXCEPT ![f] =
                        [offers[f] EXCEPT !.versions =
                           [offers[f].versions EXCEPT ![n] = w]]],
           inquiries' = inquiries
    PROVE  OfferInv'
PROOF
  <1> DEFINE vs  == [offers[f].versions EXCEPT ![n] = w]
             row == [offers[f] EXCEPT !.versions = vs]
  <1>1. offers[f] \in OfferRow
    BY DEF OfferInv
  <1>2. offers[f].versions \in Seq(OfferVersion)
    BY <1>1 DEF OfferRow
  <1>3. vs \in Seq(OfferVersion) /\ Len(vs) = Len(offers[f].versions)
    BY <1>2, ExceptSeq DEF Numbers
  <1> HIDE DEF vs
  <1>4. row \in OfferRow
    BY <1>1, <1>3 DEF OfferRow
  <1>5. row.accepted = offers[f].accepted /\ row.versions = vs
    BY <1>1 DEF OfferRow
  <1>6. row.accepted # 0 => row.accepted \in 1..Len(row.versions)
    BY <1>3, <1>5 DEF OfferInv, Numbers
  <1>7. offers' = [offers EXCEPT ![f] = row]
    BY DEF vs
  <1> HIDE DEF row
  <1> QED
    BY <1>4, <1>6, <1>7, OfferRowReplaced

LEMMA OfferStepsKeepInv ==
    ASSUME OfferInv, OfferNext
    PROVE  OfferInv'
PROOF
  <1>1. ASSUME NEW f \in Offers, NEW i \in Inquiries, NEW v \in Snapshots,
               PrepareOffer(f, i, v)
        PROVE  OfferInv'
    <2> DEFINE row == [inquiry |-> i, versions |-> <<v>>, accepted |-> 0]
    <2>1. v \in OfferVersion
      BY DEF Snapshots, NewVersion, OfferVersion
    <2>2. <<v>> \in Seq(OfferVersion)
      BY <2>1
    <2>3. row \in OfferRow /\ row.accepted = 0
      BY <2>2 DEF OfferRow, Optional
    <2>4. offers' = [offers EXCEPT ![f] = row] /\ inquiries' = inquiries
      BY <1>1 DEF PrepareOffer
    <2> HIDE DEF row
    <2> QED
      BY <2>3, <2>4, OfferRowReplaced
  <1>2. ASSUME NEW f \in Offers, NEW v \in Snapshots,
               NEW n \in 1..MaxOfferVersions, PrepareNext(f, v, n)
        PROVE  OfferInv'
    <2> DEFINE vs  == Append(offers[f].versions, v)
               row == [offers[f] EXCEPT !.versions = vs]
    <2>1. v \in OfferVersion
      BY DEF Snapshots, NewVersion, OfferVersion
    <2>2. offers[f] \in OfferRow
      BY DEF OfferInv
    <2>3. offers[f].versions \in Seq(OfferVersion)
      BY <2>2 DEF OfferRow
    <2>4. vs \in Seq(OfferVersion)
      BY <2>1, <2>3
    <2>5. offers[f].accepted = 0
      BY <1>2 DEF PrepareNext, MayPrepareNext, AllowsNext, Undecided
    <2>6. offers' = [offers EXCEPT ![f] = row] /\ inquiries' = inquiries
      BY <1>2 DEF PrepareNext
    <2> HIDE DEF vs
    <2>7. row \in OfferRow /\ row.accepted = 0
      BY <2>2, <2>4, <2>5 DEF OfferRow
    <2> HIDE DEF row
    <2> QED
      BY <2>6, <2>7, OfferRowReplaced
  <1>3. ASSUME NEW f \in Offers, NEW n \in Numbers(f), NEW at \in Days,
               RecordSent(f, n, at)
        PROVE  OfferInv'
    <2> DEFINE w == [offers[f].versions[n] EXCEPT !.sent = at]
    <2>1. offers[f].versions[n] \in OfferVersion
      BY DEF OfferInv, OfferRow, Numbers
    <2>2. w \in OfferVersion
      BY <2>1 DEF OfferVersion
    <2>3. offers' = [offers EXCEPT ![f] = [offers[f] EXCEPT !.versions =
                       [offers[f].versions EXCEPT ![n] = w]]]
      BY <1>3 DEF RecordSent
    <2>4. inquiries' = inquiries
      BY <1>3 DEF RecordSent
    <2> HIDE DEF w
    <2> QED
      BY <2>2, <2>3, <2>4, VersionReplaced
  <1>4. ASSUME NEW f \in Offers, NEW n \in Numbers(f), NEW at \in Days,
               RecordAcceptance(f, n, at)
        PROVE  OfferInv'
    <2> DEFINE row == [offers[f] EXCEPT !.accepted = n]
    <2>1. offers[f] \in OfferRow
      BY DEF OfferInv
    <2>2. n \in Nat
      BY <2>1 DEF Numbers, OfferRow
    <2>3. row \in OfferRow /\ row.accepted = n /\ row.versions = offers[f].versions
      BY <2>1, <2>2 DEF OfferRow
    <2>4. offers' = [offers EXCEPT ![f] = row] /\ inquiries' = inquiries
      BY <1>4 DEF RecordAcceptance
    <2>5. n \in 1..Len(row.versions)
      BY <2>3 DEF Numbers
    <2> HIDE DEF row
    <2> QED
      BY <2>3, <2>4, <2>5, OfferRowReplaced
  <1>5. ASSUME NEW f \in Offers, NEW n \in Numbers(f),
               RecordRejection(f, n) \/ RecordWithdrawal(f, n)
        PROVE  OfferInv'
    <2>1. PICK c \in {"rejected", "withdrawn"} :
            offers' = [offers EXCEPT ![f].versions[n].closed = c]
      BY <1>5 DEF RecordRejection, RecordWithdrawal
    <2> DEFINE w == [offers[f].versions[n] EXCEPT !.closed = c]
    <2>2. offers[f].versions[n] \in OfferVersion
      BY DEF OfferInv, OfferRow, Numbers
    <2>3. w \in OfferVersion
      BY <2>2 DEF OfferVersion
    <2>4. offers' = [offers EXCEPT ![f] = [offers[f] EXCEPT !.versions =
                       [offers[f].versions EXCEPT ![n] = w]]]
      BY <2>1
    <2>5. inquiries' = inquiries
      BY <1>5 DEF RecordRejection, RecordWithdrawal
    <2> HIDE DEF w
    <2> QED
      BY <2>3, <2>4, <2>5, VersionReplaced
  <1>6. ASSUME NEW f \in Offers, NEW m \in Methods,
               \/ ReplayConversion(f, m)
               \/ \E o \in Orders, v \in Versions, a \in Optional(Addresses) :
                    ConvertAccepted(f, o, v, a, m)
        PROVE  OfferInv'
    <2>1. /\ inquiries' = [inquiries EXCEPT ![offers[f].inquiry].stage = "order"]
          /\ offers' = offers
      BY <1>6 DEF ReplayConversion, ConvertAccepted
    <2>2. inquiries' \in [Inquiries -> InquiryRow]
      BY <2>1 DEF OfferInv, InquiryRow, Stages
    <2> QED
      BY <2>1, <2>2 DEF OfferInv, Numbers
  <1> QED
    BY <1>1, <1>2, <1>3, <1>4, <1>5, <1>6 DEF OfferNext

\* What the other commands leave of the offers and the inquiries.
LEMMA CommerceStepsKeepInv ==
    ASSUME OfferInv, [CommerceNext]_offerVars
    PROVE  OfferInv'
PROOF
  <1>1. CASE InquiryNext
    <2>1. offers' = offers
      BY <1>1 DEF InquiryNext, UpdateInquiry, VerifyInquiry, CompleteContact, SetDelivery
    <2>2. ASSUME NEW i \in Inquiries, NEW row \in InquiryRow,
                 inquiries' = [inquiries EXCEPT ![i] = row]
          PROVE  inquiries' \in [Inquiries -> InquiryRow]
      BY <2>2 DEF OfferInv
    <2>3. ASSUME NEW i \in Inquiries, NEW s \in OfficeStages, UpdateInquiry(i, s)
          PROVE  inquiries' \in [Inquiries -> InquiryRow]
      <3>1. [inquiries[i] EXCEPT !.stage = s] \in InquiryRow
        BY StagesAssumption DEF OfferInv, InquiryRow, Stages
      <3> QED
        BY <2>2, <2>3, <3>1 DEF UpdateInquiry
    <2>4. ASSUME NEW i \in Inquiries,
                 \/ VerifyInquiry(i)
                 \/ CompleteContact(i)
                 \/ \E resolved \in BOOLEAN : SetDelivery(i, resolved)
          PROVE  inquiries' \in [Inquiries -> InquiryRow]
      BY <2>4 DEF OfferInv, InquiryRow, VerifyInquiry, CompleteContact, SetDelivery
    <2>5. inquiries' \in [Inquiries -> InquiryRow]
      BY <1>1, <2>3, <2>4 DEF InquiryNext
    <2> QED
      BY <2>1, <2>5 DEF OfferInv, Numbers
  <1>2. CASE OfferNext
    BY <1>2, OfferStepsKeepInv
  <1>3. CASE UNCHANGED <<inquiries, offers>>
    BY <1>3 DEF OfferInv, Numbers
  <1>4. OrderStep => UNCHANGED <<inquiries, offers>>
    BY DEF OrderStep
  <1>5. ASSUME NEW o \in Orders, PurgeConverted(o) \/ \E m \in Methods : ChangeMethod(o, m)
        PROVE  UNCHANGED <<inquiries, offers>>
    BY <1>5 DEF PurgeConverted, ChangeMethod
  <1>6. NextDay => UNCHANGED <<inquiries, offers>>
    BY DEF NextDay
  <1>7. UNCHANGED offerVars => UNCHANGED <<inquiries, offers>>
    BY DEF offerVars
  <1> QED
    BY <1>1, <1>2, <1>3, <1>4, <1>5, <1>6, <1>7 DEF CommerceNext

LEMMA InitialOffers == OfferInit => OfferInv
PROOF
  <1> SUFFICES ASSUME OfferInit PROVE OfferInv
    OBVIOUS
  <1>1. <<>> \in Seq(OfferVersion)
    OBVIOUS
  <1>2. NoOffer \in OfferRow /\ NoOffer.accepted = 0
    BY <1>1 DEF NoOffer, OfferRow, Optional
  <1> QED
    BY <1>2 DEF OfferInit, OfferInv

LEMMA OfferInvariance == CommerceSpec => []OfferInv
PROOF
  <1>1. OfferInit => OfferInv
    BY InitialOffers
  <1>2. OfferInv /\ [CommerceNext]_offerVars => OfferInv'
    BY CommerceStepsKeepInv
  <1> QED
    BY <1>1, <1>2, PTL DEF CommerceSpec

-----------------------------------------------------------------------------
(* The commercial side implements the order aggregate. *)

\* A conversion hands the order typed data, whatever the offer went through.
LEMMA InitialRowIsTyped ==
    ASSUME OfferInv, NEW f \in Offers, offers[f].accepted # 0,
           NEW a \in Optional(Addresses)
    PROVE  InitialRow(f, a) \in InitialContents
PROOF
  <1> DEFINE v == offers[f].versions[offers[f].accepted]
  <1>1. v \in OfferVersion
    BY DEF OfferInv, OfferRow, Numbers
  <1> HIDE DEF v
  <1>2. v.content \in [facts : Facts, timing : Optional(Timings),
                      window : Optional(Windows)]
    BY <1>1 DEF OfferVersion
  <1>3. InitialRow(f, a) = [facts |-> v.content.facts, timing |-> v.content.timing,
                            window |-> v.content.window, address |-> a]
    BY DEF InitialRow, v
  <1> QED
    BY <1>2, <1>3 DEF InitialContents

LEMMA ConversionCreatesOrder ==
    ASSUME OfferInv, NEW f \in Offers, NEW o \in Orders, NEW v \in Versions,
           NEW a \in Optional(Addresses), NEW m \in Methods,
           ConvertAccepted(f, o, v, a, m)
    PROVE  /\ offers[f].inquiry \in Inquiries
           /\ CreateOrder(o, v, offers[f].inquiry, InitialRow(f, a))
           /\ InitialRow(f, a) \in InitialContents
PROOF
  <1>1. /\ Prepared(f) /\ offers[f].accepted # 0
        /\ CreateOrder(o, v, offers[f].inquiry, InitialRow(f, a))
    BY DEF ConvertAccepted, MayConvert
  <1>2. offers[f].inquiry \in Inquiries
    BY <1>1 DEF OfferInv, OfferRow, Optional, Prepared
  <1> QED
    BY <1>1, <1>2, InitialRowIsTyped

\* Every step of the commercial side is a step of the order aggregate or leaves
\* it alone.
LEMMA CommerceStepIsCoreStep ==
    ASSUME OfferInv, [CommerceNext]_offerVars
    PROVE  [Next]_coreVars
PROOF
  <1>1. ASSUME NEW f \in Offers, NEW o \in Orders, NEW v \in Versions,
               NEW a \in Optional(Addresses), NEW m \in Methods,
               ConvertAccepted(f, o, v, a, m)
        PROVE  Next
    BY <1>1, ConversionCreatesOrder DEF Next, OfficeNext, HandlerNext
  <1>2. ASSUME NEW f \in Offers, NEW m \in Methods, ReplayConversion(f, m)
        PROVE  UNCHANGED coreVars
    BY <1>2 DEF ReplayConversion, coreVars
  <1>3. ASSUME NEW f \in Offers, NEW n \in Numbers(f),
               \/ \E at \in Days : RecordSent(f, n, at) \/ RecordAcceptance(f, n, at)
               \/ RecordRejection(f, n)
               \/ RecordWithdrawal(f, n)
        PROVE  UNCHANGED coreVars
    BY <1>3 DEF RecordSent, RecordAcceptance, RecordRejection, RecordWithdrawal,
                OrdersUnchanged, coreVars
  <1>4. ASSUME NEW f \in Offers, NEW v \in Snapshots,
               \/ \E i \in Inquiries : PrepareOffer(f, i, v)
               \/ \E n \in 1..MaxOfferVersions : PrepareNext(f, v, n)
        PROVE  UNCHANGED coreVars
    BY <1>4 DEF PrepareOffer, PrepareNext, OrdersUnchanged, coreVars
  <1>5. OfferNext => Next \/ UNCHANGED coreVars
    BY <1>1, <1>2, <1>3, <1>4 DEF OfferNext
  <1>6. InquiryNext => UNCHANGED coreVars
    BY DEF InquiryNext, UpdateInquiry, VerifyInquiry, CompleteContact, SetDelivery,
           OrdersUnchanged, coreVars
  <1>7. OrderStep => Next
    BY DEF OrderStep, Next, OfficeNext, HandlerNext
  <1>8. ASSUME NEW o \in Orders, PurgeConverted(o) PROVE Next
    BY <1>8 DEF PurgeConverted, Next, OfficeNext
  <1>9. ASSUME NEW o \in Orders, NEW m \in Methods, ChangeMethod(o, m)
        PROVE  UNCHANGED coreVars
    BY <1>9 DEF ChangeMethod, coreVars
  <1>10. NextDay \/ UNCHANGED offerVars => UNCHANGED coreVars
    BY DEF NextDay, OrdersUnchanged, offerVars, coreVars
  <1> QED
    BY <1>5, <1>6, <1>7, <1>8, <1>9, <1>10 DEF CommerceNext

\* The commercial side implements OrderCore: whatever the office does with
\* inquiries and offers, the orders behave as that module says, and each of its
\* theorems (gapless history, printed effective version, final Storno) holds.
THEOREM CommerceImplementsCore == CommerceSpec => Spec
PROOF
  <1>1. OfferInit => Init
    BY DEF OfferInit
  <1>2. OfferInv /\ [CommerceNext]_offerVars => [Next]_coreVars
    BY CommerceStepIsCoreStep
  <1> QED
    BY <1>1, <1>2, OfferInvariance, PTL DEF CommerceSpec, Spec

-----------------------------------------------------------------------------
(* The accepted offer. *)

\* No command writes the row of an accepted offer.
LEMMA AcceptedRowStays ==
    ASSUME OfferInv, [CommerceNext]_offerVars, NEW g \in Offers,
           offers[g].accepted # 0
    PROVE  offers'[g] = offers[g]
PROOF
  <1>1. ASSUME NEW f \in Offers, offers[f].accepted = 0,
               NEW row, offers' = [offers EXCEPT ![f] = row]
        PROVE  offers'[g] = offers[g]
    BY <1>1 DEF OfferInv
  <1>2. ASSUME NEW f \in Offers, NEW i \in Inquiries, NEW v, PrepareOffer(f, i, v)
        PROVE  offers'[g] = offers[g]
    <2>1. offers[f].accepted = 0
      BY <1>2 DEF PrepareOffer, NoOffer
    <2>2. \E row : offers' = [offers EXCEPT ![f] = row]
      BY <1>2 DEF PrepareOffer
    <2> QED
      BY <1>1, <2>1, <2>2
  <1>3. ASSUME NEW f \in Offers, NEW v, NEW n, PrepareNext(f, v, n)
        PROVE  offers'[g] = offers[g]
    BY <1>1, <1>3 DEF PrepareNext, MayPrepareNext, AllowsNext, Undecided
  <1>4. ASSUME NEW f \in Offers, NEW n, NEW at, RecordSent(f, n, at)
        PROVE  offers'[g] = offers[g]
    BY <1>1, <1>4 DEF RecordSent, Undecided
  <1>5. ASSUME NEW f \in Offers, NEW n, NEW at, RecordAcceptance(f, n, at)
        PROVE  offers'[g] = offers[g]
    BY <1>1, <1>5 DEF RecordAcceptance, AllowsAcceptance, Undecided
  <1>6. ASSUME NEW f \in Offers, NEW n, RecordRejection(f, n) \/ RecordWithdrawal(f, n)
        PROVE  offers'[g] = offers[g]
    <2>1. CASE RecordRejection(f, n)
      BY <1>1, <2>1 DEF RecordRejection, Undecided
    <2>2. CASE RecordWithdrawal(f, n)
      BY <1>1, <2>2 DEF RecordWithdrawal, Undecided
    <2> QED
      BY <1>6, <2>1, <2>2
  <1>7. ASSUME NEW f \in Offers, NEW o, NEW v, NEW a, NEW m,
               ConvertAccepted(f, o, v, a, m) \/ ReplayConversion(f, m)
        PROVE  offers'[g] = offers[g]
    BY <1>7 DEF ConvertAccepted, ReplayConversion
  <1>8. OfferNext => offers'[g] = offers[g]
    BY <1>2, <1>3, <1>4, <1>5, <1>6, <1>7 DEF OfferNext
  <1>9. InquiryNext => offers' = offers
    BY DEF InquiryNext, UpdateInquiry, VerifyInquiry, CompleteContact, SetDelivery
  <1>10. OrderStep \/ NextDay \/ UNCHANGED offerVars => offers' = offers
    BY DEF OrderStep, NextDay, offerVars
  <1>11. ASSUME NEW o \in Orders, PurgeConverted(o) \/ \E m \in Methods : ChangeMethod(o, m)
         PROVE  offers' = offers
    BY <1>11 DEF PurgeConverted, ChangeMethod
  <1> QED
    BY <1>8, <1>9, <1>10, <1>11 DEF CommerceNext

\* An accepted offer is closed for ever: whatever command follows, no version,
\* no evidence and no other acceptance is added to it.
THEOREM AcceptedOfferIsClosed == CommerceSpec => AcceptedIsClosed
PROOF
  <1>1. OfferInv /\ [CommerceNext]_offerVars =>
          [\A f \in Offers : offers[f].accepted # 0 => offers'[f] = offers[f]]_offerVars
    BY AcceptedRowStays
  <1> QED
    BY <1>1, OfferInvariance, PTL DEF CommerceSpec, AcceptedIsClosed

-----------------------------------------------------------------------------
(* The accepted version is the last word. *)

\* One row of offers: what was rejected had been sent, and an accepted version
\* was sent, is open, and everything newer was withdrawn unsent.
Orderly(row) ==
    /\ \A n \in 1..Len(row.versions) :
         row.versions[n].closed = "rejected" => row.versions[n].sent # None
    /\ row.accepted # 0 =>
         /\ row.accepted \in 1..Len(row.versions)
         /\ row.versions[row.accepted].sent # None
         /\ row.versions[row.accepted].closed = "no"
         /\ \A m \in 1..Len(row.versions) : m > row.accepted =>
              row.versions[m].closed = "withdrawn" /\ ~ (row.versions[m].sent # None)

AllOrderly == \A f \in Offers : Orderly(offers[f])

LEMMA OneRowStaysOrderly ==
    ASSUME OfferInv, AllOrderly, NEW f \in Offers, NEW row, Orderly(row),
           offers' = [offers EXCEPT ![f] = row]
    PROVE  AllOrderly'
PROOF
  <1> SUFFICES ASSUME NEW g \in Offers PROVE Orderly(offers'[g])
    BY DEF AllOrderly, Orderly
  <1>1. offers'[g] = IF g = f THEN row ELSE offers[g]
    BY DEF OfferInv
  <1> QED
    BY <1>1 DEF AllOrderly

\* The evidence of one version of an undecided offer.
LEMMA EvidenceIsOrderly ==
    ASSUME OfferInv, AllOrderly, NEW f \in Offers, NEW n \in Numbers(f),
           offers[f].accepted = 0, NEW w \in OfferVersion,
           w.closed = "rejected" => w.sent # None,
           offers' = [offers EXCEPT ![f] =
                        [offers[f] EXCEPT !.versions =
                           [offers[f].versions EXCEPT ![n] = w]]]
    PROVE  AllOrderly'
PROOF
  <1> DEFINE vs  == [offers[f].versions EXCEPT ![n] = w]
             row == [offers[f] EXCEPT !.versions = vs]
  <1>1. offers[f] \in OfferRow /\ offers[f].versions \in Seq(OfferVersion)
    BY DEF OfferInv, OfferRow
  <1>2. Len(vs) = Len(offers[f].versions)
    BY <1>1, ExceptSeq DEF Numbers
  <1>3. \A m \in 1..Len(offers[f].versions) :
          vs[m] = IF m = n THEN w ELSE offers[f].versions[m]
    BY <1>1
  <1> HIDE DEF vs
  <1>4. row.versions = vs /\ row.accepted = 0
    BY <1>1 DEF OfferRow
  <1> HIDE DEF row
  <1>5. \A m \in 1..Len(offers[f].versions) :
          offers[f].versions[m].closed = "rejected" => offers[f].versions[m].sent # None
    BY DEF AllOrderly, Orderly
  <1>6. Orderly(row)
    BY <1>2, <1>3, <1>4, <1>5 DEF Orderly
  <1>7. offers' = [offers EXCEPT ![f] = row]
    BY DEF row, vs
  <1> QED
    BY <1>6, <1>7, OneRowStaysOrderly

LEMMA CommerceKeepsOrderly ==
    ASSUME OfferInv, AllOrderly, [CommerceNext]_offerVars
    PROVE  AllOrderly'
PROOF
  <1>1. ASSUME NEW f \in Offers, NEW i \in Inquiries, NEW v \in Snapshots,
               PrepareOffer(f, i, v)
        PROVE  AllOrderly'
    <2> DEFINE row == [inquiry |-> i, versions |-> <<v>>, accepted |-> 0]
    <2>1. v.closed = "no"
      BY DEF Snapshots, NewVersion
    <2>2. Orderly(row)
      BY <2>1 DEF Orderly
    <2>3. offers' = [offers EXCEPT ![f] = row]
      BY <1>1 DEF PrepareOffer
    <2> HIDE DEF row
    <2> QED
      BY <2>2, <2>3, OneRowStaysOrderly
  <1>2. ASSUME NEW f \in Offers, NEW v \in Snapshots,
               NEW n \in 1..MaxOfferVersions, PrepareNext(f, v, n)
        PROVE  AllOrderly'
    <2> DEFINE vs  == Append(offers[f].versions, v)
               row == [offers[f] EXCEPT !.versions = vs]
    <2>1. v \in OfferVersion /\ v.closed = "no"
      BY DEF Snapshots, NewVersion, OfferVersion
    <2>2. offers[f] \in OfferRow /\ offers[f].versions \in Seq(OfferVersion)
      BY DEF OfferInv, OfferRow
    <2>3. /\ Len(vs) = Len(offers[f].versions) + 1
          /\ vs[Len(offers[f].versions) + 1] = v
          /\ \A m \in 1..Len(offers[f].versions) : vs[m] = offers[f].versions[m]
      BY <2>1, <2>2
    <2>4. offers[f].accepted = 0
      BY <1>2 DEF PrepareNext, MayPrepareNext, AllowsNext, Undecided
    <2>5. offers' = [offers EXCEPT ![f] = row]
      BY <1>2 DEF PrepareNext
    <2> HIDE DEF vs
    <2>6. row.versions = vs /\ row.accepted = 0
      BY <2>2, <2>4 DEF OfferRow
    <2> HIDE DEF row
    <2>7. \A m \in 1..Len(offers[f].versions) :
            offers[f].versions[m].closed = "rejected" => offers[f].versions[m].sent # None
      BY DEF AllOrderly, Orderly
    <2>8. Len(offers[f].versions) \in Nat
      BY <2>2
    <2>9. \A m \in 1..Len(vs) : vs[m].closed = "rejected" => vs[m].sent # None
      <3> TAKE m \in 1..Len(vs)
      <3>1. CASE m = Len(offers[f].versions) + 1
        BY <2>1, <2>3, <3>1
      <3>2. CASE m \in 1..Len(offers[f].versions)
        BY <2>3, <2>7, <3>2
      <3> QED
        BY <2>3, <2>8, <3>1, <3>2
    <2>10. Orderly(row)
      BY <2>6, <2>9 DEF Orderly
    <2> QED
      BY <2>5, <2>10, OneRowStaysOrderly
  <1>3. ASSUME NEW f \in Offers, NEW n \in Numbers(f), NEW at \in Days,
               RecordSent(f, n, at)
        PROVE  AllOrderly'
    <2> DEFINE w == [offers[f].versions[n] EXCEPT !.sent = at]
    <2>1. offers[f].versions[n] \in OfferVersion
      BY DEF OfferInv, OfferRow, Numbers
    <2>2. w \in OfferVersion /\ w.closed = offers[f].versions[n].closed
      BY <2>1 DEF OfferVersion
    <2>3. offers[f].versions[n].closed # "rejected" /\ offers[f].accepted = 0
      BY <1>3 DEF RecordSent, State, Undecided, Numbers
    <2>4. offers' = [offers EXCEPT ![f] = [offers[f] EXCEPT !.versions =
                       [offers[f].versions EXCEPT ![n] = w]]]
      BY <1>3 DEF RecordSent
    <2> HIDE DEF w
    <2> QED
      BY <2>2, <2>3, <2>4, EvidenceIsOrderly
  <1>4. ASSUME NEW f \in Offers, NEW n \in Numbers(f), NEW at \in Days,
               RecordAcceptance(f, n, at)
        PROVE  AllOrderly'
    <2> DEFINE row == [offers[f] EXCEPT !.accepted = n]
               vs  == offers[f].versions
    <2>1. offers[f] \in OfferRow /\ vs \in Seq(OfferVersion)
      BY DEF OfferInv, OfferRow
    <2>2. row.versions = vs /\ row.accepted = n
      BY <2>1 DEF OfferRow
    <2>3. /\ offers[f].accepted = 0
          /\ State(f, n) = "Sent"
          /\ ~ HasNewerOpenVersion(f, n)
      BY <1>4 DEF RecordAcceptance, AllowsAcceptance, Undecided
    <2>4. \A m \in Numbers(f) : /\ m \in Nat /\ m # 0
                                /\ vs[m].closed \in {"no", "rejected", "withdrawn"}
      <3> TAKE m \in Numbers(f)
      <3>1. m \in 1..Len(vs)
        BY DEF Numbers
      <3>2. m \in Nat /\ m # 0
        BY <2>1, <3>1
      <3>3. vs[m] \in OfferVersion
        BY <2>1, <3>1
      <3> QED
        BY <3>2, <3>3 DEF OfferVersion
    <2>5. vs[n].closed = "no" /\ vs[n].sent # None
      BY <2>3, <2>4 DEF State, Sent
    <2>6. \A m \in Numbers(f) : m > n => ~ (vs[m].sent # None)
      BY <2>3, <2>4 DEF State, Sent
    <2>7. ASSUME NEW m \in Numbers(f), m > n
          PROVE  vs[m].closed = "withdrawn"
      <3>1. vs[m].closed # "rejected"
        BY <2>6, <2>7 DEF AllOrderly, Orderly, Numbers
      <3>2. vs[m].closed # "no"
        BY <2>3, <2>4, <2>6, <2>7 DEF HasNewerOpenVersion, State, Sent
      <3> QED
        BY <2>4, <3>1, <3>2
    <2>8. \A m \in Numbers(f) : vs[m].closed = "rejected" => vs[m].sent # None
      BY DEF AllOrderly, Orderly, Numbers
    <2>9. offers' = [offers EXCEPT ![f] = row]
      BY <1>4 DEF RecordAcceptance
    <2> HIDE DEF row, vs
    <2>10. Numbers(f) = 1..Len(vs)
      BY DEF Numbers, vs
    <2>11. Orderly(row)
      BY <2>2, <2>5, <2>6, <2>7, <2>8, <2>10 DEF Orderly
    <2> QED
      BY <2>9, <2>11, OneRowStaysOrderly
  <1>5. ASSUME NEW f \in Offers, NEW n \in Numbers(f),
               RecordRejection(f, n) \/ RecordWithdrawal(f, n)
        PROVE  AllOrderly'
    <2>1. offers[f].accepted = 0
      BY <1>5 DEF RecordRejection, RecordWithdrawal, Undecided
    <2>2. PICK c \in {"rejected", "withdrawn"} :
            /\ offers' = [offers EXCEPT ![f].versions[n].closed = c]
            /\ c = "rejected" => State(f, n) = "Sent"
      BY <1>5 DEF RecordRejection, RecordWithdrawal
    <2> DEFINE w == [offers[f].versions[n] EXCEPT !.closed = c]
    <2>3. offers[f].versions[n] \in OfferVersion
      BY DEF OfferInv, OfferRow, Numbers
    <2>4. /\ w \in OfferVersion
          /\ w.closed = c
          /\ w.sent = offers[f].versions[n].sent
      BY <2>3 DEF OfferVersion
    <2>5. c = "rejected" => offers[f].versions[n].sent # None
      BY <2>1, <2>2 DEF State, Sent, Numbers
    <2>6. offers' = [offers EXCEPT ![f] = [offers[f] EXCEPT !.versions =
                       [offers[f].versions EXCEPT ![n] = w]]]
      BY <2>2
    <2> HIDE DEF w
    <2> QED
      BY <2>1, <2>4, <2>5, <2>6, EvidenceIsOrderly
  <1>6. CASE UNCHANGED offers
    BY <1>6 DEF AllOrderly, Orderly
  <1>7. ASSUME NEW f \in Offers, NEW m \in Methods,
               \/ ReplayConversion(f, m)
               \/ \E o \in Orders, v \in Versions, a \in Optional(Addresses) :
                    ConvertAccepted(f, o, v, a, m)
        PROVE  UNCHANGED offers
    BY <1>7 DEF ReplayConversion, ConvertAccepted
  <1>8. OfferNext => AllOrderly'
    BY <1>1, <1>2, <1>3, <1>4, <1>5, <1>6, <1>7 DEF OfferNext
  <1>9. InquiryNext => UNCHANGED offers
    BY DEF InquiryNext, UpdateInquiry, VerifyInquiry, CompleteContact, SetDelivery
  <1>10. OrderStep \/ NextDay \/ UNCHANGED offerVars => UNCHANGED offers
    BY DEF OrderStep, NextDay, offerVars
  <1>11. ASSUME NEW o \in Orders, PurgeConverted(o) \/ \E m \in Methods : ChangeMethod(o, m)
         PROVE  UNCHANGED offers
    BY <1>11 DEF PurgeConverted, ChangeMethod
  <1> QED
    BY <1>6, <1>8, <1>9, <1>10, <1>11 DEF CommerceNext

-----------------------------------------------------------------------------
(* Types. *)

\* The rows beside inquiries and offers.
LinksAreTyped ==
    /\ links \in [Offers -> Optional(Orders)]
    /\ methods \in [Orders -> Optional(Methods)]
    /\ today \in Days

LEMMA CommerceKeepsLinks ==
    ASSUME LinksAreTyped, [CommerceNext]_offerVars
    PROVE  LinksAreTyped'
PROOF
  <1>1. CASE UNCHANGED <<links, methods, today>>
    BY <1>1 DEF LinksAreTyped
  <1>2. ASSUME NEW f \in Offers, NEW o \in Orders, NEW v \in Versions,
               NEW a \in Optional(Addresses), NEW m \in Methods,
               ConvertAccepted(f, o, v, a, m)
        PROVE  LinksAreTyped'
    BY <1>2 DEF ConvertAccepted, LinksAreTyped, Optional
  <1>3. ASSUME NEW f \in Offers, NEW m \in Methods, ReplayConversion(f, m)
        PROVE  LinksAreTyped'
    BY <1>3 DEF ReplayConversion, LinksAreTyped, Optional
  <1>4. ASSUME NEW f \in Offers, NEW n \in Numbers(f),
               \/ \E at \in Days : RecordSent(f, n, at) \/ RecordAcceptance(f, n, at)
               \/ RecordRejection(f, n)
               \/ RecordWithdrawal(f, n)
        PROVE  UNCHANGED <<links, methods, today>>
    BY <1>4 DEF RecordSent, RecordAcceptance, RecordRejection, RecordWithdrawal,
                OrdersUnchanged
  <1>5. ASSUME NEW f \in Offers, NEW v \in Snapshots,
               \/ \E i \in Inquiries : PrepareOffer(f, i, v)
               \/ \E n \in 1..MaxOfferVersions : PrepareNext(f, v, n)
        PROVE  UNCHANGED <<links, methods, today>>
    BY <1>5 DEF PrepareOffer, PrepareNext, OrdersUnchanged
  <1>6. OfferNext => LinksAreTyped'
    BY <1>1, <1>2, <1>3, <1>4, <1>5 DEF OfferNext
  <1>7. InquiryNext => UNCHANGED <<links, methods, today>>
    BY DEF InquiryNext, UpdateInquiry, VerifyInquiry, CompleteContact, SetDelivery,
           OrdersUnchanged
  <1>8. OrderStep \/ UNCHANGED offerVars => UNCHANGED <<links, methods, today>>
    BY DEF OrderStep, offerVars
  <1>9. ASSUME NEW o \in Orders, PurgeConverted(o) PROVE LinksAreTyped'
    BY <1>9 DEF PurgeConverted, LinksAreTyped, Optional
  <1>10. ASSUME NEW o \in Orders, NEW m \in Methods, ChangeMethod(o, m)
         PROVE  LinksAreTyped'
    BY <1>10 DEF ChangeMethod, LinksAreTyped, Optional
  <1>11. NextDay => LinksAreTyped'
    BY CalendarAssumption DEF NextDay, OrdersUnchanged, LinksAreTyped, Days
  <1> QED
    BY <1>1, <1>6, <1>7, <1>8, <1>9, <1>10, <1>11 DEF CommerceNext

\* Every row of the commercial side has the columns its table declares: no
\* evidence without its offer, no version rejected and withdrawn at once.
THEOREM CommerceTypeCorrectness == CommerceSpec => []OfferTypeOK
PROOF
  <1>1. OfferInit => LinksAreTyped
    BY CalendarAssumption DEF OfferInit, LinksAreTyped, Optional, Days
  <1>2. LinksAreTyped /\ [CommerceNext]_offerVars => LinksAreTyped'
    BY CommerceKeepsLinks
  <1>3. OfferInv /\ LinksAreTyped => OfferTypeOK
    BY DEF OfferInv, LinksAreTyped, OfferTypeOK
  <1> QED
    BY <1>1, <1>2, <1>3, OfferInvariance, PTL DEF CommerceSpec

\* An acceptance is about the last word of the office, and no command ever adds
\* anything to the offer after it.
THEOREM AnAcceptanceIsTheEnd == CommerceSpec => AcceptanceIsFinal
PROOF
  <1>1. OfferInit => AllOrderly
    BY DEF OfferInit, NoOffer, AllOrderly, Orderly
  <1>2. OfferInv /\ AllOrderly /\ [CommerceNext]_offerVars => AllOrderly'
    BY CommerceKeepsOrderly
  <1>3. AllOrderly => AcceptedIsTheLastWord
    BY DEF AllOrderly, Orderly, AcceptedIsTheLastWord, Sent, Numbers
  <1> QED
    BY <1>1, <1>2, <1>3, OfferInvariance, AcceptedOfferIsClosed, CommerceTypeCorrectness, PTL
    DEF CommerceSpec, AcceptanceIsFinal

-----------------------------------------------------------------------------
(* The stage of the inquiry. *)

\* Only a conversion makes an order active; no step moves an order to another
\* inquiry.
LEMMA ActiveOrdersStay ==
    ASSUME TypeOK, NEW o \in Orders, orders'[o].state = "active",
           \/ ChangeNext
           \/ \E p \in Orders, v \in Versions : AcknowledgePrint(p, v)
           \/ \E p \in Orders : PurgeOrder(p)
           \/ UNCHANGED coreVars
    PROVE  Active(o) /\ orders'[o].inquiry = orders[o].inquiry
PROOF
  <1>1. orders \in [Orders -> OrderRow]
    BY DEF TypeOK
  <1>2. CASE orders'[o] = orders[o]
    BY <1>2 DEF Active
  <1>3. ASSUME NEW p \in Orders, NEW row, Active(p), row.inquiry = orders[p].inquiry,
               orders' = [orders EXCEPT ![p] = row]
        PROVE  Active(o) /\ orders'[o].inquiry = orders[o].inquiry
    <2>1. CASE p = o
      BY <1>1, <1>3, <2>1
    <2>2. CASE p # o
      BY <1>1, <1>2, <1>3, <2>2
    <2> QED
      BY <2>1, <2>2
  <1>4. ASSUME NEW p \in Orders, NEW c, Active(p),
               orders' = [orders EXCEPT ![p].candidate = c]
        PROVE  Active(o) /\ orders'[o].inquiry = orders[o].inquiry
    <2>1. [orders[p] EXCEPT !.candidate = c].inquiry = orders[p].inquiry
      BY <1>1 DEF OrderRow
    <2> QED
      BY <1>3, <1>4, <2>1
  <1>5. ASSUME NEW p \in Orders, NEW v \in Versions, NEW f \in Facts,
               ProposeChange(p, v, f)
        PROVE  Active(o) /\ orders'[o].inquiry = orders[o].inquiry
    BY <1>4, <1>5 DEF ProposeChange, AppendVersion
  <1>6. ASSUME NEW p \in Orders, NEW v \in Versions, NEW w \in Versions,
               NEW a \in Addresses, ProposeAddress(p, v, w, a)
        PROVE  Active(o) /\ orders'[o].inquiry = orders[o].inquiry
    BY <1>4, <1>6 DEF ProposeAddress, AppendVersion
  <1>7. ASSUME NEW p \in Orders, NEW v \in Versions, AcknowledgePrint(p, v)
        PROVE  Active(o) /\ orders'[o].inquiry = orders[o].inquiry
    <2>1. ActivatedByPrint(orders[p], v).inquiry = orders[p].inquiry
      BY <1>1 DEF ActivatedByPrint, OrderRow
    <2>2. Active(p) /\ orders' = [orders EXCEPT ![p] = ActivatedByPrint(orders[p], v)]
      BY <1>7 DEF AcknowledgePrint
    <2> QED
      BY <1>3, <2>1, <2>2
  <1>8. ASSUME NEW p \in Orders, NEW v \in Versions, MakeEffective(p, v)
        PROVE  Active(o) /\ orders'[o].inquiry = orders[o].inquiry
    <2> DEFINE row == [orders[p] EXCEPT !.effective = v, !.candidate = None]
    <2>1. row.inquiry = orders[p].inquiry
      BY <1>1 DEF OrderRow
    <2>2. orders' = [orders EXCEPT ![p] = row]
      BY <1>1, <1>8 DEF MakeEffective
    <2>3. Active(p)
      BY <1>8 DEF MakeEffective
    <2> HIDE DEF row
    <2> QED
      BY <1>3, <2>1, <2>2, <2>3
  <1>9. ASSUME NEW p \in Orders, CancelOrder(p)
        PROVE  Active(o) /\ orders'[o].inquiry = orders[o].inquiry
    <2>1. [orders[p] EXCEPT !.state = "cancelled"].inquiry = orders[p].inquiry
      BY <1>1 DEF OrderRow
    <2> QED
      BY <1>3, <1>9, <2>1 DEF CancelOrder
  <1>10. ASSUME NEW p \in Orders, PauseOrder(p) \/ ResumeOrder(p)
         PROVE  orders'[o] = orders[o]
    BY <1>10 DEF PauseOrder, ResumeOrder
  <1>11. ASSUME NEW p \in Orders, PurgeOrder(p)
         PROVE  orders'[o] = orders[o]
    <2>1. orders' = [orders EXCEPT ![p] = [NoOrder EXCEPT !.state = "purged"]]
      BY <1>11 DEF PurgeOrder
    <2>2. p # o
      BY <1>1, <2>1 DEF NoOrder
    <2> QED
      BY <1>1, <2>1, <2>2
  <1>12. UNCHANGED coreVars => orders'[o] = orders[o]
    BY DEF coreVars
  <1> QED
    BY <1>2, <1>5, <1>6, <1>7, <1>8, <1>9, <1>10, <1>11, <1>12 DEF ChangeNext

LEMMA CommerceKeepsStage ==
    ASSUME TypeOK, OfferInv, StageFollowsOrder, [CommerceNext]_offerVars
    PROVE  StageFollowsOrder'
PROOF
  <1> SUFFICES ASSUME NEW i \in Inquiries, NEW o \in Orders,
                      orders'[o].state = "active", orders'[o].inquiry = i
               PROVE  inquiries'[i].stage = "order"
    BY DEF StageFollowsOrder, HasActiveOrder, Active
  <1> DEFINE Was == Active(o) /\ orders[o].inquiry = i
  <1>1. Was => inquiries[i].stage = "order"
    BY DEF StageFollowsOrder, HasActiveOrder
  <1>2. inquiries \in [Inquiries -> InquiryRow]
    BY DEF OfferInv
  <1>3. UNCHANGED coreVars => Was
    BY ActiveOrdersStay
  <1>4. ASSUME inquiries' = inquiries, Was PROVE inquiries'[i].stage = "order"
    BY <1>1, <1>4
  <1>5. ASSUME NEW j, inquiries' = [inquiries EXCEPT ![j].stage = "order"], Was
        PROVE  inquiries'[i].stage = "order"
    <2>1. CASE i = j
      BY <1>2, <1>5, <2>1 DEF InquiryRow
    <2>2. CASE i # j
      BY <1>1, <1>2, <1>5, <2>2
    <2> QED
      BY <2>1, <2>2
  <1>6. ASSUME NEW j \in Inquiries, NEW s, UpdateInquiry(j, s)
        PROVE  inquiries'[i].stage = "order"
    <2>1. Was
      BY <1>3, <1>6 DEF UpdateInquiry, OrdersUnchanged, coreVars
    <2>2. inquiries' = [inquiries EXCEPT ![j].stage = s]
      BY <1>6 DEF UpdateInquiry
    <2>3. CASE i = j
      <3>1. s = "order"
        BY <1>6, <2>1, <2>3 DEF UpdateInquiry, HasActiveOrder
      <3> QED
        BY <1>5, <2>1, <2>2, <3>1
    <2>4. CASE i # j
      BY <1>1, <1>2, <2>1, <2>2, <2>4
    <2> QED
      BY <2>3, <2>4
  <1>7. ASSUME NEW j \in Inquiries,
               \/ VerifyInquiry(j)
               \/ CompleteContact(j)
               \/ \E resolved \in BOOLEAN : SetDelivery(j, resolved)
        PROVE  inquiries'[i].stage = "order"
    <2>1. Was
      BY <1>3, <1>7 DEF VerifyInquiry, CompleteContact, SetDelivery, OrdersUnchanged, coreVars
    <2>2. inquiries'[i].stage = inquiries[i].stage
      BY <1>2, <1>7 DEF VerifyInquiry, CompleteContact, SetDelivery, InquiryRow
    <2> QED
      BY <1>1, <2>1, <2>2
  <1>8. ASSUME NEW f \in Offers, NEW p \in Orders, NEW v \in Versions,
               NEW a \in Optional(Addresses), NEW m \in Methods,
               ConvertAccepted(f, p, v, a, m)
        PROVE  inquiries'[i].stage = "order"
    <2> DEFINE j == offers[f].inquiry
    <2>1. /\ j \in Inquiries
          /\ inquiries' = [inquiries EXCEPT ![j].stage = "order"]
          /\ CreateOrder(p, v, j, InitialRow(f, a))
      BY <1>8, ConversionCreatesOrder DEF ConvertAccepted
    <2>2. orders' = [orders EXCEPT ![p] = [NoOrder EXCEPT !.state = "active",
                                                          !.inquiry = j]]
      BY <2>1 DEF CreateOrder
    <2>3. CASE o = p
      <3>1. orders'[o] = [NoOrder EXCEPT !.state = "active", !.inquiry = j]
        BY <2>2, <2>3 DEF TypeOK
      <3>2. i = j
        BY <3>1 DEF NoOrder
      <3> QED
        BY <1>2, <2>1, <3>2 DEF InquiryRow
    <2>4. CASE o # p
      <3>1. orders'[o] = orders[o]
        BY <2>2, <2>4 DEF TypeOK
      <3> QED
        BY <1>5, <2>1, <3>1 DEF Active
    <2> QED
      BY <2>3, <2>4
  <1>9. ASSUME NEW f \in Offers, NEW m \in Methods, ReplayConversion(f, m)
        PROVE  inquiries'[i].stage = "order"
    <2>1. Was
      BY <1>3, <1>9 DEF ReplayConversion, coreVars
    <2>2. inquiries' = [inquiries EXCEPT ![offers[f].inquiry].stage = "order"]
      BY <1>9 DEF ReplayConversion
    <2> QED
      BY <1>5, <2>1, <2>2
  <1>10. ASSUME NEW f \in Offers, NEW n \in Numbers(f),
                \/ \E at \in Days : RecordSent(f, n, at) \/ RecordAcceptance(f, n, at)
                \/ RecordRejection(f, n)
                \/ RecordWithdrawal(f, n)
         PROVE  inquiries'[i].stage = "order"
    <2>1. inquiries' = inquiries /\ UNCHANGED coreVars
      BY <1>10 DEF RecordSent, RecordAcceptance, RecordRejection, RecordWithdrawal,
                   OrdersUnchanged, coreVars
    <2> QED
      BY <1>3, <1>4, <2>1
  <1>11. ASSUME NEW f \in Offers, NEW v \in Snapshots,
                \/ \E j \in Inquiries : PrepareOffer(f, j, v)
                \/ \E n \in 1..MaxOfferVersions : PrepareNext(f, v, n)
         PROVE  inquiries'[i].stage = "order"
    <2>1. inquiries' = inquiries /\ UNCHANGED coreVars
      BY <1>11 DEF PrepareOffer, PrepareNext, OrdersUnchanged, coreVars
    <2> QED
      BY <1>3, <1>4, <2>1
  <1>12. CASE OfferNext
    BY <1>8, <1>9, <1>10, <1>11, <1>12 DEF OfferNext
  <1>13. CASE InquiryNext
    BY <1>6, <1>7, <1>13 DEF InquiryNext
  <1>14. CASE OrderStep
    <2>1. inquiries' = inquiries
      BY <1>14 DEF OrderStep
    <2>2. Was
      BY <1>14, ActiveOrdersStay DEF OrderStep
    <2> QED
      BY <1>4, <2>1, <2>2
  <1>15. ASSUME NEW p \in Orders, PurgeConverted(p)
         PROVE  inquiries'[i].stage = "order"
    <2>1. inquiries' = inquiries /\ PurgeOrder(p)
      BY <1>15 DEF PurgeConverted
    <2>2. Was
      BY <2>1, ActiveOrdersStay
    <2> QED
      BY <1>4, <2>1, <2>2
  <1>16. ASSUME NEW p \in Orders, NEW m \in Methods, ChangeMethod(p, m)
         PROVE  inquiries'[i].stage = "order"
    <2>1. inquiries' = inquiries /\ UNCHANGED coreVars
      BY <1>16 DEF ChangeMethod, coreVars
    <2> QED
      BY <1>3, <1>4, <2>1
  <1>17. CASE NextDay \/ UNCHANGED offerVars
    <2>1. inquiries' = inquiries /\ UNCHANGED coreVars
      BY <1>17 DEF NextDay, OrdersUnchanged, offerVars, coreVars
    <2> QED
      BY <1>3, <1>4, <2>1
  <1> QED
    BY <1>12, <1>13, <1>14, <1>15, <1>16, <1>17 DEF CommerceNext

\* The inquiry of an active order stands at "Bestätigt / Auftrag", in every
\* order of conversions, replays, Storno, deletions and edits of the stage.
THEOREM ActiveOrderHasItsStage == CommerceSpec => []StageFollowsOrder
PROOF
  <1>1. OfferInit => StageFollowsOrder
    BY DEF OfferInit, Init, NoOrder, StageFollowsOrder, HasActiveOrder, Active
  <1>2. TypeOK /\ OfferInv /\ StageFollowsOrder /\ [CommerceNext]_offerVars
          => StageFollowsOrder'
    BY CommerceKeepsStage
  <1>3. CommerceSpec => []TypeOK
    BY CommerceImplementsCore, OfficeUsesTheServices, TypeCorrectness, PTL
  <1> QED
    BY <1>1, <1>2, <1>3, OfferInvariance, PTL DEF CommerceSpec

-----------------------------------------------------------------------------
(* Orders and the offers they came from. *)

\* A commercial step converts, replays, changes a payment method, purges, operates on
\* an order, or leaves orders, links and methods alone.
LEMMA CommerceCases ==
    ASSUME [CommerceNext]_offerVars
    PROVE  \/ \E f \in Offers, o \in Orders, v \in Versions, a \in Optional(Addresses),
                 m \in Methods : ConvertAccepted(f, o, v, a, m)
           \/ \E f \in Offers, m \in Methods : ReplayConversion(f, m)
           \/ \E o \in Orders, m \in Methods : ChangeMethod(o, m)
           \/ \E o \in Orders : PurgeConverted(o)
           \/ OrderStep
           \/ UNCHANGED <<orders, versions, pauses, links, methods>>
PROOF
  <1>1. ASSUME NEW f \in Offers, NEW n \in Numbers(f),
               \/ \E at \in Days : RecordSent(f, n, at) \/ RecordAcceptance(f, n, at)
               \/ RecordRejection(f, n)
               \/ RecordWithdrawal(f, n)
        PROVE  UNCHANGED <<orders, versions, pauses, links, methods>>
    BY <1>1 DEF RecordSent, RecordAcceptance, RecordRejection, RecordWithdrawal,
                OrdersUnchanged
  <1>2. ASSUME NEW f \in Offers, NEW v \in Snapshots,
               \/ \E i \in Inquiries : PrepareOffer(f, i, v)
               \/ \E n \in 1..MaxOfferVersions : PrepareNext(f, v, n)
        PROVE  UNCHANGED <<orders, versions, pauses, links, methods>>
    BY <1>2 DEF PrepareOffer, PrepareNext, OrdersUnchanged
  <1>3. InquiryNext => UNCHANGED <<orders, versions, pauses, links, methods>>
    BY DEF InquiryNext, UpdateInquiry, VerifyInquiry, CompleteContact, SetDelivery,
           OrdersUnchanged
  <1>4. NextDay \/ UNCHANGED offerVars
          => UNCHANGED <<orders, versions, pauses, links, methods>>
    BY DEF NextDay, OrdersUnchanged, offerVars
  <1>5. CASE OfferNext
    BY <1>1, <1>2, <1>5 DEF OfferNext
  <1> QED
    BY <1>3, <1>4, <1>5 DEF CommerceNext

\* The inquiry of an order and the planning facts of its first version.
Birth(o, i, f) ==
    /\ orders[o].inquiry = i
    /\ \A v \in Versions :
         Owned(o, v) /\ versions[v].number = 1 => versions[v].facts = f

\* What happens to an order afterwards touches neither.
LEMMA OperationsKeepBirths ==
    ASSUME HistoryInv,
           ChangeNext \/ \E o \in Orders, v \in Versions : AcknowledgePrint(o, v)
    PROVE  \A p \in Orders :
             /\ orders'[p].inquiry = orders[p].inquiry
             /\ Exists(p)' <=> Exists(p)
             /\ \A w \in Versions :
                  Owned(p, w)' /\ versions'[w].number = 1 =>
                    /\ Owned(p, w) /\ versions[w].number = 1
                    /\ versions'[w].facts = versions[w].facts
PROOF
  <1>0. /\ orders \in [Orders -> OrderRow] /\ versions \in [Versions -> VersionRow]
    BY DEF HistoryInv, TypeOK
  <1>1. ASSUME NEW o \in Orders, NEW v \in Versions,
               \/ \E f \in Facts : ProposeChange(o, v, f)
               \/ \E p \in Versions, a \in Addresses : ProposeAddress(o, v, p, a)
        PROVE  \A p \in Orders :
             /\ orders'[p].inquiry = orders[p].inquiry
             /\ Exists(p)' <=> Exists(p)
             /\ \A w \in Versions :
                  Owned(p, w)' /\ versions'[w].number = 1 =>
                    /\ Owned(p, w) /\ versions[w].number = 1
                    /\ versions'[w].facts = versions[w].facts
    <2>1. PICK row \in VersionRow :
             /\ Active(o) /\ AppendVersion(o, v, row, v)
             /\ row.number = LatestNumber(o) + 1
      BY <1>1, Proposals DEF Proposed
    <2>2. LatestNumber(o) \in Nat /\ LatestNumber(o) # 0
      BY <2>1 DEF HistoryInv, Gapless, Active, Exists
    <2>3. /\ versions'[v].number # 1
          /\ \A w \in Versions : w # v => versions'[w] = versions[w]
      BY <1>0, <2>1, <2>2 DEF AppendVersion
    <2>4. \A p \in Orders : /\ orders'[p].inquiry = orders[p].inquiry
                            /\ orders'[p].state = orders[p].state
      BY <1>0, <2>1 DEF AppendVersion, OrderRow
    <2> QED
      BY <2>3, <2>4 DEF Exists, Owned, Stored
  <1>2. ASSUME NEW o \in Orders,
               \/ \E v \in Versions : MakeEffective(o, v) \/ AcknowledgePrint(o, v)
               \/ CancelOrder(o) \/ PauseOrder(o) \/ ResumeOrder(o)
        PROVE  \A p \in Orders :
             /\ orders'[p].inquiry = orders[p].inquiry
             /\ Exists(p)' <=> Exists(p)
             /\ \A w \in Versions :
                  Owned(p, w)' /\ versions'[w].number = 1 =>
                    /\ Owned(p, w) /\ versions[w].number = 1
                    /\ versions'[w].facts = versions[w].facts
    <2>1. /\ \/ versions' = versions
             \/ \E v \in Versions : versions' = [versions EXCEPT ![v].confirmed = TRUE]
          /\ \A p \in Orders : /\ Exists(p)' <=> Exists(p)
                               /\ orders'[p].inquiry = orders[p].inquiry
      BY <1>2, OtherSteps DEF VersionsOf
    <2>2. \A w \in Versions : /\ versions'[w].state = versions[w].state
                              /\ versions'[w].order = versions[w].order
                              /\ versions'[w].number = versions[w].number
                              /\ versions'[w].facts = versions[w].facts
      BY <1>0, <2>1 DEF VersionRow
    <2> QED
      BY <2>1, <2>2 DEF Owned, Stored
  <1> QED
    BY <1>1, <1>2 DEF ChangeNext

\* ConversionIsWhole, offer by offer.
LinkedWhole(f) ==
    links[f] # None =>
        /\ Exists(links[f])
        /\ offers[f].accepted # 0
        /\ Birth(links[f], offers[f].inquiry, InitialRow(f, None).facts)
        /\ \A g \in Offers : links[g] = links[f] => g = f

OrderIsLinked(o) ==
    /\ Exists(o) => \E f \in Offers : links[f] = o
    /\ Exists(o) <=> methods[o] # None

LinksInv ==
    /\ LinksAreTyped
    /\ \A f \in Offers : LinkedWhole(f)
    /\ \A o \in Orders : OrderIsLinked(o)

LEMMA LinksInvIsWhole == LinksInv => ConversionIsWhole
PROOF
  <1> SUFFICES ASSUME LinksInv, NEW o \in Orders
      PROVE  /\ Exists(o) <=> \E f \in Offers : links[f] = o
             /\ Exists(o) <=> methods[o] # None
             /\ \A f \in Offers : links[f] = o =>
                  /\ offers[f].inquiry = orders[o].inquiry
                  /\ offers[f].accepted # 0
                  /\ \A g \in Offers : links[g] = o => g = f
                  /\ \A v \in VersionsOf(o) : versions[v].number = 1 =>
                       versions[v].facts = InitialRow(f, None).facts
    BY DEF ConversionIsWhole
  <1>1. o # None
    BY NoneAssumption
  <1> QED
    BY <1>1 DEF LinksInv, LinkedWhole, OrderIsLinked, Birth, VersionsOf

\* A conversion writes order, link and method of one offer.
LEMMA ConvertKeepsLinks ==
    ASSUME HistoryInv, OfferInv, LinksInv, LinksAreTyped',
           NEW f \in Offers, NEW o \in Orders, NEW v \in Versions,
           NEW a \in Optional(Addresses), NEW m \in Methods,
           ConvertAccepted(f, o, v, a, m)
    PROVE  LinksInv'
PROOF
  <1> DEFINE i == offers[f].inquiry
             x == InitialRow(f, None).facts
  <1>1. /\ orders \in [Orders -> OrderRow] /\ versions \in [Versions -> VersionRow]
        /\ links \in [Offers -> Optional(Orders)] /\ methods \in [Orders -> Optional(Methods)]
    BY DEF HistoryInv, TypeOK, LinksInv, LinksAreTyped
  <1>2. /\ offers[f].accepted # 0 /\ links[f] = None
        /\ orders[o].state = "unborn" /\ versions[v].state = "unborn"
        /\ orders' = [orders EXCEPT ![o] = [NoOrder EXCEPT !.state = "active",
                                                           !.inquiry = i]]
        /\ links' = [links EXCEPT ![f] = o]
        /\ methods' = [methods EXCEPT ![o] = m]
        /\ offers' = offers
    BY DEF ConvertAccepted, MayConvert, CreateOrder
  <1>3. /\ versions'[v].state = "stored" /\ versions'[v].order = o
        /\ versions'[v].number = 1 /\ versions'[v].facts = x
        /\ \A w \in Versions : w # v => versions'[w] = versions[w]
    BY <1>1 DEF ConvertAccepted, CreateOrder, InitialRow
  <1>4. /\ orders'[o].state = "active" /\ orders'[o].inquiry = i
        /\ \A p \in Orders : p # o => orders'[p] = orders[p]
    BY <1>1, <1>2 DEF NoOrder
  <1>5. /\ links'[f] = o /\ \A g \in Offers : g # f => links'[g] = links[g]
        /\ methods'[o] = m /\ \A p \in Orders : p # o => methods'[p] = methods[p]
        /\ o # None /\ m # None
    BY <1>1, <1>2, NoneAssumption, NoOfferAssumption
  <1>6. \A w \in Versions : ~ Owned(o, w)
    BY <1>2 DEF HistoryInv, VersionsHaveOwners, Owned, Exists
  <1>7. \A g \in Offers : links[g] # o
    BY <1>2, <1>5 DEF LinksInv, LinkedWhole, Exists
  <1>8. \A w \in Versions : Owned(o, w)' => w = v
    BY <1>3, <1>6 DEF Owned, Stored
  <1>9. \A p \in Orders : p # o =>
          \A w \in Versions : Owned(p, w)' =>
            Owned(p, w) /\ versions'[w] = versions[w]
    BY <1>3 DEF Owned, Stored
  <1>10. ASSUME NEW g \in Offers  PROVE LinkedWhole(g)'
    <2>1. InitialRow(g, None)' = InitialRow(g, None)
      BY <1>2 DEF InitialRow
    <2>2. CASE g = f
      <3>1. Exists(o)' /\ \A h \in Offers : links'[h] = o => h = f
        BY <1>4, <1>5, <1>7 DEF Exists
      <3>2. Birth(o, i, x)'
        BY <1>2, <1>3, <1>4, <1>8, <2>1, <2>2 DEF Birth
      <3> QED
        BY <1>2, <1>5, <2>2, <3>1, <3>2 DEF LinkedWhole
    <2>3. CASE g # f
      <3>1. SUFFICES ASSUME NEW p, p = links[g], p # None  PROVE LinkedWhole(g)'
        BY <1>5, <2>3 DEF LinkedWhole
      <3>2. p \in Orders /\ p # o /\ LinkedWhole(g)
        BY <1>1, <1>7, <3>1 DEF Optional, LinksInv
      <3>3. links'[g] = p /\ Exists(p)' /\ offers'[g].accepted # 0
        BY <1>2, <1>4, <1>5, <2>3, <3>1, <3>2 DEF LinkedWhole, Exists
      <3>4. \A h \in Offers : links'[h] = p => h = g
        BY <1>5, <3>1, <3>2 DEF LinkedWhole
      <3>5. /\ orders'[p].inquiry = offers'[g].inquiry
            /\ \A w \in Versions : Owned(p, w)' /\ versions'[w].number = 1 =>
                 versions'[w].facts = InitialRow(g, None)'.facts
        BY <1>2, <1>4, <1>9, <2>1, <3>1, <3>2 DEF LinkedWhole, Birth
      <3> QED
        BY <3>3, <3>4, <3>5 DEF LinkedWhole, Birth
    <2> QED
      BY <2>2, <2>3
  <1>11. ASSUME NEW p \in Orders  PROVE OrderIsLinked(p)'
    <2>1. CASE p = o
      BY <1>4, <1>5, <2>1 DEF OrderIsLinked, Exists
    <2>2. CASE p # o
      <3>1. (Exists(p)' <=> Exists(p)) /\ methods'[p] = methods[p] /\ OrderIsLinked(p)
        BY <1>4, <1>5, <2>2 DEF Exists, LinksInv
      <3>2. \A g \in Offers : links[g] = p => links'[g] = p
        BY <1>2, <1>5, NoneAssumption
      <3> QED
        BY <3>1, <3>2 DEF OrderIsLinked
    <2> QED
      BY <2>1, <2>2
  <1> QED
    BY <1>10, <1>11 DEF LinksInv

\* A purge takes link and method with the order.
LEMMA PurgeKeepsLinks ==
    ASSUME HistoryInv, LinksInv, LinksAreTyped', NEW o \in Orders, PurgeConverted(o)
    PROVE  LinksInv'
PROOF
  <1>1. /\ orders \in [Orders -> OrderRow] /\ versions \in [Versions -> VersionRow]
        /\ links \in [Offers -> Optional(Orders)] /\ methods \in [Orders -> Optional(Methods)]
    BY DEF HistoryInv, TypeOK, LinksInv, LinksAreTyped
  <1>2. /\ orders' = [orders EXCEPT ![o] = [NoOrder EXCEPT !.state = "purged"]]
        /\ versions' = [v \in Versions |->
                          IF Owned(o, v) THEN [NoVersion EXCEPT !.state = "purged"]
                                         ELSE versions[v]]
        /\ links' = [f \in Offers |-> IF links[f] = o THEN None ELSE links[f]]
        /\ methods' = [methods EXCEPT ![o] = None]
        /\ offers' = offers
    BY DEF PurgeConverted, PurgeOrder
  <1>3. /\ orders'[o].state = "purged" /\ methods'[o] = None
        /\ \A p \in Orders : p # o => orders'[p] = orders[p] /\ methods'[p] = methods[p]
        /\ \A f \in Offers : links'[f] # o
        /\ \A f \in Offers : links[f] # o => links'[f] = links[f]
        /\ \A f \in Offers : links'[f] # None => links'[f] = links[f] /\ links[f] # o
    BY <1>1, <1>2, NoneAssumption DEF NoOrder
  <1>4. \A p \in Orders : p # o =>
          \A w \in Versions : Owned(p, w)' =>
            Owned(p, w) /\ versions'[w] = versions[w]
    BY <1>2 DEF Owned, Stored, NoVersion
  <1>5. ASSUME NEW g \in Offers, links'[g] # None  PROVE LinkedWhole(g)'
    <2>0. PICK p : p = links[g]
      OBVIOUS
    <2>1. p \in Orders /\ p # o /\ p # None /\ links'[g] = p /\ LinkedWhole(g)
      BY <1>1, <1>3, <1>5, <2>0 DEF Optional, LinksInv
    <2>2. Exists(p)' /\ offers'[g].accepted # 0
      BY <1>2, <1>3, <2>0, <2>1 DEF LinkedWhole, Exists
    <2>3. \A h \in Offers : links'[h] = p => h = g
      BY <1>3, <2>0, <2>1 DEF LinkedWhole
    <2>4. InitialRow(g, None)' = InitialRow(g, None)
      BY <1>2 DEF InitialRow
    <2>5. /\ orders'[p].inquiry = offers'[g].inquiry
          /\ \A w \in Versions : Owned(p, w)' /\ versions'[w].number = 1 =>
               versions'[w].facts = InitialRow(g, None)'.facts
      <3>1. Birth(p, offers[g].inquiry, InitialRow(g, None).facts)
        BY <2>0, <2>1 DEF LinkedWhole
      <3>2. orders'[p] = orders[p] /\ offers'[g] = offers[g]
        BY <1>2, <1>3, <2>1
      <3>3. \A w \in Versions : Owned(p, w)' =>
              Owned(p, w) /\ versions'[w] = versions[w]
        BY <1>4, <2>1
      <3> QED
        BY <2>4, <3>1, <3>2, <3>3 DEF Birth
    <2> QED
      BY <2>1, <2>2, <2>3, <2>5 DEF LinkedWhole, Birth
  <1>6. ASSUME NEW p \in Orders  PROVE OrderIsLinked(p)'
    <2>1. CASE p = o
      BY <1>3, <2>1 DEF OrderIsLinked, Exists
    <2>2. CASE p # o
      <3>1. (Exists(p)' <=> Exists(p)) /\ methods'[p] = methods[p] /\ OrderIsLinked(p)
        BY <1>3, <2>2 DEF Exists, LinksInv
      <3>2. \A g \in Offers : links[g] = p => links'[g] = p
        BY <1>3, <2>2
      <3> QED
        BY <3>1, <3>2 DEF OrderIsLinked
    <2> QED
      BY <2>1, <2>2
  <1>7. \A g \in Offers : LinkedWhole(g)'
    BY <1>5 DEF LinkedWhole
  <1> QED
    BY <1>6, <1>7 DEF LinksInv

\* The other steps keep links and births; a method they write belongs to an order.
LEMMA RestKeepsLinks ==
    ASSUME OfferInv, LinksInv, LinksAreTyped', [CommerceNext]_offerVars,
           links' = links,
           \A p \in Orders :
             /\ orders'[p].inquiry = orders[p].inquiry
             /\ Exists(p)' <=> Exists(p)
             /\ methods'[p] # None <=> methods[p] # None
             /\ \A w \in Versions :
                  Owned(p, w)' /\ versions'[w].number = 1 =>
                    /\ Owned(p, w) /\ versions[w].number = 1
                    /\ versions'[w].facts = versions[w].facts
    PROVE  LinksInv'
PROOF
  <1>1. ASSUME NEW g \in Offers, links'[g] # None  PROVE LinkedWhole(g)'
    <2>0. PICK p : p = links[g]
      OBVIOUS
    <2>1. p \in Orders /\ p # None /\ links'[g] = p /\ LinkedWhole(g)
      BY <1>1, <2>0 DEF Optional, LinksInv, LinksAreTyped
    <2>2. offers'[g] = offers[g] /\ offers[g].accepted # 0
      BY <2>0, <2>1, AcceptedRowStays DEF LinkedWhole
    <2>3. InitialRow(g, None)' = InitialRow(g, None)
      BY <2>2 DEF InitialRow
    <2>4. Exists(p)' /\ \A h \in Offers : links'[h] = p => h = g
      BY <2>0, <2>1 DEF LinkedWhole
    <2>5. /\ orders'[p].inquiry = offers'[g].inquiry
          /\ \A w \in Versions : Owned(p, w)' /\ versions'[w].number = 1 =>
               versions'[w].facts = InitialRow(g, None)'.facts
      BY <2>0, <2>1, <2>2, <2>3 DEF LinkedWhole, Birth
    <2> QED
      BY <2>1, <2>2, <2>4, <2>5 DEF LinkedWhole, Birth
  <1>2. \A g \in Offers : LinkedWhole(g)'
    BY <1>1 DEF LinkedWhole
  <1>3. \A p \in Orders : OrderIsLinked(p)'
    BY DEF LinksInv, OrderIsLinked
  <1> QED
    BY <1>2, <1>3 DEF LinksInv

LEMMA CommerceKeepsLinksWhole ==
    ASSUME HistoryInv, OfferInv, LinksInv, [CommerceNext]_offerVars
    PROVE  LinksInv'
PROOF
  <1>1. LinksAreTyped'
    BY CommerceKeepsLinks DEF LinksInv
  <1>2. CASE UNCHANGED <<orders, versions>> /\ links' = links /\
             \A p \in Orders : methods'[p] # None <=> methods[p] # None
    <2>1. \A p \in Orders : Exists(p)' <=> Exists(p)
      BY <1>2 DEF Exists
    <2>2. \A p \in Orders, w \in Versions : Owned(p, w)' <=> Owned(p, w)
      BY <1>2 DEF Owned, Stored
    <2> QED
      BY <1>1, <1>2, <2>1, <2>2, RestKeepsLinks
  <1>3. ASSUME NEW f \in Offers, NEW m \in Methods, ReplayConversion(f, m)
        PROVE  LinksInv'
    <2>1. /\ links[f] \in Orders /\ methods[links[f]] # None /\ m # None
          /\ methods' = [methods EXCEPT ![links[f]] = m]
          /\ UNCHANGED <<orders, versions, links>>
      <3>1. links[f] \in Orders
        BY <1>3 DEF ReplayConversion, LinksInv, LinksAreTyped, Optional
      <3> QED
        BY <1>3, <3>1, NoOfferAssumption, NoneAssumption
        DEF ReplayConversion, LinksInv, LinkedWhole, OrderIsLinked
    <2>2. \A p \in Orders : methods'[p] # None <=> methods[p] # None
      BY <2>1 DEF LinksInv, LinksAreTyped
    <2> QED
      BY <1>2, <2>1, <2>2
  <1>4. ASSUME NEW o \in Orders, NEW m \in Methods, ChangeMethod(o, m)
        PROVE  LinksInv'
    <2>1. /\ methods[o] # None /\ m # None
          /\ methods' = [methods EXCEPT ![o] = m]
          /\ UNCHANGED <<orders, versions, links>>
      BY <1>4, NoOfferAssumption DEF ChangeMethod
    <2>2. \A p \in Orders : methods'[p] # None <=> methods[p] # None
      BY <2>1 DEF LinksInv, LinksAreTyped
    <2> QED
      BY <1>2, <2>1, <2>2
  <1>5. CASE OrderStep
    <2>1. links' = links /\ methods' = methods
      BY <1>5 DEF OrderStep
    <2> QED
      BY <1>1, <1>5, <2>1, OperationsKeepBirths, RestKeepsLinks DEF OrderStep
  <1>6. CASE UNCHANGED <<orders, versions, pauses, links, methods>>
    BY <1>2, <1>6
  <1> QED
    BY <1>1, <1>3, <1>4, <1>5, <1>6, CommerceCases, ConvertKeepsLinks, PurgeKeepsLinks

LEMMA LinksInvariance == CommerceSpec => []LinksInv
PROOF
  <1>1. OfferInit => LinksInv
    BY CalendarAssumption DEF OfferInit, Init, NoOrder, LinksInv, LinksAreTyped,
       LinkedWhole, OrderIsLinked, Exists, Optional, Days
  <1>2. HistoryInv /\ OfferInv /\ LinksInv /\ [CommerceNext]_offerVars => LinksInv'
    BY CommerceKeepsLinksWhole
  <1>3. CommerceSpec => []HistoryInv
    BY CommerceImplementsCore, OfficeUsesTheServices, HistoryInvariance, PTL
  <1> QED
    BY <1>1, <1>2, <1>3, OfferInvariance, PTL DEF CommerceSpec

\* ConversionIsWhole for any number of orders and offers: order, link and payment method
\* are written by one conversion and deleted by one purge, and the order began with what
\* the customer accepted.
THEOREM ConversionsAreWhole == CommerceSpec => []ConversionIsWhole
PROOF
  BY LinksInvariance, LinksInvIsWhole, PTL

-----------------------------------------------------------------------------
(* The dates of the evidence, and what the panel offers. *)

\* One row of offers on the day t: nothing is recorded before it was made or for a day
\* that has not come, only the newest version can be a draft, and an offer has one.
InTime(row, t) ==
    /\ row.inquiry # None => Len(row.versions) # 0
    /\ \A n \in 1..Len(row.versions) :
         LET v == row.versions[n]
         IN  /\ v.sent # None => v.created <= v.sent /\ v.sent <= t
             /\ v.closed # "no" => v.created <= t
             /\ n < Len(row.versions) => v.sent # None \/ v.closed # "no"

\* An inquiry has one offer.
OneOfferEach ==
    \A f, g \in Offers :
        offers[f].inquiry # None /\ offers[f].inquiry = offers[g].inquiry => f = g

EvidenceInv ==
    /\ today \in Days
    /\ \A f \in Offers : InTime(offers[f], today)
    /\ OneOfferEach

LEMMA OneRowStaysInTime ==
    ASSUME OfferInv, EvidenceInv, NEW f \in Offers, NEW row, InTime(row, today),
           offers' = [offers EXCEPT ![f] = row], today' = today,
           \/ row.inquiry = offers[f].inquiry
           \/ row.inquiry # None /\ OffersOf(row.inquiry) = {}
    PROVE  EvidenceInv'
PROOF
  <1>1. \A g \in Offers : offers'[g] = IF g = f THEN row ELSE offers[g]
    BY DEF OfferInv
  <1>2. ASSUME NEW g \in Offers  PROVE InTime(offers'[g], today')
    BY <1>1 DEF EvidenceInv
  <1>3. OneOfferEach'
    <2>1. CASE row.inquiry = offers[f].inquiry
      <3>1. \A g \in Offers : offers'[g].inquiry = offers[g].inquiry
        BY <1>1, <2>1
      <3> QED
        BY <3>1 DEF EvidenceInv, OneOfferEach
    <2>2. CASE row.inquiry # None /\ OffersOf(row.inquiry) = {}
      <3>1. \A g \in Offers : offers[g].inquiry # row.inquiry
        BY <2>2 DEF OffersOf
      <3> QED
        BY <1>1, <3>1 DEF EvidenceInv, OneOfferEach
    <2> QED
      BY <2>1, <2>2
  <1> QED
    BY <1>2, <1>3 DEF EvidenceInv, InTime

LEMMA EvidenceIsInTime ==
    ASSUME OfferInv, EvidenceInv, NEW f \in Offers, NEW n \in Numbers(f),
           NEW w \in OfferVersion,
           w.sent # None => w.created <= w.sent /\ w.sent <= today,
           w.closed # "no" => w.created <= today,
           w.sent # None \/ w.closed # "no",
           today' = today,
           offers' = [offers EXCEPT ![f] =
                        [offers[f] EXCEPT !.versions =
                           [offers[f].versions EXCEPT ![n] = w]]]
    PROVE  EvidenceInv'
PROOF
  <1> DEFINE vs  == [offers[f].versions EXCEPT ![n] = w]
             row == [offers[f] EXCEPT !.versions = vs]
  <1>1. offers[f] \in OfferRow /\ offers[f].versions \in Seq(OfferVersion)
    BY DEF OfferInv, OfferRow
  <1>2. Len(vs) = Len(offers[f].versions)
    BY <1>1, ExceptSeq DEF Numbers
  <1>3. \A m \in 1..Len(offers[f].versions) :
          vs[m] = IF m = n THEN w ELSE offers[f].versions[m]
    BY <1>1
  <1> HIDE DEF vs
  <1>4. row.versions = vs /\ row.inquiry = offers[f].inquiry
    BY <1>1 DEF OfferRow
  <1> HIDE DEF row
  <1>5. InTime(offers[f], today)
    BY DEF EvidenceInv
  <1>6. InTime(row, today)
    <2>1. row.inquiry # None => Len(row.versions) # 0
      BY <1>2, <1>4, <1>5 DEF InTime
    <2>2. ASSUME NEW m \in 1..Len(row.versions)
          PROVE  LET v == row.versions[m]
                 IN  /\ v.sent # None => v.created <= v.sent /\ v.sent <= today
                     /\ v.closed # "no" => v.created <= today
                     /\ m < Len(row.versions) => v.sent # None \/ v.closed # "no"
      <3>1. CASE m = n
        <4>1. row.versions[m] = w
          BY <1>2, <1>3, <1>4, <3>1
        <4> QED
          BY <4>1
      <3>2. CASE m # n
        <4>1. row.versions[m] = offers[f].versions[m] /\ m \in 1..Len(offers[f].versions)
          BY <1>2, <1>3, <1>4, <3>2
        <4> QED
          BY <1>2, <1>4, <1>5, <4>1 DEF InTime
      <3> QED
        BY <3>1, <3>2
    <2> QED
      BY <2>1, <2>2 DEF InTime
  <1>7. offers' = [offers EXCEPT ![f] = row]
    BY DEF row, vs
  <1> QED
    BY <1>4, <1>6, <1>7, OneRowStaysInTime

\* What a version of an undecided offer is called, read off its evidence.
LEMMA StatesOfUndecided ==
    ASSUME OfferInv, today \in Days,
           NEW f \in Offers, NEW n \in Numbers(f), offers[f].accepted = 0
    PROVE  LET v == offers[f].versions[n]
           IN  /\ v \in OfferVersion
               /\ State(f, n) = "Prepared" <=> v.closed = "no" /\ v.sent = None
               /\ State(f, n) \in {"Sent", "Expired", "Superseded"} <=>
                    v.closed = "no" /\ v.sent # None
               /\ State(f, n) = "Rejected" <=> v.closed = "rejected"
               /\ State(f, n) = "Withdrawn" <=> v.closed = "withdrawn"
               /\ State(f, n) = "Sent" => today <= v.until
PROOF
  <1>1. offers[f].versions \in Seq(OfferVersion) /\ n \in 1..Len(offers[f].versions)
    BY DEF OfferInv, OfferRow, Numbers
  <1>2. PICK v \in OfferVersion : v = offers[f].versions[n]
    BY <1>1
  <1>3. n # offers[f].accepted /\ v.closed \in {"no", "rejected", "withdrawn"}
    BY <1>1, <1>2 DEF OfferVersion
  <1>4. today \in Nat /\ v.until \in Nat
    BY <1>2, CalendarAssumption DEF OfferVersion, Days
  <1>5. State(f, n) =
          IF v.closed = "rejected"  THEN "Rejected"
          ELSE IF v.closed = "withdrawn" THEN "Withdrawn"
          ELSE IF ~ (v.sent # None) THEN "Prepared"
          ELSE IF \E m \in Numbers(f) : m > n /\ Sent(f, m) THEN "Superseded"
          ELSE IF today > v.until THEN "Expired"
          ELSE "Sent"
    BY <1>2, <1>3 DEF State, Sent
  <1> QED
    BY <1>2, <1>3, <1>4, <1>5

LEMMA CommerceKeepsEvidence ==
    ASSUME OfferInv, EvidenceInv, [CommerceNext]_offerVars
    PROVE  EvidenceInv'
PROOF
  <1>0. today \in Days /\ today \in Nat /\ Days \in SUBSET Nat
    BY CalendarAssumption DEF EvidenceInv, Days
  <1>1. ASSUME NEW f \in Offers, NEW i \in Inquiries, NEW v \in Snapshots,
               PrepareOffer(f, i, v)
        PROVE  EvidenceInv'
    <2> DEFINE row == [inquiry |-> i, versions |-> <<v>>, accepted |-> 0]
    <2>1. v.closed = "no" /\ v.sent = None
      BY DEF Snapshots, NewVersion
    <2>2. InTime(row, today)
      BY <2>1 DEF InTime
    <2>3. offers' = [offers EXCEPT ![f] = row] /\ today' = today
      BY <1>1 DEF PrepareOffer
    <2>4. row.inquiry # None /\ OffersOf(row.inquiry) = {}
      BY <1>1, NoneAssumption DEF PrepareOffer, MayPrepareOffer
    <2> HIDE DEF row
    <2> QED
      BY <2>2, <2>3, <2>4, OneRowStaysInTime
  <1>2. ASSUME NEW f \in Offers, NEW v \in Snapshots,
               NEW n \in 1..MaxOfferVersions, PrepareNext(f, v, n)
        PROVE  EvidenceInv'
    <2> DEFINE vs  == Append(offers[f].versions, v)
               row == [offers[f] EXCEPT !.versions = vs]
               l == Len(offers[f].versions)
    <2>1. v \in OfferVersion /\ v.closed = "no" /\ v.sent = None
      BY DEF Snapshots, NewVersion, OfferVersion
    <2>2. offers[f] \in OfferRow /\ offers[f].versions \in Seq(OfferVersion) /\ l \in Nat
      BY DEF OfferInv, OfferRow
    <2>3. /\ Len(vs) = l + 1 /\ vs[l + 1] = v
          /\ \A m \in 1..l : vs[m] = offers[f].versions[m]
      BY <2>1, <2>2
    <2>4. /\ offers[f].accepted = 0 /\ offers[f].inquiry # None
          /\ State(f, Latest(f)) \in {"Sent", "Expired", "Rejected", "Withdrawn"}
      BY <1>2 DEF PrepareNext, MayPrepareNext, AllowsNext, Undecided, Prepared
    <2>5. offers' = [offers EXCEPT ![f] = row] /\ today' = today
      BY <1>2 DEF PrepareNext
    <2>6. InTime(offers[f], today)
      BY DEF EvidenceInv
    <2>7. l \in Numbers(f) /\ Latest(f) = l
      BY <2>2, <2>4, <2>6 DEF InTime, Numbers, Latest
    <2>8. offers[f].versions[l].sent # None \/ offers[f].versions[l].closed # "no"
      BY <1>0, <2>4, <2>7, StatesOfUndecided
    <2> HIDE DEF vs
    <2>9. row.versions = vs /\ row.inquiry = offers[f].inquiry
      BY <2>2 DEF OfferRow
    <2> HIDE DEF row, l
    <2>10. ASSUME NEW m \in 1..Len(vs)
           PROVE  /\ vs[m].sent # None => vs[m].created <= vs[m].sent /\ vs[m].sent <= today
                  /\ vs[m].closed # "no" => vs[m].created <= today
                  /\ m < Len(vs) => vs[m].sent # None \/ vs[m].closed # "no"
      <3>1. CASE m = l + 1
        BY <2>1, <2>2, <2>3, <3>1
      <3>2. CASE m # l + 1
        <4>1. m \in 1..l /\ vs[m] = offers[f].versions[m]
          BY <2>2, <2>3, <3>2
        <4>2. CASE m = l
          BY <2>6, <2>8, <4>1, <4>2 DEF InTime, l
        <4>3. CASE m # l
          <5>1. m < l
            BY <2>2, <4>1, <4>3
          <5> QED
            BY <2>6, <4>1, <5>1 DEF InTime, l
        <4> QED
          BY <4>2, <4>3
      <3> QED
        BY <3>1, <3>2
    <2>11. InTime(row, today)
      BY <2>2, <2>3, <2>9, <2>10 DEF InTime
    <2> QED
      BY <2>5, <2>9, <2>11, OneRowStaysInTime
  <1>3. ASSUME NEW f \in Offers, NEW n \in Numbers(f), NEW at \in Days,
               RecordSent(f, n, at)
        PROVE  EvidenceInv'
    <2> DEFINE w == [offers[f].versions[n] EXCEPT !.sent = at]
    <2>1. offers[f].versions[n] \in OfferVersion
      BY DEF OfferInv, OfferRow, Numbers
    <2>2. /\ w \in OfferVersion /\ w.sent = at
          /\ w.closed = offers[f].versions[n].closed
          /\ w.created = offers[f].versions[n].created
      BY <2>1 DEF OfferVersion
    <2>3. /\ offers[f].accepted = 0 /\ State(f, n) = "Prepared"
          /\ offers[f].versions[n].created <= at /\ at <= today /\ today' = today
      BY <1>3 DEF RecordSent, Undecided
    <2>4. offers[f].versions[n].closed = "no"
      BY <1>0, <2>3, StatesOfUndecided
    <2>5. offers' = [offers EXCEPT ![f] = [offers[f] EXCEPT !.versions =
                       [offers[f].versions EXCEPT ![n] = w]]]
      BY <1>3 DEF RecordSent
    <2>6. at # None
      BY CalendarAssumption DEF Days
    <2> HIDE DEF w
    <2> QED
      BY <2>2, <2>3, <2>4, <2>5, <2>6, EvidenceIsInTime
  <1>4. ASSUME NEW f \in Offers, NEW n \in Numbers(f), NEW at \in Days,
               RecordAcceptance(f, n, at)
        PROVE  EvidenceInv'
    <2> DEFINE row == [offers[f] EXCEPT !.accepted = n]
    <2>1. offers[f] \in OfferRow /\ InTime(offers[f], today)
      BY DEF OfferInv, EvidenceInv
    <2>2. row.versions = offers[f].versions /\ row.inquiry = offers[f].inquiry
      BY <2>1 DEF OfferRow
    <2>3. offers' = [offers EXCEPT ![f] = row] /\ today' = today
      BY <1>4 DEF RecordAcceptance
    <2> HIDE DEF row
    <2>4. InTime(row, today)
      BY <2>1, <2>2 DEF InTime
    <2> QED
      BY <2>2, <2>3, <2>4, OneRowStaysInTime
  <1>5. ASSUME NEW f \in Offers, NEW n \in Numbers(f),
               RecordRejection(f, n) \/ RecordWithdrawal(f, n)
        PROVE  EvidenceInv'
    <2>1. PICK c \in {"rejected", "withdrawn"} :
            offers' = [offers EXCEPT ![f].versions[n].closed = c]
      BY <1>5 DEF RecordRejection, RecordWithdrawal
    <2> DEFINE w == [offers[f].versions[n] EXCEPT !.closed = c]
    <2>2. offers[f].versions[n] \in OfferVersion /\ InTime(offers[f], today)
      BY DEF OfferInv, OfferRow, Numbers, EvidenceInv
    <2>3. /\ w \in OfferVersion /\ w.closed = c
          /\ w.sent = offers[f].versions[n].sent
          /\ w.created = offers[f].versions[n].created
      BY <2>2 DEF OfferVersion
    <2>4. offers' = [offers EXCEPT ![f] = [offers[f] EXCEPT !.versions =
                       [offers[f].versions EXCEPT ![n] = w]]]
      BY <2>1
    <2> HIDE DEF w
    <2>5. w.sent # None => w.created <= w.sent /\ w.sent <= today
      BY <2>2, <2>3 DEF InTime, Numbers
    <2>6. w.created <= today
      <3>1. w.created \in Nat /\ (w.sent # None => w.sent \in Nat)
        BY <1>0, <2>3 DEF OfferVersion
      <3>2. CASE w.sent # None
        BY <1>0, <2>5, <3>1, <3>2
      <3>3. CASE w.sent = None
        <4>1. CASE RecordRejection(f, n)
          BY <1>0, <2>3, <3>3, <4>1, StatesOfUndecided DEF RecordRejection, Undecided
        <4>2. CASE RecordWithdrawal(f, n)
          BY <1>0, <2>3, <3>1, <3>3, <4>2 DEF RecordWithdrawal, WithdrawalInTime, Sent
        <4> QED
          BY <1>5, <4>1, <4>2
      <3> QED
        BY <3>2, <3>3
    <2>7. today' = today /\ c # "no"
      BY <1>5 DEF RecordRejection, RecordWithdrawal
    <2> QED
      BY <2>3, <2>4, <2>5, <2>6, <2>7, EvidenceIsInTime
  <1>6. CASE UNCHANGED <<offers, today>>
    BY <1>6 DEF EvidenceInv, InTime, OneOfferEach
  <1>7. CASE NextDay
    <2>1. offers' = offers /\ today' = today + 1 /\ today' \in Days
      BY <1>7, <1>0, CalendarAssumption DEF NextDay, Days
    <2>2. ASSUME NEW f \in Offers  PROVE InTime(offers[f], today + 1)
      <3>1. InTime(offers[f], today)
        BY DEF EvidenceInv
      <3>2. \A n \in 1..Len(offers[f].versions) :
              /\ offers[f].versions[n].created \in Nat
              /\ offers[f].versions[n].sent # None => offers[f].versions[n].sent \in Nat
        <4>1. offers[f].versions \in Seq(OfferVersion)
          BY DEF OfferInv, OfferRow
        <4>2. \A n \in 1..Len(offers[f].versions) : offers[f].versions[n] \in OfferVersion
          BY <4>1
        <4> QED
          BY <1>0, <4>2 DEF OfferVersion
      <3> QED
        BY <1>0, <3>1, <3>2 DEF InTime
    <2> QED
      BY <2>1, <2>2 DEF EvidenceInv, OneOfferEach, InTime
  <1>8. ASSUME NEW f \in Offers, NEW m \in Methods,
               \/ ReplayConversion(f, m)
               \/ \E o \in Orders, v \in Versions, a \in Optional(Addresses) :
                    ConvertAccepted(f, o, v, a, m)
        PROVE  UNCHANGED <<offers, today>>
    BY <1>8 DEF ReplayConversion, ConvertAccepted
  <1>9. OfferNext => EvidenceInv'
    BY <1>1, <1>2, <1>3, <1>4, <1>5, <1>6, <1>8 DEF OfferNext
  <1>10. InquiryNext \/ OrderStep \/ UNCHANGED offerVars => UNCHANGED <<offers, today>>
    BY DEF InquiryNext, UpdateInquiry, VerifyInquiry, CompleteContact, SetDelivery,
           OrderStep, offerVars
  <1>11. ASSUME NEW o \in Orders, PurgeConverted(o) \/ \E m \in Methods : ChangeMethod(o, m)
         PROVE  UNCHANGED <<offers, today>>
    BY <1>11 DEF PurgeConverted, ChangeMethod
  <1> QED
    BY <1>6, <1>7, <1>9, <1>10, <1>11 DEF CommerceNext

LEMMA EvidenceInvariance == CommerceSpec => []EvidenceInv
PROOF
  <1>1. OfferInit => EvidenceInv
    BY CalendarAssumption DEF OfferInit, NoOffer, EvidenceInv, InTime, OneOfferEach, Days
  <1>2. OfferInv /\ EvidenceInv /\ [CommerceNext]_offerVars => EvidenceInv'
    BY CommerceKeepsEvidence
  <1> QED
    BY <1>1, <1>2, OfferInvariance, PTL DEF CommerceSpec

\* An acceptance the panel offers passes the checks of the constructor.
LEMMA OfferedAcceptances == OfferInv /\ EvidenceInv => OfferedAcceptanceIsValid
PROOF
  <1> SUFFICES ASSUME OfferInv, EvidenceInv, NEW f \in Offers, NEW n \in Numbers(f),
                      AllowsAcceptance(f, n)
               PROVE  AcceptanceInTime(f, n, today)
    BY DEF OfferedAcceptanceIsValid
  <1> DEFINE vs == offers[f].versions
  <1>1. /\ offers[f].accepted = 0 /\ State(f, n) = "Sent"
        /\ \A m \in Numbers(f) : m > n => State(f, m) \notin {"Prepared", "Sent"}
        /\ today \in Days /\ InTime(offers[f], today)
    BY DEF AllowsAcceptance, Undecided, HasNewerOpenVersion, EvidenceInv
  <1>2. /\ vs \in Seq(OfferVersion) /\ Numbers(f) = 1..Len(vs) /\ Len(vs) \in Nat
        /\ n \in Nat /\ today \in Nat /\ Days \in SUBSET Nat
    BY <1>1, CalendarAssumption DEF OfferInv, OfferRow, Numbers, Days
  <1>3. vs[n].sent # None /\ today <= vs[n].until
    BY <1>1, StatesOfUndecided
  <1>4. ASSUME NEW m \in Numbers(f)  PROVE vs[m].created <= today
    <2>1. vs[m].sent # None \/ vs[m].closed # "no"
      <3>1. CASE m = n
        BY <1>3, <3>1
      <3>2. CASE m > n
        BY <1>1, <3>2, StatesOfUndecided DEF OfferVersion
      <3>3. CASE m < n
        <4>1. m < Len(vs) /\ m \in 1..Len(vs)
          BY <1>2, <3>3
        <4> QED
          BY <1>1, <4>1 DEF InTime
      <3> QED
        BY <1>2, <3>1, <3>2, <3>3
    <2>2. vs[m] \in OfferVersion /\ m \in 1..Len(vs)
      BY <1>2
    <2>3. vs[m].created \in Nat /\ (vs[m].sent # None => vs[m].sent \in Nat)
      BY <1>2, <2>2 DEF OfferVersion
    <2> QED
      BY <1>1, <1>2, <2>1, <2>2, <2>3 DEF InTime
  <1>5. vs[n].sent <= today
    BY <1>1, <1>2, <1>3 DEF InTime
  <1> QED
    BY <1>3, <1>4, <1>5 DEF AcceptanceInTime

\* The state that stands for the whole offer, and what the offer still admits.
LEMMA Projections ==
    ASSUME OfferInv, EvidenceInv, LinksInv, NEW f \in Offers, Prepared(f)
    PROVE  /\ offers[f].accepted # 0 /\ links[f] = None <=> Projection(f) = "Accepted"
           /\ links[f] # None <=> Projection(f) = "Converted"
           /\ offers[f].accepted = 0 =>
                Undecided(f) /\ Projection(f) = State(f, Latest(f)) /\ Latest(f) \in Numbers(f)
           /\ links[f] # None => HasLinkedOrder(offers[f].inquiry)
PROOF
  <1>1. LinkedWhole(f) /\ links[f] \in Optional(Orders)
    BY DEF LinksInv, LinksAreTyped
  <1>2. links[f] # None => offers[f].accepted # 0
    BY <1>1 DEF LinkedWhole
  <1>3. links[f] # None => HasLinkedOrder(offers[f].inquiry)
    BY <1>1 DEF LinkedWhole, Birth, HasLinkedOrder, Optional
  <1>4. Latest(f) \in Numbers(f)
    <2>1. Len(offers[f].versions) # 0
      BY DEF EvidenceInv, InTime, Prepared
    <2>2. Len(offers[f].versions) \in Nat
      BY DEF OfferInv, OfferRow
    <2> QED
      BY <2>1, <2>2 DEF Latest, Numbers
  <1>5. CASE offers[f].accepted # 0
    <2>1. Projection(f) = IF links[f] # None THEN "Converted" ELSE "Accepted"
      BY <1>5 DEF Projection, State
    <2> QED
      BY <1>3, <1>5, <2>1
  <1>6. CASE offers[f].accepted = 0
    <2>1. Projection(f) = State(f, Latest(f)) /\ Undecided(f)
      BY <1>2, <1>6 DEF Projection, Undecided
    <2>2. State(f, Latest(f)) \notin {"Accepted", "Converted"}
      <3>1. Latest(f) # offers[f].accepted
        BY <1>4, <1>6 DEF Numbers
      <3> QED
        BY <3>1 DEF State
    <2> QED
      BY <1>2, <1>4, <1>6, <2>1, <2>2
  <1> QED
    BY <1>5, <1>6

\* An order of the inquiry of an offer was made from that offer.
LEMMA LinkedOrderIsOfTheOffer ==
    ASSUME EvidenceInv, LinksInv, NEW f \in Offers, Prepared(f),
           HasLinkedOrder(offers[f].inquiry)
    PROVE  links[f] # None
PROOF
  <1>1. PICK o \in Orders : Exists(o) /\ orders[o].inquiry = offers[f].inquiry
    BY DEF HasLinkedOrder
  <1>2. PICK g \in Offers : links[g] = o
    BY <1>1 DEF LinksInv, OrderIsLinked
  <1>3. offers[g].inquiry = offers[f].inquiry
    BY <1>1, <1>2, NoneAssumption DEF LinksInv, LinkedWhole, Birth
  <1>4. g = f
    BY <1>3 DEF EvidenceInv, OneOfferEach, Prepared
  <1> QED
    BY <1>2, <1>4, NoneAssumption

\* The primary action of the panel passes the gates of its command.
LEMMA PrimaryActions == OfferInv /\ EvidenceInv /\ LinksInv => PrimaryActionIsTruthful
PROOF
  <1> SUFFICES ASSUME OfferInv, EvidenceInv, LinksInv, NEW f \in Offers, Prepared(f),
                      MayProgress(offers[f].inquiry), ~ HasActiveOrder(offers[f].inquiry)
               PROVE  /\ ActionForOffer(f) = "convert-accepted" => MayConvert(f)
                      /\ ActionForOffer(f) = "prepare-next-version" => MayPrepareNext(f)
    BY DEF PrimaryActionIsTruthful
  <1>1. ASSUME ActionForOffer(f) = "convert-accepted"  PROVE MayConvert(f)
    <2>1. /\ Projection(f) = "Accepted"
          /\ inquiries[offers[f].inquiry].complete /\ inquiries[offers[f].inquiry].delivery
      BY <1>1, Projections DEF ActionForOffer
    <2> QED
      BY <2>1, Projections, LinkedOrderIsOfTheOffer DEF MayConvert
  <1>2. ASSUME ActionForOffer(f) = "prepare-next-version"  PROVE MayPrepareNext(f)
    <2>1. /\ Projection(f) \in {"Expired", "Rejected", "Withdrawn"}
          /\ inquiries[offers[f].inquiry].complete
      BY <1>2 DEF ActionForOffer
    <2>2. offers[f].accepted = 0
      BY <2>1, Projections
    <2> QED
      BY <2>1, <2>2, Projections DEF MayPrepareNext, AllowsNext
  <1> QED
    BY <1>1, <1>2

\* OfferedActionsAreAccepted for any number of inquiries, offers and versions: what the
\* panel derives from its columns the Core accepts by its own, whatever clock a snapshot
\* carries and whatever became of the order.
THEOREM OfferedActionsPassTheGates == CommerceSpec => []OfferedActionsAreAccepted
PROOF
  <1>1. OfferInv /\ EvidenceInv /\ LinksInv => OfferedActionsAreAccepted
    BY OfferedAcceptances, PrimaryActions DEF OfferedActionsAreAccepted
  <1> QED
    BY <1>1, OfferInvariance, EvidenceInvariance, LinksInvariance, PTL

-----------------------------------------------------------------------------
(* What the office sees. *)

\* EveryStepIsShown for any number of inquiries and offers: a commercial step the Core
\* would take has its task, or its offer waits in the queue for the customer.
THEOREM NoStepIsForgotten == CommerceSpec => []EveryStepIsShown
PROOF
  <1>1. ASSUME OfferInv, EvidenceInv, LinksInv, NEW i \in Inquiries
        PROVE  /\ ~ Lost(i) /\ ~ inquiries[i].verified /\ ~ HasActiveOrder(i) =>
                    <<"verify", i>> \in Tasks
               /\ MayPrepareOffer(i) => <<"prepare-offer", i>> \in Tasks
               /\ \A f \in OffersOf(i) :
                    /\ MayConvert(f) => /\ <<"convert-accepted", i>> \in Tasks
                                        /\ QueueAction(f) = "convert_accepted"
                    /\ MayPrepareNext(f) /\ MayProgress(i) =>
                         \/ <<"prepare-next-version", i>> \in Tasks
                         \/ QueueAction(f) = "await_customer"
    <2>1. ASSUME NEW action \in {"verify", "prepare-offer", "prepare-next-version",
                                 "convert-accepted"},
                 NextAction(i) = action
          PROVE  <<action, i>> \in Tasks
      BY <2>1 DEF Tasks
    <2>2. ~ Lost(i) /\ ~ inquiries[i].verified /\ ~ HasActiveOrder(i) =>
            <<"verify", i>> \in Tasks
      BY <2>1 DEF NextAction
    <2>3. MayPrepareOffer(i) => <<"prepare-offer", i>> \in Tasks
      BY <2>1 DEF NextAction, MayPrepareOffer, MayProgress, Lost
    <2>4. ASSUME NEW f \in OffersOf(i)
          PROVE  /\ MayConvert(f) => /\ <<"convert-accepted", i>> \in Tasks
                                     /\ QueueAction(f) = "convert_accepted"
                 /\ MayPrepareNext(f) /\ MayProgress(i) =>
                      \/ <<"prepare-next-version", i>> \in Tasks
                      \/ QueueAction(f) = "await_customer"
      <3>1. f \in Offers /\ offers[f].inquiry = i /\ Prepared(f)
        BY NoneAssumption DEF OffersOf, Prepared
      <3>2. OfferOf(i) = f
        BY <1>1, <3>1 DEF OfferOf, EvidenceInv, OneOfferEach, Prepared
      <3>3. MayProgress(i) /\ ~ HasActiveOrder(i) => NextAction(i) = ActionForOffer(f)
        BY <3>2 DEF NextAction, MayProgress, Lost
      <3>4. ASSUME MayConvert(f)
            PROVE  <<"convert-accepted", i>> \in Tasks /\ QueueAction(f) = "convert_accepted"
        <4>1. /\ Projection(f) = "Accepted" /\ MayProgress(i) /\ ~ HasLinkedOrder(i)
              /\ inquiries[i].delivery /\ inquiries[i].complete
          BY <1>1, <3>1, <3>4, Projections DEF MayConvert
        <4>2. ~ HasActiveOrder(i)
          BY <4>1 DEF HasActiveOrder, HasLinkedOrder, Active, Exists
        <4>3. NextAction(i) = "convert-accepted"
          BY <3>1, <3>3, <4>1, <4>2 DEF ActionForOffer
        <4>4. QueueAction(f) = "convert_accepted"
          BY <3>1, <4>1 DEF QueueAction, QueueGroup, Lost, MayProgress
        <4> QED
          BY <2>1, <4>3, <4>4
      <3>5. ASSUME MayPrepareNext(f), MayProgress(i)
            PROVE  \/ <<"prepare-next-version", i>> \in Tasks
                   \/ QueueAction(f) = "await_customer"
        <4>1. /\ inquiries[i].complete /\ ~ HasActiveOrder(i) /\ offers[f].accepted = 0
              /\ State(f, Latest(f)) \in {"Sent", "Expired", "Rejected", "Withdrawn"}
          BY <3>1, <3>5 DEF MayPrepareNext, AllowsNext, Undecided
        <4>2. Projection(f) = State(f, Latest(f))
          BY <1>1, <3>1, <4>1, Projections
        <4>3. CASE Projection(f) = "Sent"
          BY <3>1, <3>5, <4>3 DEF QueueAction, QueueGroup, Lost, MayProgress
        <4>4. CASE Projection(f) # "Sent"
          <5>1. NextAction(i) = "prepare-next-version"
            BY <3>1, <3>3, <3>5, <4>1, <4>2, <4>4 DEF ActionForOffer
          <5> QED
            BY <2>1, <5>1
        <4> QED
          BY <4>3, <4>4
      <3> QED
        BY <3>4, <3>5
    <2> QED
      BY <2>2, <2>3, <2>4
  <1>2. OfferInv /\ EvidenceInv /\ LinksInv => EveryStepIsShown
    BY <1>1 DEF EveryStepIsShown
  <1> QED
    BY <1>2, OfferInvariance, EvidenceInvariance, LinksInvariance, PTL

\* What a print task of an active order looks at: the candidate, not printed yet, or the
\* newest version, which then is the stand of the kitchen if anything is.
LEMMA Targets ==
    ASSUME CoreInv, NEW o \in Orders, Active(o), Waiting(o)
    PROVE  /\ VersionsOf(o) # {} /\ LatestNumber(o) \in Nat
           /\ orders[o].candidate # None =>
                TargetVersion(o) = orders[o].candidate /\ NeedsPrint(o)
           /\ orders[o].candidate = None => TargetVersion(o) = LatestVersion(o)
           /\ orders[o].candidate = None /\ orders[o].effective = None => NeedsPrint(o)
           /\ orders[o].candidate = None /\ orders[o].effective # None =>
                /\ orders[o].effective = LatestVersion(o)
                /\ versions[orders[o].effective].number = LatestNumber(o)
PROOF
  <1>1. /\ orders[o] \in OrderRow /\ Exists(o) /\ Gapless(o) /\ LatestNumber(o) \in Nat
        /\ None \notin Versions
    BY NoneAssumption DEF CoreInv, TypeOK, Exists, Active, Gapless
  <1>2. VersionsOf(o) # {}
    BY <1>1, InvImpliesGapless, CoreInvParts DEF HistoryIsGapless
  <1>3. /\ LatestVersion(o) \in VersionsOf(o)
        /\ versions[LatestVersion(o)].number = LatestNumber(o)
    BY <1>1, <1>2, NewestVersion
  <1>4. orders[o].candidate # None =>
          orders[o].candidate \in VersionsOf(o) /\ ~ versions[orders[o].candidate].confirmed
    BY <1>1 DEF CoreInv, PointersAreOwned, Waiting, OrderRow, Optional, VersionsOf
  <1>5. orders[o].candidate # None => TargetVersion(o) = orders[o].candidate /\ NeedsPrint(o)
    BY <1>2, <1>4 DEF TargetVersion, NeedsPrint
  <1>6. orders[o].candidate = None => TargetVersion(o) = LatestVersion(o)
    BY <1>1 DEF TargetVersion, VersionsOf
  <1>7. orders[o].candidate = None /\ orders[o].effective = None => NeedsPrint(o)
    BY <1>1, <1>2, <1>3, <1>6 DEF NeedsPrint, Waiting
  <1>8. ASSUME orders[o].candidate = None, orders[o].effective # None
        PROVE  /\ orders[o].effective = LatestVersion(o)
               /\ versions[orders[o].effective].number = LatestNumber(o)
    <2>1. orders[o].effective \in VersionsOf(o)
      BY <1>1, <1>8 DEF CoreInv, EffectiveIsPrinted, OrderRow, Optional, VersionsOf
    <2>2. versions[orders[o].effective].number = LatestNumber(o)
      BY <1>1, <1>8 DEF CoreInv, NewestIsPointedAt
    <2> QED
      BY <1>1, <1>3, <2>1, <2>2 DEF Gapless
  <1> QED
    BY <1>1, <1>2, <1>5, <1>6, <1>7, <1>8

\* The entry of an inquiry with an active order is that of the order.
LEMMA OrdersInTheCalendar ==
    ASSUME CoreInv, OneOrderPerInquiry, NEW o \in Orders, Active(o)
    PROVE  /\ CalendarEntry(orders[o].inquiry) = OrderEntry(o)
           /\ OrderEntry(o).kind = "confirmed" <=> orders[o].effective # None
           /\ orders[o].effective # None =>
                OrderEntry(o).facts = versions[orders[o].effective].facts
PROOF
  <1>1. \A p \in Orders : Active(p) /\ orders[p].inquiry = orders[o].inquiry => p = o
    BY DEF OneOrderPerInquiry, Active, Exists
  <1>2. (CHOOSE p \in Orders : Active(p) /\ orders[p].inquiry = orders[o].inquiry) = o
    BY <1>1
  <1>3. CalendarEntry(orders[o].inquiry) = OrderEntry(o)
    BY <1>2 DEF CalendarEntry, HasActiveOrder
  <1>4. orders[o].effective # None => Owned(o, orders[o].effective)
    BY DEF CoreInv, EffectiveIsPrinted
  <1> QED
    BY <1>3, <1>4 DEF OrderEntry

\* The calendar confirms an event exactly when its active order has a stand.
ConfirmedIsEffective ==
    \A i \in Inquiries :
        CalendarEntry(i).kind = "confirmed" <=>
          \E o \in Orders : Active(o) /\ orders[o].inquiry = i /\ orders[o].effective # None

LEMMA ConfirmedEvents == CoreInv /\ OneOrderPerInquiry => ConfirmedIsEffective
PROOF
  <1> SUFFICES ASSUME CoreInv, OneOrderPerInquiry, NEW i \in Inquiries
               PROVE  CalendarEntry(i).kind = "confirmed" <=>
                        \E o \in Orders : /\ Active(o) /\ orders[o].inquiry = i
                                          /\ orders[o].effective # None
    BY DEF ConfirmedIsEffective
  <1>1. CASE HasActiveOrder(i)
    <2>1. PICK o \in Orders : Active(o) /\ orders[o].inquiry = i
      BY <1>1 DEF HasActiveOrder
    <2>2. CalendarEntry(i).kind = "confirmed" <=> orders[o].effective # None
      BY <2>1, OrdersInTheCalendar
    <2>3. \A p \in Orders : Active(p) /\ orders[p].inquiry = i => p = o
      BY <2>1 DEF OneOrderPerInquiry, Active, Exists
    <2> QED
      BY <2>1, <2>2, <2>3
  <1>2. CASE ~ HasActiveOrder(i)
    <2>1. CalendarEntry(i).kind \in {"none", "tentative"}
      BY <1>2 DEF CalendarEntry, NoEntry
    <2> QED
      BY <1>2, <2>1 DEF HasActiveOrder
  <1> QED
    BY <1>1, <1>2

\* The state part of ViewsAgree.
LEMMA ViewsOfAState ==
    ASSUME CoreInv, OneOrderPerInquiry, \A o \in Orders : Waiting(o)
    PROVE  QuietOrderIsReady /\ CountersAgree
PROOF
  <1>1. ASSUME NEW o \in Orders, Active(o), ~ NeedsPrint(o), ActivePause(o) = 0
        PROVE  Ready(o) /\ orders[o].effective = TargetVersion(o)
    <2>1. /\ orders[o].candidate = None /\ orders[o].effective # None
          /\ orders[o].effective = TargetVersion(o)
      BY <1>1, Targets
    <2>2. Owned(o, orders[o].effective) /\ versions[orders[o].effective].confirmed
      BY <2>1 DEF CoreInv, EffectiveIsPrinted
    <2> QED
      BY <1>1, <2>1, <2>2 DEF Ready
  <1>2. ASSUME NEW o \in PendingChanges
        PROVE  <<"print-confirm", orders[o].candidate>> \in Tasks
    <2>1. o \in Orders /\ Active(o) /\ orders[o].candidate # None
      BY DEF PendingChanges
    <2>2. TargetVersion(o) = orders[o].candidate /\ NeedsPrint(o)
      BY <2>1, Targets
    <2> QED
      BY <2>1, <2>2 DEF Tasks
  <1>3. ASSUME NEW f \in OffersAccepted, ~ Lost(offers[f].inquiry)
        PROVE  QueueGroup(f) = "action_required"
    BY <1>3 DEF OffersAccepted, QueueGroup
  <1>4. ASSUME NEW o \in Orders, Active(o),
               CalendarEntry(orders[o].inquiry).kind = "confirmed"
        PROVE  \E v \in VersionsOf(o) :
                 /\ versions[v].confirmed
                 /\ CalendarEntry(orders[o].inquiry).facts = versions[v].facts
                 /\ versions[v].number < LatestNumber(o) => NeedsPrint(o)
    <2>1. /\ orders[o].effective # None
          /\ CalendarEntry(orders[o].inquiry).facts = versions[orders[o].effective].facts
      BY <1>4, OrdersInTheCalendar
    <2>2. orders[o].effective \in VersionsOf(o) /\ versions[orders[o].effective].confirmed
      BY <2>1 DEF CoreInv, EffectiveIsPrinted, TypeOK, OrderRow, Optional, VersionsOf
    <2>3. versions[orders[o].effective].number < LatestNumber(o) => NeedsPrint(o)
      BY <1>4, <2>1, Targets
    <2> QED
      BY <2>1, <2>2, <2>3
  <1>5. QuietOrderIsReady
    BY <1>1 DEF QuietOrderIsReady
  <1> QED
    BY <1>2, <1>3, <1>4, <1>5 DEF CountersAgree

\* The step part: an active order of an inquiry that had one is the same order.
LEMMA CalendarKeepsConfirmed ==
    ASSUME CoreInv, OneOrderPerInquiry, \A o \in Orders : Waiting(o), OfferInv,
           ConfirmedIsEffective, ConfirmedIsEffective', [CommerceNext]_offerVars,
           NEW i \in Inquiries, CalendarEntry(i).kind = "confirmed", HasActiveOrder(i)'
    PROVE  CalendarEntry(i)'.kind = "confirmed"
PROOF
  <1>1. PICK o \in Orders : Active(o) /\ orders[o].inquiry = i /\ orders[o].effective # None
    BY DEF ConfirmedIsEffective
  <1>2. PICK p \in Orders : orders'[p].state = "active" /\ orders'[p].inquiry = i
    BY DEF HasActiveOrder, Active
  <1>3. TypeOK /\ [Next]_coreVars
    BY CommerceStepIsCoreStep DEF CoreInv
  <1>4. Active(p) /\ orders[p].inquiry = i
    <2>1. CASE \/ ChangeNext
               \/ \E q \in Orders, v \in Versions : AcknowledgePrint(q, v)
               \/ \E q \in Orders : PurgeOrder(q)
               \/ UNCHANGED coreVars
      BY <1>2, <1>3, <2>1, ActiveOrdersStay
    <2>2. ASSUME NEW q \in Orders, NEW v \in Versions, NEW j \in Inquiries,
                 NEW row \in InitialContents, CreateOrder(q, v, j, row)
          PROVE  Active(p) /\ orders[p].inquiry = i
      <3>1. /\ ~ HasLinkedOrder(j)
            /\ orders' = [orders EXCEPT ![q] = [NoOrder EXCEPT !.state = "active",
                                                               !.inquiry = j]]
        BY <2>2 DEF CreateOrder
      <3>2. j # i
        BY <1>1, <3>1 DEF HasLinkedOrder, Exists, Active
      <3>3. CASE p = q
        <4>1. orders'[p] = [NoOrder EXCEPT !.state = "active", !.inquiry = j]
          BY <1>3, <3>1, <3>3 DEF TypeOK
        <4>2. orders'[p].inquiry = j
          BY <4>1 DEF NoOrder
        <4> QED
          BY <1>2, <3>2, <4>2
      <3>4. CASE p # q
        BY <1>2, <1>3, <3>1, <3>4 DEF TypeOK, Active
      <3> QED
        BY <3>3, <3>4
    <2> QED
      BY <1>3, <2>1, <2>2 DEF Next, OfficeNext, HandlerNext
  <1>5. p = o
    BY <1>1, <1>4 DEF OneOrderPerInquiry, Exists, Active
  <1>6. KeepsStand(o)
    BY <1>3, StepsKeepWaiting
  <1>7. orders'[p].effective # None
    BY <1>1, <1>2, <1>5, <1>6 DEF KeepsStand
  <1>8. \E q \in Orders : Active(q)' /\ orders'[q].inquiry = i /\ orders'[q].effective # None
    BY <1>2, <1>7 DEF Active
  <1> QED
    BY <1>8 DEF ConfirmedIsEffective

\* ViewsAgree for any number of inquiries, orders and versions: tasks, counters, queue
\* and calendar tell one story of an order, from one state to the next too.
THEOREM OneStoryOfAnOrder == CommerceSpec => ViewsAgree
PROOF
  <1>1. CommerceSpec => [](CoreInv /\ OneOrderPerInquiry /\ \A o \in Orders : Waiting(o))
    BY CommerceImplementsCore, OfficeUsesTheServices, CoreInvariance, AnInquiryHasOneOrder,
       PendingChangesAreUnprinted, PTL
  <1>2. CoreInv /\ OneOrderPerInquiry /\ (\A o \in Orders : Waiting(o))
          => QuietOrderIsReady /\ CountersAgree
    BY ViewsOfAState
  <1>3. CoreInv /\ OneOrderPerInquiry /\ (\A o \in Orders : Waiting(o)) /\ OfferInv
        /\ ConfirmedIsEffective /\ ConfirmedIsEffective' /\ [CommerceNext]_offerVars
          => [\A i \in Inquiries :
                CalendarEntry(i).kind = "confirmed" /\ HasActiveOrder(i)' =>
                  CalendarEntry(i)'.kind = "confirmed"]_offerVars
    BY CalendarKeepsConfirmed
  <1>4. CommerceSpec => []OfferInv /\ []ConfirmedIsEffective
    BY <1>1, OfferInvariance, ConfirmedEvents, PTL
  <1>5. CommerceSpec => ConfirmedStaysConfirmed
    BY <1>1, <1>3, <1>4, PTL DEF CommerceSpec, ConfirmedStaysConfirmed
  <1> QED
    BY <1>1, <1>2, <1>5, PTL DEF ViewsAgree


-----------------------------------------------------------------------------
(* The panel: what a step of the Core may have done to an order since its page *)
(* was rendered.                                                               *)

Moved(s) ==
    orders[s].state # "unborn" =>
      /\ orders'[s].state # "unborn"
      /\ Exists(s)' =>
           /\ Exists(s) /\ orders'[s].inquiry = orders[s].inquiry
           /\ \/ VersionsOf(s)' = VersionsOf(s) /\ LatestNumber(s)' = LatestNumber(s)
              \/ VersionsOf(s) \subseteq VersionsOf(s)' /\ LatestNumber(s)' = LatestNumber(s) + 1
           /\ pauses'[s] = pauses[s] \/ \E e \in PauseEvent : pauses'[s] = Append(pauses[s], e)

LEMMA SameRowsMove ==
    ASSUME HistoryInv, NEW s \in Orders,
           orders'[s].inquiry = orders[s].inquiry,
           Exists(s)' <=> Exists(s), orders'[s].state = "unborn" => orders[s].state = "unborn",
           \A w \in Versions : /\ Owned(s, w)' <=> Owned(s, w)
                               /\ versions'[w].number = versions[w].number,
           pauses'[s] = pauses[s] \/ \E e \in PauseEvent : pauses'[s] = Append(pauses[s], e)
    PROVE  Moved(s)
PROOF
  <1>1. Gapless(s)
    BY DEF HistoryInv
  <1>2. VersionsOf(s)' = VersionsOf(s)
    BY DEF VersionsOf
  <1>3. LatestNumber(s)' = LatestNumber(s)
    BY <1>1, <1>2, SameRowsSameHistory DEF VersionsOf
  <1> QED
    BY <1>2, <1>3 DEF Moved

LEMMA OperationsMove ==
    ASSUME HistoryInv, NEW s \in Orders,
           ChangeNext \/ \E o \in Orders, v \in Versions : AcknowledgePrint(o, v)
    PROVE  Moved(s)
PROOF
  <1>0. /\ TypeOK /\ orders \in [Orders -> OrderRow] /\ versions \in [Versions -> VersionRow]
        /\ pauses \in [Orders -> Seq(PauseEvent)] /\ \A p \in Orders : Gapless(p)
    BY DEF HistoryInv, TypeOK
  <1>1. ASSUME NEW o \in Orders, NEW v \in Versions,
               \/ \E f \in Facts : ProposeChange(o, v, f)
               \/ \E p \in Versions, a \in Addresses : ProposeAddress(o, v, p, a)
        PROVE  Moved(s)
    <2>1. PICK row \in VersionRow :
             /\ Active(o) /\ AppendVersion(o, v, row, v)
             /\ row.state = "stored" /\ row.order = o /\ row.number = LatestNumber(o) + 1
      BY <1>1, Proposals DEF Proposed
    <2>2. /\ versions[v].state = "unborn" /\ versions' = [versions EXCEPT ![v] = row]
          /\ pauses' = pauses
          /\ orders'[s].state = orders[s].state /\ orders'[s].inquiry = orders[s].inquiry
      BY <1>0, <2>1 DEF AppendVersion, OrderRow
    <2>3. /\ LatestNumber(o)' = LatestNumber(o) + 1
          /\ \A p \in Orders \ {o} : LatestNumber(p)' = LatestNumber(p)
      BY <1>0, <2>1, <2>2, AppendExtendsHistory
    <2>4. \A w \in Versions : /\ w # v => versions'[w] = versions[w]
                              /\ w = v => versions'[w] = row
      BY <1>0, <2>2
    <2>5. VersionsOf(s) \subseteq VersionsOf(s)'
      BY <2>2, <2>4 DEF VersionsOf, Owned, Stored
    <2>6. s # o => VersionsOf(s)' = VersionsOf(s)
      BY <2>1, <2>2, <2>4 DEF VersionsOf, Owned, Stored
    <2> QED
      BY <2>2, <2>3, <2>5, <2>6 DEF Moved, Exists
  <1>2. ASSUME NEW o \in Orders,
               \/ \E v \in Versions : MakeEffective(o, v) \/ AcknowledgePrint(o, v)
               \/ CancelOrder(o) \/ PauseOrder(o) \/ ResumeOrder(o)
        PROVE  Moved(s)
    <2>1. /\ \/ versions' = versions
             \/ \E v \in Versions : versions' = [versions EXCEPT ![v].confirmed = TRUE]
          /\ Exists(s)' <=> Exists(s)
          /\ orders'[s].inquiry = orders[s].inquiry
      BY <1>2, OtherSteps DEF VersionsOf
    <2>2. \A w \in Versions : /\ versions'[w].state = versions[w].state
                              /\ versions'[w].order = versions[w].order
                              /\ versions'[w].number = versions[w].number
      BY <1>0, <2>1, ConfirmKeepsHistories
    <2>3. \A w \in Versions : Owned(s, w)' <=> Owned(s, w)
      BY <2>2 DEF Owned, Stored
    <2>4. orders'[s].state = "unborn" => orders[s].state = "unborn"
      <3>1. ASSUME NEW v \in Versions, MakeEffective(o, v)
            PROVE  orders'[s].state = orders[s].state
        BY <1>0, <3>1, EffectiveIsSet
      <3>2. ASSUME NEW v \in Versions, AcknowledgePrint(o, v)
            PROVE  orders'[s].state = orders[s].state
        <4>1. ActivatedByPrint(orders[o], v).state = orders[o].state
          BY <1>0 DEF ActivatedByPrint, OrderRow
        <4> QED
          BY <1>0, <3>2, <4>1 DEF AcknowledgePrint
      <3>3. ASSUME CancelOrder(o)  PROVE orders'[s].state = "unborn" => orders[s].state = "unborn"
        BY <1>0, <3>3 DEF CancelOrder, OrderRow
      <3> QED
        BY <1>2, <3>1, <3>2, <3>3 DEF PauseOrder, ResumeOrder
    <2>5. pauses'[s] = pauses[s] \/ \E e \in PauseEvent : pauses'[s] = Append(pauses[s], e)
      <3>1. ASSUME PauseOrder(o)
            PROVE  pauses'[s] = pauses[s] \/ \E e \in PauseEvent : pauses'[s] = Append(pauses[s], e)
        BY <1>0, <3>1 DEF PauseOrder, PauseEvent
      <3>2. ASSUME ResumeOrder(o)
            PROVE  pauses'[s] = pauses[s] \/ \E e \in PauseEvent : pauses'[s] = Append(pauses[s], e)
        <4>1. ActivePause(o) \in Nat
          BY <1>0, ActivePauseIsIndex
        <4>2. [action |-> "resumed", resumes |-> ActivePause(o)] \in PauseEvent
          BY <4>1 DEF PauseEvent
        <4>3. pauses' = [pauses EXCEPT ![o] =
                Append(pauses[o], [action |-> "resumed", resumes |-> ActivePause(o)])]
          BY <3>2 DEF ResumeOrder
        <4> QED
          BY <1>0, <4>2, <4>3
      <3> QED
        BY <1>2, <3>1, <3>2 DEF MakeEffective, AcknowledgePrint, CancelOrder
    <2> QED
      BY <2>1, <2>2, <2>3, <2>4, <2>5, SameRowsMove
  <1> QED
    BY <1>1, <1>2 DEF ChangeNext

LEMMA OrdersMove ==
    ASSUME HistoryInv, [Next]_coreVars, NEW s \in Orders
    PROVE  Moved(s)
PROOF
  <1>0. /\ orders \in [Orders -> OrderRow] /\ versions \in [Versions -> VersionRow]
        /\ pauses \in [Orders -> Seq(PauseEvent)] /\ \A p \in Orders : Gapless(p)
    BY DEF HistoryInv, TypeOK
  <1>1. CASE UNCHANGED coreVars
    BY <1>1, SameRowsMove DEF coreVars, Exists, Owned, Stored
  <1>2. ASSUME NEW o \in Orders, NEW v \in Versions, NEW i \in Inquiries,
               NEW row \in InitialContents, CreateOrder(o, v, i, row)
        PROVE  Moved(s)
    <2>1. CASE s = o
      BY <1>2, <2>1 DEF CreateOrder, Moved
    <2>2. CASE s # o
      <3>1. orders'[s] = orders[s] /\ pauses' = pauses
        BY <1>0, <1>2, <2>2 DEF CreateOrder
      <3>2. /\ versions[v].state = "unborn" /\ versions'[v].order = o
            /\ \A w \in Versions : w # v => versions'[w] = versions[w]
        BY <1>0, <1>2 DEF CreateOrder
      <3>3. VersionsOf(s)' = VersionsOf(s)
        BY <2>2, <3>2 DEF VersionsOf, Owned, Stored
      <3>4. \A w \in VersionsOf(s) : versions'[w].number = versions[w].number
        BY <3>2 DEF VersionsOf, Owned, Stored
      <3>5. LatestNumber(s)' = LatestNumber(s)
        BY <1>0, <3>3, <3>4, SameRowsSameHistory
      <3> QED
        BY <3>1, <3>3, <3>5 DEF Moved, Exists
    <2> QED
      BY <2>1, <2>2
  <1>3. ASSUME NEW o \in Orders, PurgeOrder(o)
        PROVE  Moved(s)
    <2>1. CASE s = o
      <3>1. orders'[s].state = "purged"
        BY <1>0, <1>3, <2>1 DEF PurgeOrder, NoOrder
      <3> QED
        BY <3>1 DEF Moved, Exists
    <2>2. CASE s # o
      <3>1. orders'[s] = orders[s] /\ pauses'[s] = pauses[s]
        BY <1>0, <1>3, <2>2 DEF PurgeOrder
      <3>2. \A w \in Versions :
              /\ Owned(o, w) => versions'[w].state = "purged"
              /\ ~ Owned(o, w) => versions'[w] = versions[w]
        BY <1>3 DEF PurgeOrder, NoVersion
      <3>3. VersionsOf(s)' = VersionsOf(s)
        BY <2>2, <3>2 DEF VersionsOf, Owned, Stored
      <3>4. \A w \in VersionsOf(s) : versions'[w].number = versions[w].number
        BY <2>2, <3>2 DEF VersionsOf, Owned, Stored
      <3>5. LatestNumber(s)' = LatestNumber(s)
        BY <1>0, <3>3, <3>4, SameRowsSameHistory
      <3> QED
        BY <3>1, <3>3, <3>5 DEF Moved, Exists
    <2> QED
      BY <2>1, <2>2
  <1> QED
    BY <1>1, <1>2, <1>3, OperationsMove DEF Next, OfficeNext, HandlerNext

-----------------------------------------------------------------------------
(* The panel: what is true of a rendered page, and of the command on its way. *)

\* What a page shows is what the Core has, as far as its form will tell: while the
\* pointers, the length of the log or the stamp are still those of the page, so is
\* the row, the log and the set of versions behind them.
HoldsOfOrder(p) ==
    LET g == pages[p]
        s == g.subject
    IN  /\ g.kind \in {"version", "address"} =>
             /\ g.shown.row \in OrderRow /\ g.shown.row.state = "active"
             /\ g.expect = [latest |-> g.expect.latest, effective |-> g.shown.row.effective,
                            candidate |-> g.shown.row.candidate]
             /\ g.expect.latest \in Nat
             /\ Exists(s) =>
                  /\ orders[s].inquiry = g.shown.row.inquiry
                  /\ g.expect.latest <= LatestNumber(s)
                  /\ LatestNumber(s) = g.expect.latest => VersionsOf(s) = g.shown.versions
        /\ g.kind = "effective" =>
             /\ g.shown \in OrderRow /\ g.shown.state = "active"
             /\ g.expect = [latest |-> 0, effective |-> g.shown.effective,
                            candidate |-> g.shown.candidate]
             /\ Exists(s) => orders[s].inquiry = g.shown.inquiry
        /\ g.kind \in {"pause", "resume"} =>
             /\ g.shown \in Seq(PauseEvent) /\ g.expect.latest = Len(g.shown)
             /\ Exists(s) =>
                  /\ Len(g.shown) <= Len(pauses[s])
                  /\ Len(pauses[s]) = Len(g.shown) => pauses[s] = g.shown

HoldsUndisturbed(p) ==
    LET g == pages[p]
    IN  disturbed[p] # "subject" =>
          /\ g.kind = "cancel" => orders[g.subject] = g.shown
          /\ g.kind \in {"update", "contact", "delivery"} => inquiries[g.subject] = g.shown

PageIsSound(p) ==
    LET g == pages[p]
    IN  /\ g.kind \in PageKinds
        /\ g.kind \in OrderForms => g.subject \in Orders /\ orders[g.subject].state # "unborn"
        /\ g.kind \in InquiryForms => g.subject \in Inquiries
        /\ g.kind = "offer" => g.subject \in Offers /\ g.version \in Numbers(g.subject)
        /\ g.kind \in {"address", "effective"} => g.version \in Versions
        /\ HoldsOfOrder(p) /\ HoldsUndisturbed(p)

\* The command on its way says what its page said, and names rows there are.
EnvelopeIsSound(p, e) ==
    /\ e.form \in Forms \ {"convert"}
    /\ e.choice \in Choices(e.form)
    /\ e.form \in OrderForms \cup InquiryForms =>
         /\ pages[p].kind = e.form /\ e.subject = pages[p].subject
         /\ e.form \in OrderForms =>
              e.expect = pages[p].expect /\ e.version = pages[p].version
    /\ e.form \in OfferForms => e.subject \in Offers
    /\ e.form \in OfferForms \ {"conversion"} => e.version \in Numbers(e.subject)
    /\ e.form = "acceptance" => e.variant = pages[p].version

PanelInv ==
    /\ pages = [p \in Pages |-> pages[p]]
    /\ disturbed \in [Pages -> {"no", "elsewhere", "subject"}]
    /\ ledger = [p \in Pages |-> ledger[p]]
    /\ \A p \in Pages : IF pages[p] = None THEN ledger[p] = None ELSE PageIsSound(p)
    /\ flight # None => /\ flight.page \in Pages /\ pages[flight.page] # None
                        /\ EnvelopeIsSound(flight.page, flight.envelope)
    /\ answer # None => answer.says \in Says

\* What the commercial side keeps, as the steps of the panel need it.
CommerceInv == CoreInv /\ OfferInv /\ EvidenceInv

LEMMA ChoicesAre ==
    /\ Choices("version") = Facts /\ Choices("address") = Addresses
    /\ Choices("update") = OfficeStages /\ Choices("delivery") = BOOLEAN
    /\ Choices("conversion") = Methods /\ Choices("convert") = Methods
  BY DEF Choices

\* Every command is a step of the commercial side.
LEMMA CommandsAreCommerce ==
    ASSUME CommerceInv, PanelInv, NEW p \in Pages, pages[p] # None, NEW e,
           EnvelopeIsSound(p, e), Perform(e)
    PROVE  CommerceNext
PROOF
  <1>0. PageIsSound(p)
    BY DEF PanelInv
  <1>1. CASE CmdCreateVersion(e)
    <2>1. e.subject \in Orders
      BY <1>0, <1>1 DEF CmdCreateVersion, EnvelopeIsSound, PageIsSound, OrderForms
    <2>2. CASE e.form = "version" /\ \E v \in Versions : ProposeChange(e.subject, v, e.choice)
      <3>1. e.choice \in Facts
        BY <2>2, ChoicesAre DEF EnvelopeIsSound
      <3> QED
        BY <1>1, <2>1, <2>2, <3>1
           DEF CmdCreateVersion, OutsideUnchanged, CommerceNext, OrderStep, ChangeNext
    <2>3. CASE e.form = "address" /\ \E v \in Versions :
                 ProposeAddress(e.subject, v, e.version, e.choice)
      <3>1. e.choice \in Addresses /\ e.version \in Versions
        BY <1>0, <2>3, ChoicesAre DEF EnvelopeIsSound, PageIsSound, OrderForms
      <3> QED
        BY <1>1, <2>1, <2>3, <3>1
           DEF CmdCreateVersion, OutsideUnchanged, CommerceNext, OrderStep, ChangeNext
    <2> QED
      BY <1>1, <2>2, <2>3 DEF CmdCreateVersion
  <1>2. CASE CmdEffective(e)
    <2>1. e.subject \in Orders /\ e.version \in Versions
      BY <1>0, <1>2 DEF CmdEffective, EnvelopeIsSound, PageIsSound, OrderForms
    <2> QED
      BY <1>2, <2>1 DEF CmdEffective, OutsideUnchanged, CommerceNext, OrderStep, ChangeNext
  <1>3. CASE CmdCancel(e) \/ CmdPause(e) \/ CmdResume(e)
    <2>1. e.subject \in Orders
      BY <1>0, <1>3 DEF CmdCancel, CmdPause, CmdResume, EnvelopeIsSound, PageIsSound, OrderForms
    <2> QED
      BY <1>3, <2>1 DEF CmdCancel, CmdPause, CmdResume, OutsideUnchanged, CommerceNext,
                        OrderStep, ChangeNext
  <1>4. CASE CmdDelete(e)
    <2>1. e.subject \in Orders
      BY <1>0, <1>4 DEF CmdDelete, EnvelopeIsSound, PageIsSound, OrderForms
    <2> QED
      BY <1>4, <2>1 DEF CmdDelete, CommerceNext
  <1>5. CASE CmdInquiry(e)
    <2>1. e.subject \in Inquiries
      BY <1>0, <1>5 DEF CmdInquiry, EnvelopeIsSound, PageIsSound, InquiryForms
    <2>2. /\ e.form = "update" => e.choice \in OfficeStages
          /\ e.form = "delivery" => e.choice \in BOOLEAN
      BY ChoicesAre DEF EnvelopeIsSound
    <2> QED
      BY <1>5, <2>1, <2>2 DEF CmdInquiry, CommerceNext, InquiryNext
  <1>6. CASE CmdMarkSent(e) \/ CmdAcceptance(e)
    <2>1. e.subject \in Offers /\ e.version \in Numbers(e.subject) /\ today \in Days
      BY <1>6 DEF CmdMarkSent, CmdAcceptance, EnvelopeIsSound, OfferForms, CommerceInv,
                  EvidenceInv
    <2>2. RecordSent(e.subject, e.version, today) \/ RecordAcceptance(e.subject, e.version, today)
      BY <1>6 DEF CmdMarkSent, CmdAcceptance
    <2> QED
      BY <2>1, <2>2 DEF CommerceNext, OfferNext
  <1>7. CASE CmdRejection(e) \/ CmdWithdrawal(e)
    <2>1. e.subject \in Offers /\ e.version \in Numbers(e.subject)
      BY <1>7 DEF CmdRejection, CmdWithdrawal, EnvelopeIsSound, OfferForms
    <2>2. RecordRejection(e.subject, e.version) \/ RecordWithdrawal(e.subject, e.version)
      BY <1>7 DEF CmdRejection, CmdWithdrawal
    <2> QED
      BY <2>1, <2>2 DEF CommerceNext, OfferNext
  <1>8. CASE CmdConversion(e)
    <2>1. e.subject \in Offers /\ e.choice \in Methods
      BY <1>8, ChoicesAre DEF CmdConversion, EnvelopeIsSound, OfferForms
    <2>2. \/ \E o \in Orders, v \in Versions, a \in Optional(Addresses) :
               ConvertAccepted(e.subject, o, v, a, e.choice)
          \/ ReplayConversion(e.subject, e.choice)
      BY <1>8 DEF CmdConversion
    <2> QED
      BY <2>1, <2>2 DEF CommerceNext, OfferNext
  <1> QED
    BY <1>1, <1>2, <1>3, <1>4, <1>5, <1>6, <1>7, <1>8 DEF Perform

LEMMA PanelStepsAreCommerce ==
    ASSUME CommerceInv, PanelInv, [PanelNext]_panelVars
    PROVE  [CommerceNext]_offerVars
PROOF
  <1>1. CASE HandleFlight
    <2>1. /\ flight.page \in Pages /\ pages[flight.page] # None
          /\ EnvelopeIsSound(flight.page, flight.envelope)
          /\ Handle(flight.page, flight.envelope)
      BY <1>1 DEF HandleFlight, PanelInv
    <2>2. Perform(flight.envelope) \/ CoreUnchanged
      BY <2>1 DEF Handle
    <2> QED
      BY <2>1, <2>2, CommandsAreCommerce DEF CoreUnchanged
  <1>2. CASE Elsewhere
    BY <1>2 DEF Elsewhere
  <1>3. CASE UNCHANGED offerVars
    BY <1>3
  <1> QED
    BY <1>1, <1>2, <1>3 DEF PanelNext, OpenPage, SubmitForm, LoseFlight, SavedUnchanged,
                            CoreUnchanged, panelVars

LEMMA OneOfferGrows ==
    ASSUME OfferInv, NEW g \in Offers, NEW f \in Offers, NEW row,
           offers' = [offers EXCEPT ![g] = row],
           Len(row.versions) \in Nat, Len(row.versions) >= Len(offers[g].versions)
    PROVE  Numbers(f) \subseteq Numbers(f)'
PROOF
  <1>0. offers \in [Offers -> OfferRow]
    BY DEF OfferInv
  <1>1. Len(offers[g].versions) \in Nat
    BY <1>0, LenProperties DEF OfferRow
  <1>2. CASE f = g
    <2>1. offers'[f] = row
      BY <1>0, <1>2
    <2>2. Numbers(f)' = 1..Len(row.versions)
      BY <2>1 DEF Numbers
    <2>3. Numbers(f) = 1..Len(offers[g].versions)
      BY <1>2 DEF Numbers
    <2> QED
      BY <1>1, <2>2, <2>3
  <1>3. CASE f # g
    BY <1>0, <1>3 DEF Numbers
  <1> QED
    BY <1>2, <1>3

LEMMA OffersGrow ==
    ASSUME OfferInv, [CommerceNext]_offerVars, NEW f \in Offers
    PROVE  Numbers(f) \subseteq Numbers(f)'
PROOF
  <1>0. /\ offers \in [Offers -> OfferRow]
        /\ \A g \in Offers : /\ offers[g] \in OfferRow
                             /\ offers[g].versions \in Seq(OfferVersion)
                             /\ Len(offers[g].versions) \in Nat
    BY LenProperties DEF OfferInv, OfferRow
  <1>1. CASE offers' = offers
    BY <1>1 DEF Numbers
  <1>2. ASSUME NEW g \in Offers, NEW i \in Inquiries, NEW v \in Snapshots, PrepareOffer(g, i, v)
        PROVE  Numbers(f) \subseteq Numbers(f)'
    <2> DEFINE row == [inquiry |-> i, versions |-> <<v>>, accepted |-> 0]
    <2>1. Len(offers[g].versions) = 0 /\ offers' = [offers EXCEPT ![g] = row]
      BY <1>2 DEF PrepareOffer, NoOffer
    <2>2. Len(row.versions) \in Nat /\ Len(row.versions) >= Len(offers[g].versions)
      BY <2>1
    <2> HIDE DEF row
    <2> QED
      BY <2>1, <2>2, OneOfferGrows
  <1>3. ASSUME NEW g \in Offers, NEW v \in Snapshots, NEW n \in 1..MaxOfferVersions,
               PrepareNext(g, v, n)
        PROVE  Numbers(f) \subseteq Numbers(f)'
    <2> DEFINE row == [offers[g] EXCEPT !.versions = Append(offers[g].versions, v)]
    <2>1. offers' = [offers EXCEPT ![g] = row]
      BY <1>3 DEF PrepareNext
    <2>2. row.versions = Append(offers[g].versions, v)
      BY <1>0 DEF OfferRow
    <2>3. Len(row.versions) \in Nat /\ Len(row.versions) >= Len(offers[g].versions)
      BY <1>0, <2>2
    <2> HIDE DEF row
    <2> QED
      BY <2>1, <2>3, OneOfferGrows
  <1>4. ASSUME NEW g \in Offers, NEW n \in Numbers(g), NEW at,
               \/ RecordSent(g, n, at) \/ RecordAcceptance(g, n, at)
               \/ RecordRejection(g, n) \/ RecordWithdrawal(g, n)
        PROVE  Numbers(f) \subseteq Numbers(f)'
    <2>1. ASSUME NEW w, offers' = [offers EXCEPT ![g] =
                   [offers[g] EXCEPT !.versions = [offers[g].versions EXCEPT ![n] = w]]]
          PROVE  Numbers(f) \subseteq Numbers(f)'
      <3> DEFINE row == [offers[g] EXCEPT !.versions = [offers[g].versions EXCEPT ![n] = w]]
      <3>1. row.versions = [offers[g].versions EXCEPT ![n] = w]
        BY <1>0 DEF OfferRow
      <3>2. Len(row.versions) \in Nat /\ Len(row.versions) >= Len(offers[g].versions)
        BY <1>0, <3>1
      <3>3. offers' = [offers EXCEPT ![g] = row]
        BY <2>1
      <3> HIDE DEF row
      <3> QED
        BY <3>2, <3>3, OneOfferGrows
    <2>2. CASE RecordAcceptance(g, n, at)
      <3> DEFINE row == [offers[g] EXCEPT !.accepted = n]
      <3>1. offers' = [offers EXCEPT ![g] = row]
        BY <2>2 DEF RecordAcceptance
      <3>2. Len(row.versions) \in Nat /\ Len(row.versions) >= Len(offers[g].versions)
        BY <1>0 DEF OfferRow
      <3> HIDE DEF row
      <3> QED
        BY <3>1, <3>2, OneOfferGrows
    <2>3. CASE RecordSent(g, n, at)
      <3>1. offers' = [offers EXCEPT ![g] =
               [offers[g] EXCEPT !.versions = [offers[g].versions EXCEPT ![n] =
                 [offers[g].versions[n] EXCEPT !.sent = at]]]]
        BY <2>3 DEF RecordSent
      <3> QED
        BY <3>1, <2>1
    <2>4. CASE RecordRejection(g, n)
      <3>1. offers' = [offers EXCEPT ![g] =
               [offers[g] EXCEPT !.versions = [offers[g].versions EXCEPT ![n] =
                 [offers[g].versions[n] EXCEPT !.closed = "rejected"]]]]
        BY <2>4 DEF RecordRejection
      <3> QED
        BY <3>1, <2>1
    <2>5. CASE RecordWithdrawal(g, n)
      <3>1. offers' = [offers EXCEPT ![g] =
               [offers[g] EXCEPT !.versions = [offers[g].versions EXCEPT ![n] =
                 [offers[g].versions[n] EXCEPT !.closed = "withdrawn"]]]]
        BY <2>5 DEF RecordWithdrawal
      <3> QED
        BY <3>1, <2>1
    <2> QED
      BY <1>4, <2>2, <2>3, <2>4, <2>5
  <1>5. CASE OfferNext
    <2>1. PICK g \in Offers :
            \/ \E i \in Inquiries, v \in Snapshots : PrepareOffer(g, i, v)
            \/ \E v \in Snapshots, n \in 1..MaxOfferVersions : PrepareNext(g, v, n)
            \/ \E n \in Numbers(g) :
                 \/ \E at \in Days : RecordSent(g, n, at) \/ RecordAcceptance(g, n, at)
                 \/ RecordRejection(g, n) \/ RecordWithdrawal(g, n)
            \/ \E o \in Orders, v \in Versions, a \in Optional(Addresses), m \in Methods :
                 ConvertAccepted(g, o, v, a, m)
            \/ \E m \in Methods : ReplayConversion(g, m)
      BY <1>5 DEF OfferNext
    <2>2. CASE \E n \in Numbers(g) :
                 \/ \E at \in Days : RecordSent(g, n, at) \/ RecordAcceptance(g, n, at)
                 \/ RecordRejection(g, n) \/ RecordWithdrawal(g, n)
      BY <1>4, <2>2
    <2> QED
      BY <1>1, <1>2, <1>3, <2>1, <2>2 DEF ConvertAccepted, ReplayConversion
  <1> QED
    BY <1>1, <1>5 DEF CommerceNext, InquiryNext, UpdateInquiry, VerifyInquiry, CompleteContact,
       SetDelivery, OrderStep, PurgeConverted, ChangeMethod, NextDay, offerVars

\* What a step of the commercial side leaves of a rendered page.
LEMMA SoundPagesStay ==
    ASSUME CommerceInv, [CommerceNext]_offerVars, NEW p \in Pages, PageIsSound(p),
           pages'[p] = pages[p],
           disturbed'[p] # "subject" =>
             /\ disturbed[p] # "subject"
             /\ pages[p].subject \in Orders => orders'[pages[p].subject] = orders[pages[p].subject]
             /\ pages[p].subject \in Inquiries =>
                  inquiries'[pages[p].subject] = inquiries[pages[p].subject]
    PROVE  PageIsSound(p)'
PROOF
  <1> PICK g : g = pages[p]
    OBVIOUS
  <1> PICK s : s = g.subject
    OBVIOUS
  <1>0. pages'[p] = g
    OBVIOUS
  <1>1. HistoryInv /\ [Next]_coreVars /\ OfferInv
    BY CommerceStepIsCoreStep, CoreInvParts DEF CommerceInv
  <1>2. g.kind \in OrderForms => /\ s \in Orders /\ orders[s].state # "unborn" /\ Moved(s)
                                 /\ LatestNumber(s) \in Nat /\ pauses[s] \in Seq(PauseEvent)
    BY <1>1, OrdersMove DEF PageIsSound, HistoryInv, Gapless, TypeOK
  <1>3. g.kind \in {"version", "address"} =>
          /\ g.shown.row \in OrderRow /\ g.shown.row.state = "active"
          /\ g.expect = [latest |-> g.expect.latest, effective |-> g.shown.row.effective,
                         candidate |-> g.shown.row.candidate]
          /\ g.expect.latest \in Nat
          /\ Exists(s)' =>
               /\ orders'[s].inquiry = g.shown.row.inquiry
               /\ g.expect.latest <= LatestNumber(s)'
               /\ LatestNumber(s)' = g.expect.latest => VersionsOf(s)' = g.shown.versions
    <2> SUFFICES ASSUME g.kind \in {"version", "address"}
                 PROVE  /\ g.shown.row \in OrderRow /\ g.shown.row.state = "active"
                        /\ g.expect = [latest |-> g.expect.latest,
                                       effective |-> g.shown.row.effective,
                                       candidate |-> g.shown.row.candidate]
                        /\ g.expect.latest \in Nat
                        /\ Exists(s)' =>
                             /\ orders'[s].inquiry = g.shown.row.inquiry
                             /\ g.expect.latest <= LatestNumber(s)'
                             /\ LatestNumber(s)' = g.expect.latest =>
                                  VersionsOf(s)' = g.shown.versions
      OBVIOUS
    <2>1. /\ g.shown.row \in OrderRow /\ g.shown.row.state = "active"
          /\ g.expect = [latest |-> g.expect.latest, effective |-> g.shown.row.effective,
                         candidate |-> g.shown.row.candidate]
          /\ g.expect.latest \in Nat
          /\ Exists(s) =>
               /\ orders[s].inquiry = g.shown.row.inquiry
               /\ g.expect.latest <= LatestNumber(s)
               /\ LatestNumber(s) = g.expect.latest => VersionsOf(s) = g.shown.versions
      BY DEF PageIsSound, HoldsOfOrder
    <2>2. s \in Orders /\ orders[s].state # "unborn" /\ Moved(s) /\ LatestNumber(s) \in Nat
      BY <1>2 DEF OrderForms
    <2> QED
      BY <2>1, <2>2 DEF Moved
  <1>4. g.kind = "effective" =>
          /\ g.shown \in OrderRow /\ g.shown.state = "active"
          /\ g.expect = [latest |-> 0, effective |-> g.shown.effective,
                         candidate |-> g.shown.candidate]
          /\ Exists(s)' => orders'[s].inquiry = g.shown.inquiry
    BY <1>2 DEF PageIsSound, HoldsOfOrder, Moved, OrderForms
  <1>5. g.kind \in {"pause", "resume"} =>
          /\ g.shown \in Seq(PauseEvent) /\ g.expect.latest = Len(g.shown)
          /\ Exists(s)' => /\ Len(g.shown) <= Len(pauses'[s])
                           /\ Len(pauses'[s]) = Len(g.shown) => pauses'[s] = g.shown
    <2> SUFFICES ASSUME g.kind \in {"pause", "resume"}, Exists(s)'
                 PROVE  /\ Len(g.shown) <= Len(pauses'[s])
                        /\ Len(pauses'[s]) = Len(g.shown) => pauses'[s] = g.shown
      BY DEF PageIsSound, HoldsOfOrder
    <2>1. /\ g.shown \in Seq(PauseEvent)
          /\ Exists(s) => /\ Len(g.shown) <= Len(pauses[s])
                          /\ Len(pauses[s]) = Len(g.shown) => pauses[s] = g.shown
      BY DEF PageIsSound, HoldsOfOrder
    <2>2. /\ Exists(s) /\ pauses[s] \in Seq(PauseEvent)
          /\ pauses'[s] = pauses[s] \/ \E e \in PauseEvent : pauses'[s] = Append(pauses[s], e)
      BY <1>2 DEF Moved, OrderForms
    <2>3. pauses'[s] = pauses[s] \/ Len(pauses'[s]) = Len(pauses[s]) + 1
      BY <2>2
    <2>4. Len(g.shown) \in Nat /\ Len(pauses[s]) \in Nat
      BY <2>1, <2>2, LenProperties
    <2> QED
      BY <2>1, <2>2, <2>3, <2>4
  <1>6. HoldsOfOrder(p)'
    BY <1>0, <1>3, <1>4, <1>5 DEF HoldsOfOrder
  <1>7. HoldsUndisturbed(p)'
    BY <1>0 DEF HoldsUndisturbed, PageIsSound, OrderForms, InquiryForms
  <1>8. g.kind \in OrderForms => s \in Orders /\ orders'[s].state # "unborn"
    BY <1>2 DEF Moved
  <1>9. g.kind = "offer" => s \in Offers /\ g.version \in Numbers(s)'
    BY <1>1, OffersGrow DEF PageIsSound
  <1> QED
    BY <1>0, <1>6, <1>7, <1>8, <1>9 DEF PageIsSound

\* What the office has before its eyes when a page is rendered.
LEMMA ShownIs ==
    ASSUME NEW s
    PROVE  /\ \A kind \in {"version", "address"} :
                ShownOf(kind, s) = [row |-> orders[s], versions |-> VersionsOf(s)]
           /\ \A kind \in {"effective", "cancel"} : ShownOf(kind, s) = orders[s]
           /\ \A kind \in {"pause", "resume"} : ShownOf(kind, s) = pauses[s]
           /\ \A kind \in {"update", "contact", "delivery"} : ShownOf(kind, s) = inquiries[s]
  BY DEF ShownOf

LEMMA ExpectedIs ==
    ASSUME NEW s
    PROVE  /\ \A form \in {"version", "address"} :
                Precondition(form, s) = [latest    |-> LatestNumber(s),
                                         effective |-> orders[s].effective,
                                         candidate |-> orders[s].candidate]
           /\ Precondition("effective", s) = [latest    |-> 0,
                                              effective |-> orders[s].effective,
                                              candidate |-> orders[s].candidate]
           /\ \A form \in {"pause", "resume"} :
                Precondition(form, s) = [active |-> ActivePause(s), latest |-> Len(pauses[s])]
  BY DEF Precondition, PointersOf, PausesOf

LEMMA OpenedPagesAreSound ==
    ASSUME CommerceInv, PanelInv, NEW p \in Pages, NEW kind \in PageKinds,
           NEW s \in Orders \cup Inquiries \cup Offers, OpenPage(p, kind, s)
    PROVE  PageIsSound(p)'
PROOF
  <1> PICK g : g = PageOf(kind, s)
    OBVIOUS
  <1>10. pages'[p] = g /\ Renders(kind, s) /\ UNCHANGED <<orders, inquiries, pauses>>
    BY DEF OpenPage, PanelInv, CoreUnchanged, offerVars, coreVars
  <1>11. /\ Exists(s)' = Exists(s) /\ LatestNumber(s)' = LatestNumber(s)
        /\ VersionsOf(s)' = VersionsOf(s) /\ Numbers(s)' = Numbers(s)
    <2>1. UNCHANGED <<orders, versions, offers>>
      BY DEF OpenPage, CoreUnchanged, offerVars, coreVars
    <2>2. VersionsOf(s)' = VersionsOf(s)
      BY <2>1 DEF VersionsOf, Owned, Stored
    <2>3. NumbersOf(s)' = NumbersOf(s)
      BY <2>1, <2>2 DEF NumbersOf
    <2> QED
      BY <2>1, <2>2, <2>3 DEF Exists, LatestNumber, Numbers
  <1>0. /\ g.kind = kind /\ g.subject = s /\ g.expect = Precondition(kind, s)
        /\ g.version = NamedVersion(kind, s) /\ g.shown = ShownOf(kind, s)
    BY DEF PageOf
  <1>1. HistoryInv /\ TypeOK /\ OfferInv
    BY CoreInvParts DEF CommerceInv, HistoryInv
  <1>2. kind \in OrderForms =>
          /\ s \in Orders /\ RendersOrderForm(kind, s) /\ Exists(s)
          /\ orders[s] \in OrderRow /\ pauses[s] \in Seq(PauseEvent)
          /\ LatestNumber(s) \in Nat /\ VersionsOf(s) # {} /\ Gapless(s)
    <2> SUFFICES ASSUME kind \in OrderForms
                 PROVE  /\ s \in Orders /\ RendersOrderForm(kind, s) /\ Exists(s)
                        /\ orders[s] \in OrderRow /\ pauses[s] \in Seq(PauseEvent)
                        /\ LatestNumber(s) \in Nat /\ VersionsOf(s) # {} /\ Gapless(s)
      OBVIOUS
    <2>1. s \in Orders /\ RendersOrderForm(kind, s)
      BY <1>10 DEF Renders, RendersInquiryForm, OrderForms, InquiryForms
    <2>2. Exists(s)
      BY <2>1 DEF RendersOrderForm, Exists, Active
    <2> QED
      BY <1>1, <2>1, <2>2, InvImpliesGapless DEF TypeOK, HistoryIsGapless, HistoryInv, Gapless
  <1>3. kind \in InquiryForms => s \in Inquiries
    BY <1>10 DEF Renders, RendersOrderForm, OrderForms, InquiryForms
  <1>4. kind = "offer" => s \in Offers /\ g.version \in Numbers(s)
    <2> SUFFICES ASSUME kind = "offer"  PROVE s \in Offers /\ g.version \in Numbers(s)
      OBVIOUS
    <2>1. s \in Offers /\ Prepared(s)
      BY <1>10 DEF Renders, RendersOrderForm, RendersInquiryForm, OrderForms, InquiryForms
    <2>2. g.version = IF offers[s].accepted # 0 THEN offers[s].accepted ELSE Latest(s)
      BY <1>0 DEF NamedVersion
    <2>3. offers[s].versions \in Seq(OfferVersion) /\ Len(offers[s].versions) \in Nat
      BY <1>1, <2>1, LenProperties DEF OfferInv, OfferRow
    <2>4. offers[s].versions # <<>>
      BY <2>1 DEF CommerceInv, EvidenceInv, InTime, Prepared
    <2>5. Latest(s) \in Numbers(s)
      BY <2>3, <2>4 DEF Latest, Numbers
    <2> QED
      BY <1>1, <2>1, <2>2, <2>5 DEF OfferInv
  <1>5. kind = "address" => g.version \in Versions
    <2>1. kind = "address" => LatestVersion(s) \in VersionsOf(s)
      BY <1>2, NewestVersion DEF OrderForms
    <2> QED
      BY <1>0, <2>1 DEF NamedVersion, TargetVersion, VersionsOf
  <1>6. kind = "effective" => g.version \in Versions
    BY <1>0, <1>2 DEF NamedVersion, RendersOrderForm, OrderForms, OrderRow, Optional
  <1>7. HoldsOfOrder(p)'
    <2>1. CASE kind \in {"version", "address"}
      <3>1. /\ g.shown = [row |-> orders[s], versions |-> VersionsOf(s)]
            /\ g.expect = [latest    |-> LatestNumber(s),
                           effective |-> orders[s].effective,
                           candidate |-> orders[s].candidate]
        BY <1>0, <2>1, ShownIs, ExpectedIs
      <3>2. Active(s) /\ orders[s] \in OrderRow /\ LatestNumber(s) \in Nat
        BY <1>2, <2>1 DEF RendersOrderForm, OrderForms
      <3> QED
        BY <1>0, <1>10, <1>11, <2>1, <3>1, <3>2 DEF HoldsOfOrder, Active
    <2>2. CASE kind = "effective"
      <3>1. /\ g.shown = orders[s]
            /\ g.expect = [latest |-> 0, effective |-> orders[s].effective,
                           candidate |-> orders[s].candidate]
        BY <1>0, <2>2, ShownIs, ExpectedIs
      <3>2. Active(s) /\ orders[s] \in OrderRow
        BY <1>2, <2>2 DEF RendersOrderForm, OrderForms
      <3> QED
        BY <1>0, <1>10, <1>11, <2>2, <3>1, <3>2 DEF HoldsOfOrder, Active
    <2>3. CASE kind \in {"pause", "resume"}
      <3>1. /\ g.shown = pauses[s]
            /\ g.expect = [active |-> ActivePause(s), latest |-> Len(pauses[s])]
        BY <1>0, <2>3, ShownIs, ExpectedIs
      <3>2. pauses[s] \in Seq(PauseEvent) /\ Len(pauses[s]) \in Nat
        BY <1>2, <2>3, LenProperties DEF OrderForms
      <3> QED
        BY <1>0, <1>10, <1>11, <2>3, <3>1, <3>2 DEF HoldsOfOrder
    <2>4. CASE kind \notin {"version", "address", "effective", "pause", "resume"}
      BY <1>0, <1>10, <2>4 DEF HoldsOfOrder
    <2> QED
      BY <2>1, <2>2, <2>3, <2>4
  <1>8. HoldsUndisturbed(p)'
    BY <1>0, <1>10, ShownIs DEF HoldsUndisturbed
  <1>9. kind \in OrderForms => orders'[s].state # "unborn"
    BY <1>2, <1>10 DEF Exists
  <1> QED
    BY <1>0, <1>10, <1>11, <1>2, <1>3, <1>4, <1>5, <1>6, <1>7, <1>8, <1>9 DEF PageIsSound

-----------------------------------------------------------------------------
(* The forms of a page, sent. *)

LEMMA EnvelopesAre ==
    ASSUME NEW page, NEW form, NEW choice
    PROVE  /\ form = page.kind /\ form \in OrderForms =>
                LET e == Envelope(page, form, choice)
                IN  /\ e.form = form /\ e.subject = page.subject /\ e.choice = choice
                    /\ e.expect = page.expect /\ e.version = page.version
           /\ form = page.kind /\ form \in InquiryForms \ {"convert"} =>
                LET e == Envelope(page, form, choice)
                IN  e.form = form /\ e.subject = page.subject /\ e.choice = choice
           /\ form \in OfferForms =>
                LET e == Envelope(page, form, choice)
                IN  /\ e.form = form /\ e.subject = page.subject /\ e.choice = choice
                    /\ e.version = NamedVersion("offer", page.subject)
                    /\ form = "acceptance" => e.variant = page.version
           /\ form = "convert" =>
                LET e == Envelope(page, form, choice)
                IN  e.form = "conversion" /\ e.subject = OfferOf(page.subject) /\ e.choice = choice
PROOF
  <1>1. CASE form \in OrderForms
    BY <1>1 DEF Envelope, OrderEnvelope, NewEnvelope, OrderForms, InquiryForms, OfferForms
  <1>2. CASE form \in InquiryForms \ {"convert"}
    BY <1>2 DEF Envelope, InquiryEnvelope, NewEnvelope, OrderForms, InquiryForms, OfferForms
  <1>3. CASE form \in OfferForms
    BY <1>3 DEF Envelope, OfferEnvelope, NewEnvelope, OrderForms, InquiryForms, OfferForms
  <1>4. CASE form = "convert"
    BY <1>4 DEF Envelope, ConvertEnvelope, NewEnvelope, OrderForms, InquiryForms, OfferForms
  <1> QED
    BY <1>1, <1>2, <1>3, <1>4

LEMMA StandingVersion ==
    ASSUME OfferInv, NEW f \in Offers, Numbers(f) # {}
    PROVE  NamedVersion("offer", f) \in Numbers(f)
PROOF
  <1>1. Len(offers[f].versions) \in Nat /\ offers[f].accepted \in Numbers(f) \cup {0}
    BY LenProperties DEF OfferInv, OfferRow
  <1>2. Latest(f) \in Numbers(f)
    BY <1>1 DEF Latest, Numbers
  <1>3. NamedVersion("offer", f) =
          IF offers[f].accepted # 0 THEN offers[f].accepted ELSE Latest(f)
    BY DEF NamedVersion
  <1> QED
    BY <1>1, <1>2, <1>3

LEMMA SubmittedIsSound ==
    ASSUME CommerceInv, PanelInv, NEW p \in Pages, pages[p] # None,
           NEW form \in FormsOf(pages[p]), NEW choice \in Choices(form),
           Read(form, pages[p].subject) = None
    PROVE  EnvelopeIsSound(p, Envelope(pages[p], form, choice))
PROOF
  <1> PICK g : g = pages[p]
    OBVIOUS
  <1> PICK e : e = Envelope(g, form, choice)
    OBVIOUS
  <1>1. PageIsSound(p) /\ g.kind \in PageKinds
    BY DEF PanelInv, PageIsSound
  <1>2. CASE g.kind = "offer"
    <2>1. form \in OfferForms
      BY <1>2 DEF FormsOf, FormsOfOffer, OfferForms
    <2>2. g.subject \in Offers /\ g.version \in Numbers(g.subject)
      BY <1>1, <1>2 DEF PageIsSound
    <2>3. NamedVersion("offer", g.subject) \in Numbers(g.subject)
      BY <2>2, StandingVersion DEF CommerceInv
    <2>4. /\ e.form = form /\ e.subject = g.subject /\ e.choice = choice
          /\ e.version = NamedVersion("offer", g.subject)
          /\ form = "acceptance" => e.variant = g.version
      BY <2>1, EnvelopesAre
    <2> QED
      BY <2>1, <2>2, <2>3, <2>4
         DEF EnvelopeIsSound, Forms, OfferForms, OrderForms, InquiryForms
  <1>3. CASE g.kind \in OrderForms
    <2>1. form = g.kind
      BY <1>3 DEF FormsOf, OrderForms
    <2>2. /\ e.form = form /\ e.subject = g.subject /\ e.choice = choice
          /\ e.expect = g.expect /\ e.version = g.version
      BY <1>3, <2>1, EnvelopesAre
    <2> QED
      BY <1>3, <2>1, <2>2 DEF EnvelopeIsSound, Forms, OfferForms, OrderForms, InquiryForms
  <1>4. CASE g.kind \in InquiryForms \ {"convert"}
    <2>1. form = g.kind
      BY <1>4 DEF FormsOf, InquiryForms
    <2>2. e.form = form /\ e.subject = g.subject /\ e.choice = choice
      BY <1>4, <2>1, EnvelopesAre
    <2> QED
      BY <1>4, <2>1, <2>2 DEF EnvelopeIsSound, Forms, OfferForms, OrderForms, InquiryForms
  <1>5. CASE g.kind = "convert"
    <2>1. form = "convert" /\ g.subject \in Inquiries
      BY <1>1, <1>5 DEF FormsOf, PageIsSound, InquiryForms
    <2>2. NextAction(g.subject) = "convert-accepted"
      BY <2>1, AnswersAssumption DEF Read, ReadByConvert, OrderForms, Says
    <2>3. OffersOf(g.subject) # {}
      BY <2>2 DEF NextAction
    <2>4. OfferOf(g.subject) \in Offers
      BY <2>3 DEF OffersOf, OfferOf
    <2>5. e.form = "conversion" /\ e.subject = OfferOf(g.subject) /\ e.choice = choice
      BY <2>1, EnvelopesAre
    <2>6. choice \in Choices("conversion")
      BY <2>1, ChoicesAre
    <2> QED
      BY <2>4, <2>5, <2>6 DEF EnvelopeIsSound, Forms, OfferForms, OrderForms, InquiryForms
  <1> QED
    BY <1>1, <1>2, <1>3, <1>4, <1>5 DEF PageKinds

-----------------------------------------------------------------------------
(* The invariant of the panel. *)

LEMMA PanelKeepsCommerce ==
    ASSUME CommerceInv, [CommerceNext]_offerVars
    PROVE  CommerceInv'
PROOF
  <1>1. [Next]_coreVars
    BY CommerceStepIsCoreStep DEF CommerceInv
  <1> QED
    BY <1>1, NextKeepsInv, CommerceStepsKeepInv, CommerceKeepsEvidence DEF CommerceInv

LEMMA DisturbedPages ==
    ASSUME PanelInv, Disturbance, NEW p \in Pages, pages[p] # None
    PROVE  /\ disturbed'[p] \in {"no", "elsewhere", "subject"}
           /\ disturbed'[p] # "subject" =>
                /\ disturbed[p] # "subject"
                /\ pages[p].subject \in Orders =>
                     orders'[pages[p].subject] = orders[pages[p].subject]
                /\ pages[p].subject \in Inquiries =>
                     inquiries'[pages[p].subject] = inquiries[pages[p].subject]
PROOF
  <1>1. disturbed'[p] = Disturb(p)
    BY DEF Disturbance
  <1>2. disturbed[p] \in {"no", "elsewhere", "subject"}
    BY DEF PanelInv
  <1>3. CASE UNCHANGED offerVars
    BY <1>1, <1>2, <1>3 DEF Disturb, offerVars, coreVars
  <1>4. CASE ~ UNCHANGED offerVars
    BY <1>1, <1>2, <1>4 DEF Disturb
  <1> QED
    BY <1>3, <1>4

LEMMA EnvelopeStays ==
    ASSUME OfferInv, [CommerceNext]_offerVars, NEW p \in Pages, NEW e, EnvelopeIsSound(p, e),
           pages'[p] = pages[p]
    PROVE  EnvelopeIsSound(p, e)'
PROOF
  <1>1. e.subject \in Offers => Numbers(e.subject) \subseteq Numbers(e.subject)'
    BY OffersGrow
  <1> QED
    BY <1>1 DEF EnvelopeIsSound, OfferForms

\* The invariant by the variables of the panel a step writes: whatever it does, the
\* pages that were open stay sound if the step has told them what it changed.
LEMMA PanelKeepsPages ==
    ASSUME CommerceInv, PanelInv, [CommerceNext]_offerVars,
           \/ Disturbance
           \/ /\ UNCHANGED offerVars
              /\ disturbed' \in [Pages -> {"no", "elsewhere", "subject"}]
              /\ \A q \in Pages : disturbed'[q] \in {disturbed[q], "subject"},
           pages' = [q \in Pages |-> pages'[q]],
           \A q \in Pages : pages'[q] = pages[q] \/ (pages[q] = None /\ PageIsSound(q)'),
           ledger' = [q \in Pages |-> ledger'[q]],
           \A q \in Pages : ledger'[q] = ledger[q] \/ pages[q] # None,
           flight' # None => /\ flight'.page \in Pages /\ pages[flight'.page] # None
                             /\ EnvelopeIsSound(flight.page, flight.envelope)',
           answer' # None => answer'.says \in Says
    PROVE  PanelInv'
PROOF
  <1>1. disturbed' \in [Pages -> {"no", "elsewhere", "subject"}]
    <2>1. CASE Disturbance
      <3>1. \A q \in Pages : disturbed[q] \in {"no", "elsewhere", "subject"}
        BY DEF PanelInv
      <3>2. \A q \in Pages : Disturb(q) \in {"no", "elsewhere", "subject"}
        BY <3>1 DEF Disturb
      <3> QED
        BY <2>1, <3>2 DEF Disturbance
    <2> QED
      BY <2>1
  <1>2. ASSUME NEW q \in Pages
        PROVE  IF pages'[q] = None THEN ledger'[q] = None ELSE PageIsSound(q)'
    <2>1. CASE pages[q] = None
      <3>1. ledger[q] = None /\ ledger'[q] = ledger[q]
        BY <2>1 DEF PanelInv
      <3> QED
        BY <2>1, <3>1
    <2>2. CASE pages[q] # None
      <3>1. PageIsSound(q) /\ pages'[q] = pages[q]
        BY <2>2 DEF PanelInv
      <3>2. disturbed'[q] # "subject" =>
              /\ disturbed[q] # "subject"
              /\ pages[q].subject \in Orders =>
                   orders'[pages[q].subject] = orders[pages[q].subject]
              /\ pages[q].subject \in Inquiries =>
                   inquiries'[pages[q].subject] = inquiries[pages[q].subject]
        BY <2>2, DisturbedPages DEF offerVars, coreVars
      <3> QED
        BY <2>2, <3>1, <3>2, SoundPagesStay
    <2> QED
      BY <2>1, <2>2
  <1>3. flight' # None => pages'[flight'.page] # None
    OBVIOUS
  <1>4. flight' # None => /\ flight'.page \in Pages /\ pages'[flight'.page] # None
                          /\ EnvelopeIsSound(flight.page, flight.envelope)'
    BY <1>3
  <1>5. /\ pages' = [q \in Pages |-> pages'[q]] /\ ledger' = [q \in Pages |-> ledger'[q]]
        /\ answer' # None => answer'.says \in Says
    OBVIOUS
  <1> QED
    BY <1>1, <1>2, <1>4, <1>5 DEF PanelInv

LEMMA PanelKeepsInv ==
    ASSUME CommerceInv, PanelInv, [PanelNext]_panelVars
    PROVE  PanelInv'
PROOF
  <1>0. /\ [CommerceNext]_offerVars /\ OfferInv
        /\ pages = [q \in Pages |-> pages[q]] /\ ledger = [q \in Pages |-> ledger[q]]
        /\ disturbed \in [Pages -> {"no", "elsewhere", "subject"}]
        /\ flight # None => /\ flight.page \in Pages /\ pages[flight.page] # None
                            /\ EnvelopeIsSound(flight.page, flight.envelope)
        /\ answer # None => answer.says \in Says
    BY PanelStepsAreCommerce DEF CommerceInv, PanelInv
  <1>1. ASSUME flight' = flight, [CommerceNext]_offerVars,
               \A q \in Pages : pages[q] # None => pages'[q] = pages[q]
        PROVE  flight' # None => /\ flight'.page \in Pages /\ pages[flight'.page] # None
                                 /\ EnvelopeIsSound(flight.page, flight.envelope)'
    <2> SUFFICES ASSUME flight # None
                 PROVE  EnvelopeIsSound(flight.page, flight.envelope)'
      BY <1>0, <1>1
    <2> PICK e : e = flight.envelope
      OBVIOUS
    <2> PICK p \in Pages : p = flight.page
      BY <1>0
    <2>1. EnvelopeIsSound(p, e)'
      BY <1>0, <1>1, EnvelopeStays
    <2> QED
      BY <1>1, <2>1
  <1>2. ASSUME NEW p \in Pages, NEW kind \in PageKinds,
               NEW s \in Orders \cup Inquiries \cup Offers, OpenPage(p, kind, s)
        PROVE  PanelInv'
    <2>1. /\ pages[p] = None /\ pages' = [pages EXCEPT ![p] = PageOf(kind, s)]
          /\ answer' = None /\ UNCHANGED <<disturbed, flight, ledger>> /\ UNCHANGED offerVars
      BY <1>2 DEF OpenPage, CoreUnchanged
    <2>2. PageIsSound(p)'
      BY <1>2, OpenedPagesAreSound
    <2>3. /\ pages' = [q \in Pages |-> pages'[q]]
          /\ \A q \in Pages : pages'[q] = pages[q] \/ (pages[q] = None /\ PageIsSound(q)')
          /\ \A q \in Pages : pages[q] # None => pages'[q] = pages[q]
      BY <1>0, <2>1, <2>2
    <2>4. flight' # None => /\ flight'.page \in Pages /\ pages[flight'.page] # None
                            /\ EnvelopeIsSound(flight.page, flight.envelope)'
      BY <1>0, <1>1, <2>1, <2>3
    <2> QED
      BY <1>0, <2>1, <2>3, <2>4, PanelKeepsPages
  <1>3. ASSUME NEW p \in Pages, NEW form \in Forms, NEW choice \in Choices(form),
               SubmitForm(p, form, choice)
        PROVE  PanelInv'
    <2>1. /\ UNCHANGED <<pages, disturbed, ledger>> /\ UNCHANGED offerVars
          /\ pages[p] # None /\ form \in FormsOf(pages[p])
      BY <1>3 DEF SubmitForm, CoreUnchanged
    <2>2. \/ /\ Answer(p, Read(form, pages[p].subject)) /\ UNCHANGED flight
             /\ Read(form, pages[p].subject) # None
          \/ /\ Read(form, pages[p].subject) = None /\ answer' = None
             /\ flight' = [page |-> p, envelope |-> Envelope(pages[p], form, choice)]
      BY <1>3 DEF SubmitForm
    <2>3. Read(form, pages[p].subject) \in Says \cup {None}
      BY DEF Read, ReadByOrderForm, ReadByConvert, ReadByOfferForm, Says
    <2>4. answer' # None => answer'.says \in Says
      BY <2>2, <2>3 DEF Answer
    <2>5. flight' # None => /\ flight'.page \in Pages /\ pages[flight'.page] # None
                            /\ EnvelopeIsSound(flight.page, flight.envelope)'
      <3>1. CASE UNCHANGED flight
        BY <1>0, <1>1, <2>1, <3>1
      <3>2. CASE /\ Read(form, pages[p].subject) = None
                 /\ flight' = [page |-> p, envelope |-> Envelope(pages[p], form, choice)]
        <4> PICK e : e = Envelope(pages[p], form, choice)
          OBVIOUS
        <4>1. EnvelopeIsSound(p, e)
          BY <2>1, <3>2, SubmittedIsSound
        <4>2. EnvelopeIsSound(p, e)'
          BY <1>0, <2>1, <4>1, EnvelopeStays
        <4> QED
          BY <2>1, <3>2, <4>2
      <3> QED
        BY <2>2, <3>1, <3>2
    <2> QED
      BY <1>0, <2>1, <2>4, <2>5, PanelKeepsPages
  <1>4. CASE HandleFlight
    <2>1. /\ flight.page \in Pages /\ pages[flight.page] # None
          /\ Handle(flight.page, flight.envelope)
          /\ Disturbance /\ flight' = None /\ UNCHANGED pages
      BY <1>0, <1>4 DEF HandleFlight
    <2>2. \/ ledger' = ledger
          \/ ledger' = [ledger EXCEPT ![flight.page] = flight.envelope]
      BY <2>1 DEF Handle
    <2>3. answer'.says \in Says
      BY <2>1 DEF Handle, Answer, Says
    <2>4. /\ ledger' = [q \in Pages |-> ledger'[q]]
          /\ \A q \in Pages : ledger'[q] = ledger[q] \/ pages[q] # None
      BY <1>0, <2>1, <2>2
    <2> QED
      BY <1>0, <2>1, <2>3, <2>4, PanelKeepsPages
  <1>5. CASE LoseFlight
    <2>1. /\ flight' = None /\ answer' = None /\ UNCHANGED <<pages, disturbed, ledger>>
          /\ UNCHANGED offerVars
      BY <1>5 DEF LoseFlight, CoreUnchanged
    <2> QED
      BY <1>0, <2>1, PanelKeepsPages
  <1>6. CASE Elsewhere
    <2>1. /\ Disturbance /\ answer' = None /\ UNCHANGED <<pages, flight, ledger>>
      BY <1>6 DEF Elsewhere
    <2>2. flight' # None => /\ flight'.page \in Pages /\ pages[flight'.page] # None
                            /\ EnvelopeIsSound(flight.page, flight.envelope)'
      BY <1>0, <1>1, <2>1
    <2> QED
      BY <1>0, <2>1, <2>2, PanelKeepsPages
  <1>7. ASSUME NEW i \in Inquiries, SavedUnchanged(i)  PROVE PanelInv'
    <2>1. /\ disturbed' = [p \in Pages |-> IF pages[p] # None /\ pages[p].subject = i
                                           THEN "subject" ELSE disturbed[p]]
          /\ answer' = None /\ UNCHANGED <<pages, flight, ledger>> /\ UNCHANGED offerVars
      BY <1>7 DEF SavedUnchanged, CoreUnchanged
    <2>2. /\ disturbed' \in [Pages -> {"no", "elsewhere", "subject"}]
          /\ \A q \in Pages : disturbed'[q] \in {disturbed[q], "subject"}
      BY <1>0, <2>1
    <2>3. flight' # None => /\ flight'.page \in Pages /\ pages[flight'.page] # None
                            /\ EnvelopeIsSound(flight.page, flight.envelope)'
      BY <1>0, <1>1, <2>1
    <2> QED
      BY <1>0, <2>1, <2>2, <2>3, PanelKeepsPages
  <1>8. CASE UNCHANGED panelVars
    <2>1. UNCHANGED <<pages, disturbed, flight, ledger, answer>> /\ UNCHANGED offerVars
      BY <1>8 DEF panelVars
    <2>2. flight' # None => /\ flight'.page \in Pages /\ pages[flight'.page] # None
                            /\ EnvelopeIsSound(flight.page, flight.envelope)'
      BY <1>0, <1>1, <2>1
    <2> QED
      BY <1>0, <2>1, <2>2, PanelKeepsPages
  <1> QED
    BY <1>2, <1>3, <1>4, <1>5, <1>6, <1>7, <1>8 DEF PanelNext

-----------------------------------------------------------------------------
(* What a page that is carried out has to do with what it showed. *)

\* Only a command that passes the ledger and its expectations is carried out.
LEMMA DoneIsPerformed ==
    ASSUME CommerceInv, PanelInv, PanelNext, SaysNow({"done"})
    PROVE  /\ flight.page \in Pages /\ pages[flight.page] # None
           /\ PageIsSound(flight.page) /\ EnvelopeIsSound(flight.page, flight.envelope)
           /\ ~ Gone(flight.envelope) /\ ~ Stale(flight.page, flight.envelope)
           /\ Perform(flight.envelope)
PROOF
  <1>0. answer' # None /\ answer'.says = "done"
    BY DEF SaysNow
  <1>1. ~ \E p \in Pages : \E kind \in PageKinds, s \in Orders \cup Inquiries \cup Offers :
              OpenPage(p, kind, s)
    BY <1>0 DEF OpenPage
  <1>2. ASSUME NEW p \in Pages, NEW form \in Forms, NEW choice \in Choices(form),
               SubmitForm(p, form, choice)
        PROVE  FALSE
    <2>1. Read(form, pages[p].subject) \in {"gone", "not_paused", "existing", "refused", None}
      BY DEF Read, ReadByOrderForm, ReadByConvert, ReadByOfferForm
    <2>2. Read(form, pages[p].subject) # None
          /\ answer' = [page |-> p, says |-> Read(form, pages[p].subject)]
      BY <1>0, <1>2 DEF SubmitForm, Answer
    <2> QED
      BY <1>0, <2>1, <2>2
  <1>3. HandleFlight
    BY <1>0, <1>1, <1>2 DEF PanelNext, LoseFlight, Elsewhere, SavedUnchanged
  <1>4. /\ flight.page \in Pages /\ pages[flight.page] # None
        /\ PageIsSound(flight.page) /\ EnvelopeIsSound(flight.page, flight.envelope)
    BY <1>3 DEF HandleFlight, PanelInv
  <1>5. /\ ~ Gone(flight.envelope) /\ ~ Stale(flight.page, flight.envelope)
        /\ Perform(flight.envelope)
    BY <1>0, <1>3 DEF HandleFlight, Handle, Answer
  <1> QED
    BY <1>4, <1>5

LEMMA CommandOfForm ==
    ASSUME NEW e, Perform(e)
    PROVE  /\ e.form \in {"version", "address"} => CmdCreateVersion(e)
           /\ e.form = "effective" => CmdEffective(e)
           /\ e.form = "acceptance" => CmdAcceptance(e)
  BY DEF Perform, CmdCreateVersion, CmdEffective, CmdCancel, CmdPause, CmdResume, CmdDelete,
         CmdInquiry, CmdMarkSent, CmdAcceptance, CmdRejection, CmdWithdrawal, CmdConversion

LEMMA OrderRowsAreEqual ==
    ASSUME NEW r \in OrderRow, NEW q \in OrderRow, r.state = q.state, r.inquiry = q.inquiry,
           r.candidate = q.candidate, r.effective = q.effective
    PROVE  r = q
  BY DEF OrderRow

LEMMA DoneAsShown ==
    ASSUME CommerceInv, PanelInv, NEW p \in Pages, NEW e, pages[p] # None, PageIsSound(p),
           EnvelopeIsSound(p, e), ~ Gone(e), ~ Stale(p, e), Perform(e)
    PROVE  /\ e.form \in {"version", "address"} =>
                /\ orders[e.subject] = pages[p].shown.row
                /\ VersionsOf(e.subject) = pages[p].shown.versions
           /\ e.form \in {"effective", "cancel"} => orders[e.subject] = pages[p].shown
           /\ e.form \in {"pause", "resume"} => pauses[e.subject] = pages[p].shown
           /\ e.form \in {"update", "contact", "delivery"} =>
                inquiries[e.subject] = pages[p].shown
           /\ e.form = "acceptance" => offers'[e.subject].accepted = pages[p].version
PROOF
  <1> PICK g : g = pages[p]
    OBVIOUS
  <1> PICK s : s = e.subject
    OBVIOUS
  <1>0. e.form \in OrderForms \cup InquiryForms => e.form = g.kind /\ s = g.subject
    BY DEF EnvelopeIsSound
  <1>1. e.form \in OrderForms =>
          /\ s \in Orders /\ orders[s] \in OrderRow /\ Exists(s)
          /\ g.expect = Precondition(e.form, s)
    BY <1>0, CoreInvParts
       DEF EnvelopeIsSound, PageIsSound, Gone, Stale, CommerceInv, HistoryInv, TypeOK
  <1>2. CASE e.form \in {"version", "address"}
    <2>1. /\ s \in Orders /\ orders[s] \in OrderRow /\ Exists(s)
          /\ g.kind \in {"version", "address"} /\ s = g.subject
      BY <1>0, <1>1, <1>2 DEF OrderForms
    <2>2. g.expect = [latest |-> LatestNumber(s), effective |-> orders[s].effective,
                      candidate |-> orders[s].candidate]
      BY <1>1, <1>2, ExpectedIs DEF OrderForms
    <2>3. /\ g.shown.row \in OrderRow /\ g.shown.row.state = "active"
          /\ g.expect = [latest |-> g.expect.latest, effective |-> g.shown.row.effective,
                         candidate |-> g.shown.row.candidate]
          /\ orders[s].inquiry = g.shown.row.inquiry
          /\ LatestNumber(s) = g.expect.latest => VersionsOf(s) = g.shown.versions
      BY <2>1 DEF PageIsSound, HoldsOfOrder
    <2>4. Active(s)
      BY <1>2, CommandOfForm DEF CmdCreateVersion, ProposeChange, ProposeAddress
    <2>5. /\ LatestNumber(s) = g.expect.latest
          /\ orders[s].effective = g.shown.row.effective
          /\ orders[s].candidate = g.shown.row.candidate
      BY <2>2, <2>3
    <2>6. orders[s] = g.shown.row
      BY <2>1, <2>3, <2>4, <2>5, OrderRowsAreEqual DEF Active
    <2> QED
      BY <1>2, <2>3, <2>5, <2>6
  <1>3. CASE e.form = "effective"
    <2>1. /\ s \in Orders /\ orders[s] \in OrderRow /\ Exists(s)
          /\ g.kind = "effective" /\ s = g.subject
      BY <1>0, <1>1, <1>3 DEF OrderForms
    <2>2. g.expect = [latest |-> 0, effective |-> orders[s].effective,
                      candidate |-> orders[s].candidate]
      BY <1>1, <1>3, ExpectedIs DEF OrderForms
    <2>3. /\ g.shown \in OrderRow /\ g.shown.state = "active"
          /\ g.expect = [latest |-> 0, effective |-> g.shown.effective,
                         candidate |-> g.shown.candidate]
          /\ orders[s].inquiry = g.shown.inquiry
      BY <2>1 DEF PageIsSound, HoldsOfOrder
    <2>4. Active(s)
      BY <1>3, CommandOfForm DEF CmdEffective, MakeEffective
    <2>5. orders[s].effective = g.shown.effective /\ orders[s].candidate = g.shown.candidate
      BY <2>2, <2>3
    <2>6. orders[s] = g.shown
      BY <2>1, <2>3, <2>4, <2>5, OrderRowsAreEqual DEF Active
    <2> QED
      BY <1>3, <2>6
  <1>4. CASE e.form \in {"cancel", "update", "contact", "delivery"}
    <2>1. g.kind = e.form /\ s = g.subject /\ disturbed[p] # "subject"
      BY <1>0, <1>4 DEF OrderForms, InquiryForms, Stale, Stamped
    <2>2. /\ g.kind = "cancel" => orders[s] = g.shown
          /\ g.kind \in {"update", "contact", "delivery"} => inquiries[s] = g.shown
      BY <2>1 DEF PageIsSound, HoldsUndisturbed
    <2> QED
      BY <1>4, <2>1, <2>2
  <1>5. CASE e.form \in {"pause", "resume"}
    <2>1. Exists(s) /\ g.kind \in {"pause", "resume"} /\ s = g.subject
      BY <1>0, <1>1, <1>5 DEF OrderForms
    <2>2. g.expect = [active |-> ActivePause(s), latest |-> Len(pauses[s])]
      BY <1>1, <1>5, ExpectedIs DEF OrderForms
    <2>3. /\ g.expect.latest = Len(g.shown)
          /\ Len(pauses[s]) = Len(g.shown) => pauses[s] = g.shown
      BY <2>1 DEF PageIsSound, HoldsOfOrder
    <2> QED
      BY <1>5, <2>2, <2>3
  <1>6. CASE e.form = "acceptance"
    <2>1. s \in Offers /\ e.variant = g.version
      BY <1>6 DEF EnvelopeIsSound, OfferForms
    <2>2. e.variant = e.version /\ RecordAcceptance(s, e.version, today)
      BY <1>6, CommandOfForm DEF CmdAcceptance
    <2>3. offers \in [Offers -> OfferRow]
      BY DEF CommerceInv, OfferInv
    <2>4. offers'[s].accepted = e.version
      BY <2>1, <2>2, <2>3 DEF RecordAcceptance, OfferRow
    <2> QED
      BY <1>6, <2>1, <2>2, <2>4
  <1> QED
    BY <1>2, <1>3, <1>4, <1>5, <1>6

LEMMA DecidedOnce ==
    ASSUME PanelInv, PanelNext, NEW p \in Pages, ledger[p] # None
    PROVE  /\ ledger'[p] = ledger[p]
           /\ answer' # None /\ answer'.page = p => CoreUnchanged
PROOF
  <1>1. CASE HandleFlight
    <2>1. Handle(flight.page, flight.envelope) /\ flight.page \in Pages
      BY <1>1 DEF HandleFlight, PanelInv
    <2>2. \A e : ledger' = [ledger EXCEPT ![flight.page] = e] /\ p # flight.page
                   => ledger'[p] = ledger[p]
      BY DEF PanelInv
    <2>3. answer'.page = flight.page
      BY <2>1 DEF Handle, Answer
    <2>4. CASE p = flight.page
      BY <2>1, <2>4 DEF Handle
    <2>5. CASE p # flight.page
      BY <2>1, <2>2, <2>3, <2>5 DEF Handle
    <2> QED
      BY <2>4, <2>5
  <1>2. CASE Elsewhere \/ LoseFlight
    BY <1>2 DEF Elsewhere, LoseFlight
  <1>3. CASE ledger' = ledger /\ CoreUnchanged
    BY <1>3
  <1> QED
    BY <1>1, <1>2, <1>3 DEF PanelNext, OpenPage, SubmitForm, SavedUnchanged

LEMMA PanelInitSound == PanelInit => CommerceInv /\ PanelInv
PROOF
  <1> SUFFICES ASSUME PanelInit  PROVE CommerceInv /\ PanelInv
    OBVIOUS
  <1>1. CoreInv
    BY InitInv DEF PanelInit, OfferInit
  <1>2. OfferInv
    BY InitialOffers DEF PanelInit
  <1>3. EvidenceInv
    BY CalendarAssumption
       DEF PanelInit, OfferInit, NoOffer, EvidenceInv, InTime, OneOfferEach, Days
  <1>4. PanelInv
    BY DEF PanelInit, PanelInv
  <1> QED
    BY <1>1, <1>2, <1>3, <1>4 DEF CommerceInv

LEMMA PanelInvariance == PanelSpec => [](CommerceInv /\ PanelInv)
PROOF
  <1>1. CommerceInv /\ PanelInv /\ [PanelNext]_panelVars => CommerceInv' /\ PanelInv'
    BY PanelStepsAreCommerce, PanelKeepsCommerce, PanelKeepsInv
  <1> QED
    BY PanelInitSound, <1>1, PTL DEF PanelSpec

\* The panel and its Core implement the commercial side: whatever the office sends, late,
\* twice or after a lost answer, the orders, inquiries and offers behave as CommerceSpec
\* says, and every theorem about it holds behind the panel too.
THEOREM PanelImplementsCommerce == PanelSpec => CommerceSpec
PROOF
  <1>1. PanelInit => OfferInit
    BY DEF PanelInit
  <1>2. CommerceInv /\ PanelInv /\ [PanelNext]_panelVars => [CommerceNext]_offerVars
    BY PanelStepsAreCommerce
  <1> QED
    BY <1>1, <1>2, PanelInvariance, PTL DEF PanelSpec, CommerceSpec

\* PageIsOneDecision for any number of pages, orders and offers, and however many steps
\* lie between a page and its form: what is carried out finds what its page showed, and
\* a page decides once.
THEOREM APageDecidesOnceOnWhatItShows == PanelSpec => PageIsOneDecision
PROOF
  <1>1. PanelInv => PanelTypeOK
    BY DEF PanelInv, PanelTypeOK, PageIsSound, EnvelopeIsSound
  <1>2. CommerceInv /\ PanelInv /\ [PanelNext]_panelVars =>
          [SaysNow({"done"}) =>
             LET page == pages[flight.page]
                 e    == flight.envelope
             IN  /\ e.form \in {"version", "address"} =>
                      /\ orders[e.subject] = page.shown.row
                      /\ VersionsOf(e.subject) = page.shown.versions
                 /\ e.form \in {"effective", "cancel"} => orders[e.subject] = page.shown
                 /\ e.form \in {"pause", "resume"} => pauses[e.subject] = page.shown
                 /\ e.form \in {"update", "contact", "delivery"} =>
                      inquiries[e.subject] = page.shown
                 /\ e.form = "acceptance" => offers'[e.subject].accepted = page.version
          ]_panelVars
    BY DoneIsPerformed, DoneAsShown
  <1>3. PanelInv /\ [PanelNext]_panelVars =>
          [\A p \in Pages : ledger[p] # None =>
             /\ ledger'[p] = ledger[p]
             /\ answer' # None /\ answer'.page = p => CoreUnchanged]_panelVars
    BY DecidedOnce
  <1>4. PanelSpec => ActsOnWhatItShowed
    BY <1>2, PanelInvariance, PTL DEF PanelSpec, ActsOnWhatItShowed
  <1>5. PanelSpec => PageDecidesOnce
    BY <1>3, PanelInvariance, PTL DEF PanelSpec, PageDecidesOnce
  <1> QED
    BY <1>1, <1>4, <1>5, PanelInvariance, PTL DEF PageIsOneDecision

-----------------------------------------------------------------------------
(* What the panel tells the office: a page is compared with a Core that nothing has *)
(* touched since, and views of an unchanged Core are unchanged.                    *)

LEMMA SameViews ==
    ASSUME UNCHANGED offerVars, NEW kind, NEW s
    PROVE  /\ Exists(s)' <=> Exists(s)
           /\ ActivePause(s)' = ActivePause(s)
           /\ Precondition(kind, s)' = Precondition(kind, s)
           /\ Projection(s)' = Projection(s)
           /\ NextAction(s)' = NextAction(s)
PROOF
  <1>1. /\ orders' = orders /\ versions' = versions /\ pauses' = pauses
        /\ inquiries' = inquiries /\ offers' = offers /\ links' = links /\ today' = today
    BY DEF offerVars, coreVars
  <1>2. /\ Exists(s)' <=> Exists(s)
        /\ \A o : Active(o)' <=> Active(o)
    BY <1>1 DEF Exists, Active
  <1>3. ActivePause(s)' = ActivePause(s)
    <2>1. PICK log : log = pauses[s]
      OBVIOUS
    <2>2. pauses'[s] = log
      BY <1>1, <2>1
    <2> DEFINE open == {k \in 1..Len(log) :
                          /\ log[k].action = "paused"
                          /\ \A j \in (k + 1)..Len(log) :
                               log[j].action = "resumed" /\ log[j].resumes # k}
    <2>3. ActivePause(s) = IF open = {} THEN 0 ELSE CHOOSE k \in open : TRUE
      BY <2>1 DEF ActivePause
    <2>4. ActivePause(s)' = IF open = {} THEN 0 ELSE CHOOSE k \in open : TRUE
      BY <2>2 DEF ActivePause
    <2> QED
      BY <2>3, <2>4
  <1>4. LatestNumber(s)' = LatestNumber(s)
    BY <1>1, Zenon DEF LatestNumber, NumbersOf, VersionsOf, Owned, Stored, IsMaxOf
  <1>5. Precondition(kind, s)' = Precondition(kind, s)
    BY <1>1, <1>3, <1>4 DEF Precondition, PointersOf, PausesOf
  <1>6. Projection(s)' = Projection(s)
    BY <1>1, Zenon DEF Projection, State, Latest, Sent, Numbers
  <1>7. /\ HasActiveOrder(s)' <=> HasActiveOrder(s)
        /\ \A i : HasLinkedOrder(i)' <=> HasLinkedOrder(i)
    BY <1>1 DEF HasActiveOrder, HasLinkedOrder, Active, Exists
  <1>8. OffersOf(s)' = OffersOf(s) /\ OfferOf(s)' = OfferOf(s)
    BY <1>1 DEF OffersOf, OfferOf
  <1>9. \A f : Projection(f)' = Projection(f)
    BY <1>1, Zenon DEF Projection, State, Latest, Sent, Numbers
  <1>10. \A f : ActionForOffer(f)' = ActionForOffer(f)
    BY <1>1, <1>7, <1>9 DEF ActionForOffer
  <1>11. PICK f : f = OfferOf(s)
    OBVIOUS
  <1>12. ActionForOffer(OfferOf(s))' = ActionForOffer(f)'
    BY <1>8, <1>11
  <1>13. (MayPrepareOffer(s)' <=> MayPrepareOffer(s)) /\ (Lost(s)' <=> Lost(s))
    BY <1>1, <1>7, <1>8 DEF MayPrepareOffer, MayProgress, Lost
  <1>14. NextAction(s)' = NextAction(s)
    BY <1>1, <1>7, <1>8, <1>10, <1>11, <1>12, <1>13 DEF NextAction
  <1> QED
    BY <1>2, <1>3, <1>5, <1>6, <1>14

\* Nothing has happened since the page was rendered: it could be rendered again, and
\* its hidden fields are what the Core would compare them with.
FreshPage(p) ==
    LET g == pages[p]
    IN  disturbed[p] = "no" =>
          /\ g.kind \in OrderForms =>
               Exists(g.subject) /\ g.expect = Precondition(g.kind, g.subject)
          /\ g.kind = "resume"  => ActivePause(g.subject) # 0
          /\ g.kind = "convert" => NextAction(g.subject) = "convert-accepted"
          /\ g.kind = "offer"   => g.shown = Projection(g.subject)

FreshInv == \A p \in Pages : pages[p] # None => FreshPage(p)

LEMMA FreshPagesStay ==
    ASSUME PanelInv, FreshInv, NEW p \in Pages, pages[p] # None, pages'[p] = pages[p],
           disturbed'[p] = "no" => disturbed[p] = "no" /\ UNCHANGED offerVars
    PROVE  FreshPage(p)'
PROOF
  <1> SUFFICES ASSUME disturbed'[p] = "no"  PROVE FreshPage(p)'
    BY DEF FreshPage
  <1>1. disturbed[p] = "no" /\ UNCHANGED offerVars /\ FreshPage(p)
    BY DEF FreshInv
  <1> PICK g : g = pages[p]
    OBVIOUS
  <1> PICK s : s = g.subject
    OBVIOUS
  <1> PICK kind : kind = g.kind
    OBVIOUS
  <1>2. /\ Exists(s)' <=> Exists(s)
        /\ ActivePause(s)' = ActivePause(s)
        /\ Precondition(kind, s)' = Precondition(kind, s)
        /\ Projection(s)' = Projection(s)
        /\ NextAction(s)' = NextAction(s)
    BY <1>1, SameViews
  <1>3. /\ kind \in OrderForms => Exists(s) /\ g.expect = Precondition(kind, s)
        /\ kind = "resume"  => ActivePause(s) # 0
        /\ kind = "convert" => NextAction(s) = "convert-accepted"
        /\ kind = "offer"   => g.shown = Projection(s)
    BY <1>1 DEF FreshPage
  <1>4. /\ kind \in OrderForms => Exists(s)' /\ g.expect = Precondition(kind, s)'
        /\ kind = "resume"  => ActivePause(s)' # 0
        /\ kind = "convert" => NextAction(s)' = "convert-accepted"
        /\ kind = "offer"   => g.shown = Projection(s)'
    BY <1>2, <1>3
  <1>5. pages'[p] = g /\ pages'[p].subject = s /\ pages'[p].kind = kind
    OBVIOUS
  <1>6. /\ Exists(pages[p].subject)' <=> Exists(s)'
        /\ ActivePause(pages[p].subject)' = ActivePause(s)'
        /\ Precondition(pages[p].kind, pages[p].subject)' = Precondition(kind, s)'
        /\ Projection(pages[p].subject)' = Projection(s)'
        /\ NextAction(pages[p].subject)' = NextAction(s)'
    BY <1>5
  <1> QED
    BY <1>4, <1>5, <1>6 DEF FreshPage

LEMMA FreshPagesOpen ==
    ASSUME PanelInv, NEW p \in Pages, NEW kind, NEW s, OpenPage(p, kind, s)
    PROVE  FreshPage(p)'
PROOF
  <1>1. pages'[p] = PageOf(kind, s) /\ Renders(kind, s) /\ UNCHANGED offerVars
    <2>1. pages' = [pages EXCEPT ![p] = PageOf(kind, s)]
      BY DEF OpenPage
    <2>2. pages'[p] = PageOf(kind, s)
      BY <2>1 DEF PanelInv
    <2> QED
      BY <2>2 DEF OpenPage, CoreUnchanged
  <1> PICK g : g = pages'[p]
    OBVIOUS
  <1>2. /\ g.kind = kind /\ g.subject = s /\ g.expect = Precondition(kind, s)
        /\ g.shown = ShownOf(kind, s)
    BY <1>1 DEF PageOf
  <1>3. /\ kind \in OrderForms => Exists(s)
        /\ kind = "resume"  => ActivePause(s) # 0
        /\ kind = "convert" => NextAction(s) = "convert-accepted"
        /\ kind = "offer"   => g.shown = Projection(s)
    <2>1. kind \in OrderForms => RendersOrderForm(kind, s)
      BY <1>1 DEF Renders, RendersInquiryForm, OrderForms, InquiryForms
    <2>2. kind = "convert" => RendersInquiryForm(kind, s)
      BY <1>1 DEF Renders, RendersOrderForm, OrderForms
    <2>3. kind \in OrderForms => Exists(s) /\ (kind = "resume" => ActivePause(s) # 0)
      BY <2>1 DEF RendersOrderForm, Exists, Active
    <2>4. kind = "resume" => kind \in OrderForms
      BY DEF OrderForms
    <2> QED
      BY <1>2, <2>2, <2>3, <2>4 DEF RendersInquiryForm, ShownOf
  <1>4. /\ Exists(s)' <=> Exists(s)
        /\ ActivePause(s)' = ActivePause(s)
        /\ Precondition(kind, s)' = Precondition(kind, s)
        /\ Projection(s)' = Projection(s)
        /\ NextAction(s)' = NextAction(s)
    BY <1>1, SameViews
  <1>5. pages'[p].subject = s /\ pages'[p].kind = kind
    BY <1>2
  <1>6. /\ Exists(pages[p].subject)' <=> Exists(s)'
        /\ ActivePause(pages[p].subject)' = ActivePause(s)'
        /\ Precondition(pages[p].kind, pages[p].subject)' = Precondition(kind, s)'
        /\ Projection(pages[p].subject)' = Projection(s)'
        /\ NextAction(pages[p].subject)' = NextAction(s)'
    BY <1>5
  <1> QED
    BY <1>2, <1>3, <1>4, <1>5, <1>6 DEF FreshPage

LEMMA PanelKeepsFresh ==
    ASSUME PanelInv, FreshInv, [PanelNext]_panelVars PROVE FreshInv'
PROOF
  <1>1. ASSUME NEW q \in Pages, pages[q] # None, pages'[q] = pages[q],
               (disturbed' = disturbed /\ UNCHANGED offerVars) \/ Disturbance
        PROVE  FreshPage(q)'
    <2>1. disturbed'[q] = "no" => disturbed[q] = "no" /\ UNCHANGED offerVars
      <3>1. CASE disturbed' = disturbed /\ UNCHANGED offerVars
        BY <3>1
      <3>2. CASE Disturbance
        <4>1. disturbed'[q] = Disturb(q)
          BY <3>2 DEF Disturbance
        <4> QED
          BY <1>1, <4>1 DEF Disturb
      <3> QED
        BY <1>1, <3>1, <3>2
    <2> QED
      BY <1>1, <2>1, FreshPagesStay
  <1>2. CASE pages' = pages /\ ((disturbed' = disturbed /\ UNCHANGED offerVars) \/ Disturbance)
    BY <1>1, <1>2 DEF FreshInv
  <1>3. ASSUME NEW i \in Inquiries, SavedUnchanged(i) PROVE FreshInv'
    <2>1. pages' = pages /\ UNCHANGED offerVars
      BY <1>3 DEF SavedUnchanged, CoreUnchanged
    <2>2. \A q \in Pages : disturbed'[q] = "no" => disturbed[q] = "no"
      BY <1>3 DEF SavedUnchanged
    <2>3. \A q \in Pages : pages[q] # None => FreshPage(q)'
      BY <2>1, <2>2, FreshPagesStay
    <2> QED
      BY <2>1, <2>3 DEF FreshInv
  <1>4. ASSUME NEW p \in Pages, NEW kind, NEW s, OpenPage(p, kind, s) PROVE FreshInv'
    <2>1. FreshPage(p)'
      BY <1>4, FreshPagesOpen
    <2>2. disturbed' = disturbed /\ UNCHANGED offerVars
      BY <1>4 DEF OpenPage, CoreUnchanged
    <2>3. \A q \in Pages \ {p} : pages'[q] = pages[q]
      BY <1>4 DEF OpenPage, PanelInv
    <2>4. \A q \in Pages \ {p} : pages'[q] # None => FreshPage(q)'
      BY <1>1, <2>2, <2>3
    <2> QED
      BY <2>1, <2>4 DEF FreshInv
  <1>5. CASE HandleFlight \/ LoseFlight \/ Elsewhere
    BY <1>2, <1>5 DEF HandleFlight, LoseFlight, Elsewhere, CoreUnchanged
  <1>6. CASE \E p \in Pages, form \in Forms : \E choice \in Choices(form) :
               SubmitForm(p, form, choice)
    BY <1>2, <1>6 DEF SubmitForm, CoreUnchanged
  <1>7. CASE UNCHANGED panelVars
    BY <1>2, <1>7 DEF panelVars
  <1> QED
    BY <1>3, <1>4, <1>5, <1>6, <1>7 DEF PanelNext

\* What the office reads after it has sent a form.
LEMMA FormsOfSoundPages ==
    ASSUME PanelInv, NEW p \in Pages, pages[p] # None, NEW form \in FormsOf(pages[p])
    PROVE  /\ pages[p].kind \in OrderForms \cup InquiryForms =>
                form = pages[p].kind
           /\ pages[p].kind = "offer" =>
                form \in FormsOfOffer(pages[p].shown) /\ form \in OfferForms
           /\ pages[p].kind \in OrderForms \cup InquiryForms \cup {"offer"}
PROOF
  <1>1. pages[p].kind \in OrderForms \cup InquiryForms \cup {"offer"}
    BY DEF PanelInv, PageIsSound, PageKinds
  <1>2. "offer" \notin OrderForms \cup InquiryForms
    BY DEF OrderForms, InquiryForms
  <1>3. \A state : FormsOfOffer(state) \subseteq OfferForms
    BY DEF FormsOfOffer, OfferForms
  <1> QED
    BY <1>1, <1>2, <1>3 DEF FormsOf

LEMMA FreshFormsPass ==
    ASSUME PanelInv, FreshInv, NEW p \in Pages, pages[p] # None, disturbed[p] = "no",
           NEW form \in FormsOf(pages[p])
    PROVE  Read(form, pages[p].subject) = None
PROOF
  <1> PICK g : g = pages[p]
    OBVIOUS
  <1> PICK s : s = g.subject
    OBVIOUS
  <1>1. /\ g.kind \in OrderForms => Exists(s)
        /\ g.kind = "resume"  => ActivePause(s) # 0
        /\ g.kind = "convert" => NextAction(s) = "convert-accepted"
        /\ g.kind = "offer"   => g.shown = Projection(s)
    BY DEF FreshInv, FreshPage
  <1>2. /\ g.kind \in OrderForms \cup InquiryForms => form = g.kind
        /\ g.kind = "offer" => form \in FormsOfOffer(g.shown) /\ form \in OfferForms
        /\ g.kind \in OrderForms \cup InquiryForms \cup {"offer"}
    BY FormsOfSoundPages
  <1>3. CASE g.kind \in OrderForms
    BY <1>1, <1>2, <1>3 DEF Read, ReadByOrderForm
  <1>4. CASE g.kind \in InquiryForms
    BY <1>1, <1>2, <1>4 DEF Read, ReadByConvert, OrderForms, InquiryForms, OfferForms
  <1>5. CASE g.kind = "offer"
    BY <1>1, <1>2, <1>5 DEF Read, ReadByOfferForm, OrderForms, OfferForms
  <1> QED
    BY <1>2, <1>3, <1>4, <1>5

LEMMA FreshCommandsPass ==
    ASSUME PanelInv, FreshInv, flight # None, disturbed[flight.page] = "no"
    PROVE  ~ Gone(flight.envelope) /\ ~ Stale(flight.page, flight.envelope)
PROOF
  <1> PICK p : p = flight.page
    OBVIOUS
  <1> PICK e : e = flight.envelope
    OBVIOUS
  <1>1. p \in Pages /\ pages[p] # None /\ EnvelopeIsSound(p, e) /\ FreshPage(p)
    BY DEF PanelInv, FreshInv
  <1>2. e.form \in OrderForms =>
          /\ pages[p].kind = e.form /\ e.subject = pages[p].subject
          /\ e.expect = pages[p].expect
    BY <1>1 DEF EnvelopeIsSound
  <1>3. e.form \in OrderForms => Exists(e.subject) /\ e.expect = Precondition(e.form, e.subject)
    BY <1>1, <1>2 DEF FreshPage
  <1> QED
    BY <1>3 DEF Gone, Stale

\* Every answer of a step of the panel: what is said before anything is posted, or what
\* the Core says.
LEMMA AnswersAre ==
    ASSUME PanelInv, PanelNext, answer' # None
    PROVE  \/ /\ flight # None /\ answer'.page = flight.page
              /\ Handle(flight.page, flight.envelope)
           \/ /\ answer'.page \in Pages /\ pages[answer'.page] # None
              /\ \E form \in FormsOf(pages[answer'.page]) :
                   /\ Read(form, pages[answer'.page].subject) # None
                   /\ answer'.says = Read(form, pages[answer'.page].subject)
PROOF
  <1>1. CASE HandleFlight
    BY <1>1 DEF HandleFlight, Handle, Answer
  <1>2. ASSUME NEW p \in Pages, NEW form, NEW choice, SubmitForm(p, form, choice)
        PROVE  /\ answer'.page = p /\ pages[p] # None /\ form \in FormsOf(pages[p])
               /\ Read(form, pages[p].subject) # None
               /\ answer'.says = Read(form, pages[p].subject)
    BY <1>2 DEF SubmitForm, Answer
  <1> QED
    BY <1>1, <1>2 DEF PanelNext, OpenPage, LoseFlight, Elsewhere, SavedUnchanged

LEMMA RefusalsDenyNothing ==
    ASSUME PanelInv, PanelNext, SaysNow({"stale", "refused"}),
           pages[answer'.page].kind \notin {"resume", "delete", "convert", "offer"}
    PROVE  ledger[answer'.page] = None
PROOF
  <1>1. answer' # None /\ answer'.says \in {"stale", "refused"}
    BY DEF SaysNow
  <1>2. CASE flight # None /\ answer'.page = flight.page /\ Handle(flight.page, flight.envelope)
    BY <1>1, <1>2 DEF Handle, Answer
  <1>3. CASE /\ answer'.page \in Pages /\ pages[answer'.page] # None
             /\ \E form \in FormsOf(pages[answer'.page]) :
                  /\ Read(form, pages[answer'.page].subject) # None
                  /\ answer'.says = Read(form, pages[answer'.page].subject)
    <2> PICK p \in Pages : p = answer'.page
      BY <1>3
    <2>1. PICK form \in FormsOf(pages[p]) :
             answer'.says = Read(form, pages[p].subject) /\ answer'.says # None
      BY <1>3
    <2>2. form = pages[p].kind /\ form \in OrderForms \cup InquiryForms /\ form # "convert"
      BY <1>3, FormsOfSoundPages
    <2>3. Read(form, pages[p].subject) \in {None, "gone", "not_paused"}
      BY <2>2 DEF Read, ReadByOrderForm, InquiryForms, OfferForms
    <2> QED
      BY <1>1, <2>1, <2>3
  <1> QED
    BY <1>1, <1>2, <1>3, AnswersAre

LEMMA FreshFormsAreNotLate ==
    ASSUME PanelInv, FreshInv, PanelNext,
           \/ SaysNow({"gone", "not_paused", "stale", "existing"})
           \/ (SaysNow({"refused"}) /\ flight = None)
    PROVE  ledger[answer'.page] # None \/ disturbed[answer'.page] # "no"
PROOF
  <1>1. /\ answer' # None
        /\ \/ answer'.says \in {"gone", "not_paused", "stale", "existing"}
           \/ flight = None
    BY DEF SaysNow
  <1>2. CASE flight # None /\ answer'.page = flight.page /\ Handle(flight.page, flight.envelope)
    BY <1>1, <1>2, FreshCommandsPass DEF Handle, Answer
  <1>3. CASE /\ answer'.page \in Pages /\ pages[answer'.page] # None
             /\ \E form \in FormsOf(pages[answer'.page]) :
                  /\ Read(form, pages[answer'.page].subject) # None
                  /\ answer'.says = Read(form, pages[answer'.page].subject)
    BY <1>3, FreshFormsPass
  <1> QED
    BY <1>1, <1>2, <1>3, AnswersAre

LEMMA FreshInvariance == PanelSpec => []FreshInv
PROOF
  <1>1. PanelInit => FreshInv
    BY DEF PanelInit, FreshInv
  <1>2. PanelInv /\ FreshInv /\ [PanelNext]_panelVars => FreshInv'
    BY PanelKeepsFresh
  <1> QED
    BY <1>1, <1>2, PanelInvariance, PTL DEF PanelSpec

\* RefusalIsTrue, the half of RefusalIsJust that says what a refusal means: when the
\* office reads that a form was too late or refused, no earlier sending of its page was
\* carried out (OfficeApi._handle looks into the ledger before anything else).
THEOREM ARefusalDeniesNothingSaved == PanelSpec => RefusalIsTrue
PROOF
  <1>1. PanelInv /\ [PanelNext]_panelVars =>
          [SaysNow({"stale", "refused"})
             /\ pages[answer'.page].kind \notin {"resume", "delete", "convert", "offer"} =>
           ledger[answer'.page] = None]_panelVars
    BY RefusalsDenyNothing
  <1> QED
    BY <1>1, PanelInvariance, PTL DEF PanelSpec, RefusalIsTrue

\* What FreshFormIsTaken says of every message but the Core's own refusal, which needs
\* ENABLED: a page nothing has happened to since it was rendered, and of which nothing
\* was carried out, is never told that it is too late.
FreshFormIsNotLate ==
    [][\/ SaysNow({"gone", "not_paused", "stale", "existing"})
       \/ (SaysNow({"refused"}) /\ flight = None)
       => ledger[answer'.page] # None \/ disturbed[answer'.page] # "no"]_panelVars

\* FreshFormIsNotLate for any number of pages: what the panel renders into the hidden
\* fields is what the client and the Core compare them with.
THEOREM AFreshFormIsNotLate == PanelSpec => FreshFormIsNotLate
PROOF
  <1>1. PanelInv /\ FreshInv /\ [PanelNext]_panelVars =>
          [\/ SaysNow({"gone", "not_paused", "stale", "existing"})
           \/ (SaysNow({"refused"}) /\ flight = None)
           => ledger[answer'.page] # None \/ disturbed[answer'.page] # "no"]_panelVars
    BY FreshFormsAreNotLate
  <1> QED
    BY <1>1, PanelInvariance, FreshInvariance, PTL DEF PanelSpec, FreshFormIsNotLate

=============================================================================
