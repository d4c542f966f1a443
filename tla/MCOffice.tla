-------------------------------- MODULE MCOffice --------------------------------
(* The desk of the office, and the panel as its client: the first state says      *)
(* whether a page is rendered and sent or the office acts at once.  Ids of orders *)
(* and versions are numbers, drawn one after another, which stands for a symmetry *)
(* of these ids.                                                                  *)
EXTENDS RemotePanel

VARIABLE part

pagesOnly == <<pages, disturbed, flight, ledger, answer>>

officeVars == <<panelVars, part>>

OfficeInit ==
    /\ part \in {"desk", "page"}
    /\ PanelInit

DrawnInOrder(rows) ==
    \A m, n \in DOMAIN rows :
        m < n /\ rows[m].state = "unborn" => rows[n].state = "unborn"

IdsInOrder == DrawnInOrder(orders) /\ DrawnInOrder(versions)

\* At the desk no order is paused.  Changes of an order are looked at with an
\* offer of one version; the third version id (one version of an order effective,
\* one printed too late to become so, one waiting for its print) is used in the
\* first two days.
DeskBound ==
    /\ \A o \in Orders : pauses[o] = <<>>
    /\ \/ \A v \in Versions : versions[v].number <= 1
       \/ \A f \in Offers : Len(offers[f].versions) <= 1
    /\ versions[3].state = "unborn" \/ today <= 1

\* A page is looked at on one day, with one order of two versions, one value of the
\* planning facts and one payment method; the one stage the office types is "lost".
\* Changes and pauses of the order are looked at with an offer of one version: of an
\* earlier version of the offer an order keeps nothing.
PageBound ==
    /\ today = 0
    /\ \A o \in Orders :
         /\ orders[o].state # "unborn" => o = 1
         /\ methods[o] \in {None, "RECHNUNG"}
    /\ \A v \in Versions :
         /\ versions[v].state # "unborn" => v <= 2
         /\ Stored(v) => versions[v].facts = 1
    /\ \/ \A f \in Offers : Len(offers[f].versions) <= 1
       \/ versions[2].state = "unborn" /\ \A o \in Orders : pauses[o] = <<>>
    /\ \A f \in Offers : \A n \in Numbers(f) :
         LET v == offers[f].versions[n]
         IN  v.created = 0 /\ v.until = 0 /\ v.content.facts = 1
    /\ flight # None =>
         LET e == flight.envelope
         IN  /\ e.form = "update" => e.choice = "lost"
             /\ e.form = "version" => e.choice = 1
             /\ e.form = "conversion" => e.choice = "RECHNUNG"

StagesOfPages ==
    \A i \in Inquiries :
        inquiries'[i].stage \in {inquiries[i].stage, "lost"} \/ orders' # orders

PanelOrDeskNext ==
    /\ UNCHANGED part
    /\ \/ part = "desk" /\ CommerceNext /\ DeskBound' /\ UNCHANGED pagesOnly
       \/ part = "page" /\ PanelNext /\ StagesOfPages /\ PageBound'
    /\ IdsInOrder'

OfficeSpec == OfficeInit /\ [][PanelOrDeskNext]_officeVars

=============================================================================
