------------------------------ MODULE MCPayments ------------------------------
(* What the commands do to orders, and what an order owes: the first state says  *)
(* which of the two moves.  Ids are numbers, drawn one after another, and order  *)
(* n is that of inquiry n, which stands for a symmetry of all the ids.           *)
EXTENDS PaymentCash

VARIABLE part

paymentsOnly == <<reminders, changes, corrections, cash, today>>

mcVars == <<coreVars, paymentsOnly, part>>

PaymentsInit ==
    /\ part \in {"orders", "payments"}
    /\ PaymentInit

DrawnInOrder(rows) ==
    \A m, n \in DOMAIN rows :
        m < n /\ rows[m].state = "unborn" => rows[n].state = "unborn"

IdsInOrder ==
    /\ DrawnInOrder(orders)
    /\ DrawnInOrder(versions)
    /\ \A o \in Orders : orders[o].inquiry \in {o, None}

\* Payments are looked at on one order with at most one revision, which leaves date
\* and recipient as they are, and without pauses: none of them is about money.
OneSmallOrder ==
    /\ \A o \in Orders : (orders[o].state # "unborn" => o = 1) /\ pauses[o] = <<>>
    /\ \A v \in Versions :
         /\ versions[v].state # "unborn" => v <= 2
         /\ Stored(v) => /\ versions[v].facts = 8
                         /\ versions[v].address # None
                         /\ versions[v].changed = {}

\* Of the second order one pause is looked at, while there are two versions.
FewPauses ==
    \/ pauses[2] = <<>>
    \/ Len(pauses[2]) = 1 /\ versions[3].state = "unborn"

PaymentsNext ==
    /\ UNCHANGED part
    /\ \/ part = "orders" /\ ServiceNext /\ FewPauses' /\ UNCHANGED paymentsOnly
       \/ part = "payments" /\ PaymentNext /\ OneSmallOrder'
    /\ IdsInOrder'

PaymentsSpec == PaymentsInit /\ [][PaymentsNext]_mcVars

=============================================================================
