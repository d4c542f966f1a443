-------------------------- MODULE OrderCore_proofs --------------------------
(* Proofs about the order aggregate, for any number of orders and versions. *)
EXTENDS OrderCore, SequenceTheorems, FiniteSetTheorems, TLAPS

\* The maximum LatestNumber chooses from a gapless history is its length.
LEMMA MaxOfInterval ==
    ASSUME NEW n \in Nat
    PROVE  (CHOOSE m \in (1..n) \cup {0} : IsMaxOf(m, (1..n) \cup {0})) = n
PROOF
  <1> DEFINE S == (1..n) \cup {0}
  <1>1. S = 0..n
    OBVIOUS
  <1>2. n \in S /\ IsMaxOf(n, S)
    BY <1>1 DEF IsMaxOf
  <1>3. \A m \in S : IsMaxOf(m, S) => m = n
    BY <1>1 DEF IsMaxOf
  <1> HIDE DEF S
  <1>4. (CHOOSE m \in S : IsMaxOf(m, S)) = n
    BY <1>2, <1>3
  <1> QED
    BY <1>4 DEF S

\* Natural numbers are well founded: what stands in for induction over data.
LEMMA LeastExists ==
    ASSUME NEW T, T \subseteq Nat, T # {}
    PROVE  \E x \in T : \A y \in T : x <= y
PROOF
  <1> DEFINE R == OpToRel(<, Nat)
  <1>1. IsWellFoundedOn(R, Nat)
    BY NatLessThanWellFounded
  <1>2. \A x, y \in Nat : <<y, x>> \in R <=> y < x
    BY DEF OpToRel
  <1> HIDE DEF R
  <1>3. PICK x \in T : \A y \in T : ~ (<<y, x>> \in R)
    BY <1>1, WFMin
  <1>4. \A y \in T : x \in Nat /\ y \in Nat /\ ~ (y < x)
    BY <1>2, <1>3
  <1>5. \A y \in T : x <= y
    BY <1>4
  <1> QED
    BY <1>5

\* Any set of positions of a log has a last one, which is the one IsMaxOf chooses.
LEMMA GreatestExists ==
    ASSUME NEW n \in Nat, NEW S \in SUBSET (1..n), S # {}
    PROVE  /\ \E k \in S : IsMaxOf(k, S)
           /\ (CHOOSE k \in S : IsMaxOf(k, S)) \in S
PROOF
  <1> DEFINE T == {m \in Nat : \E k \in S : m = n - k}
  <1>1. \A k \in S : k \in 1..n /\ n - k \in Nat
    OBVIOUS
  <1>2. T \subseteq Nat /\ T # {}
    BY <1>1
  <1>3. PICK t \in T : \A u \in T : t <= u
    BY <1>2, LeastExists
  <1>4. PICK k \in S : t = n - k
    OBVIOUS
  <1>5. \A j \in S : n - j \in T
    BY <1>1
  <1>6. \A j \in S : n - k <= n - j
    BY <1>3, <1>4, <1>5
  <1>7. \E i \in S : IsMaxOf(i, S)
    BY <1>1, <1>6 DEF IsMaxOf
  <1> QED
    BY <1>7

-----------------------------------------------------------------------------
(* The inductive invariant. *)

\* Every stored version belongs to an order that has a row.
VersionsHaveOwners ==
    \A v \in Versions : Stored(v) =>
        versions[v].order \in Orders /\ Exists(versions[v].order)

\* An order without a row has no pointers; a candidate is a version of its order.
PointersAreOwned ==
    \A o \in Orders :
        /\ ~ Exists(o) => /\ orders[o].candidate = None
                          /\ orders[o].effective = None
        /\ orders[o].candidate # None => Owned(o, orders[o].candidate)

\* The numbers of an order are 1..n, each used once.
Gapless(o) ==
    /\ LatestNumber(o) \in Nat
    /\ NumbersOf(o) = 1..LatestNumber(o)
    /\ \A v, w \in VersionsOf(o) :
         versions[v].number = versions[w].number => v = w

\* The candidate is the newest version; without one the effective version is;
\* an order with neither pointer still has version 1 only.
NewestIsPointedAt ==
    \A o \in Orders : Exists(o) =>
        /\ orders[o].candidate # None =>
             versions[orders[o].candidate].number = LatestNumber(o)
        /\ orders[o].candidate = None /\ orders[o].effective # None =>
             versions[orders[o].effective].number = LatestNumber(o)
        /\ orders[o].candidate = None /\ orders[o].effective = None =>
             LatestNumber(o) = 1

\* What every operation of the services keeps, also those no handler calls.
HistoryInv ==
    /\ TypeOK
    /\ VersionsHaveOwners
    /\ \A o \in Orders : Gapless(o) /\ (Exists(o) => LatestNumber(o) # 0)
    /\ PointersAreOwned
    /\ EffectiveIsPrinted
    /\ LineageStaysInOrder

\* What the handlers keep besides: their pointers name the newest stand.
CoreInv ==
    /\ TypeOK
    /\ VersionsHaveOwners
    /\ \A o \in Orders : Gapless(o) /\ (Exists(o) => LatestNumber(o) # 0)
    /\ PointersAreOwned
    /\ EffectiveIsPrinted
    /\ NewestIsPointedAt
    /\ LineageStaysInOrder

LEMMA CoreInvParts == CoreInv <=> HistoryInv /\ NewestIsPointedAt
  BY DEF CoreInv, HistoryInv

\* The invariant contains the gapless history the model checker looks for.
LEMMA InvImpliesGapless == HistoryInv => HistoryIsGapless
PROOF
  <1> SUFFICES ASSUME HistoryInv, NEW o \in Orders
               PROVE  /\ Gapless(o)
                      /\ Exists(o) => VersionsOf(o) # {}
    BY DEF HistoryIsGapless, Gapless
  <1>1. Gapless(o) /\ (Exists(o) => LatestNumber(o) # 0)
    BY DEF HistoryInv
  <1>2. ASSUME Exists(o)  PROVE VersionsOf(o) # {}
    <2>1. LatestNumber(o) \in NumbersOf(o)
      BY <1>1, <1>2 DEF Gapless
    <2> QED
      BY <2>1 DEF NumbersOf
  <1> QED
    BY <1>1, <1>2

\* In a gapless history with a version, LatestVersion is the newest of them.
LEMMA NewestVersion ==
    ASSUME NEW o \in Orders, Gapless(o), VersionsOf(o) # {}
    PROVE  /\ LatestVersion(o) \in VersionsOf(o)
           /\ versions[LatestVersion(o)].number = LatestNumber(o)
PROOF
  <1>1. PICK v \in VersionsOf(o) : versions[v].number \in 1..LatestNumber(o)
    BY DEF Gapless, NumbersOf
  <1>2. LatestNumber(o) \in NumbersOf(o)
    BY <1>1 DEF Gapless
  <1>3. \E w \in VersionsOf(o) : versions[w].number = LatestNumber(o)
    BY <1>2 DEF NumbersOf
  <1> QED
    BY <1>3 DEF LatestVersion

-----------------------------------------------------------------------------
(* What the writes to order_versions do to the histories. *)

\* A write that keeps the rows of an order and their numbers keeps its history.
LEMMA SameRowsSameHistory ==
    ASSUME NEW o \in Orders, Gapless(o),
           VersionsOf(o)' = VersionsOf(o),
           \A v \in VersionsOf(o) : versions'[v].number = versions[v].number
    PROVE  Gapless(o)' /\ LatestNumber(o)' = LatestNumber(o)
PROOF
  <1>1. NumbersOf(o)' = NumbersOf(o)
    BY DEF NumbersOf
  <1>2. LatestNumber(o)' = LatestNumber(o)
    BY <1>1 DEF LatestNumber
  <1> QED
    BY <1>1, <1>2 DEF Gapless

\* Confirming a print changes no history.
LEMMA ConfirmKeepsHistories ==
    ASSUME TypeOK, NEW v \in Versions,
           versions' = [versions EXCEPT ![v].confirmed = TRUE]
    PROVE  /\ \A w \in Versions :
                /\ versions'[w].number = versions[w].number
                /\ versions'[w].parent = versions[w].parent
                /\ versions'[w].order = versions[w].order
                /\ versions'[w].state = versions[w].state
                /\ versions[w].confirmed => versions'[w].confirmed
                /\ versions'[w] \in VersionRow
           /\ versions'[v].confirmed
           /\ \A o : VersionsOf(o)' = VersionsOf(o)
PROOF
  <1>1. /\ \A w \in Versions :
             /\ versions'[w].number = versions[w].number
             /\ versions'[w].parent = versions[w].parent
             /\ versions'[w].order = versions[w].order
             /\ versions'[w].state = versions[w].state
             /\ versions[w].confirmed => versions'[w].confirmed
             /\ versions'[w] \in VersionRow
        /\ versions'[v].confirmed
    BY DEF TypeOK, VersionRow
  <1> QED
    BY <1>1 DEF VersionsOf, Owned, Stored

\* An appended row extends the history of its order by the next number and
\* leaves every other history alone.
LEMMA AppendExtendsHistory ==
    ASSUME TypeOK, NEW o \in Orders, NEW v \in Versions, NEW row \in VersionRow,
           \A p \in Orders : Gapless(p),
           versions[v].state = "unborn",
           row.state = "stored", row.order = o,
           row.number = LatestNumber(o) + 1,
           versions' = [versions EXCEPT ![v] = row]
    PROVE  /\ \A p \in Orders : Gapless(p)'
           /\ LatestNumber(o)' = LatestNumber(o) + 1
           /\ \A p \in Orders \ {o} : LatestNumber(p)' = LatestNumber(p)
PROOF
  <1>1. versions'[v] = row /\ \A w \in Versions \ {v} : versions'[w] = versions[w]
    BY DEF TypeOK
  <1>2. \A p \in Orders : v \notin VersionsOf(p)
    BY DEF VersionsOf, Owned, Stored
  <1>3. VersionsOf(o)' = VersionsOf(o) \cup {v}
    BY <1>1 DEF VersionsOf, Owned, Stored
  <1>4. ASSUME NEW p \in Orders \ {o}
        PROVE  Gapless(p)' /\ LatestNumber(p)' = LatestNumber(p)
    <2>1. VersionsOf(p)' = VersionsOf(p)
      BY <1>1, <1>2 DEF VersionsOf, Owned, Stored
    <2>2. \A w \in VersionsOf(p) : versions'[w].number = versions[w].number
      BY <1>1, <1>2 DEF VersionsOf
    <2> QED
      BY <2>1, <2>2, SameRowsSameHistory
  <1>5. Gapless(o)' /\ LatestNumber(o)' = LatestNumber(o) + 1
    <2> DEFINE n == LatestNumber(o)
    <2>1. n \in Nat /\ NumbersOf(o) = 1..n
      BY DEF Gapless
    <2>2. NumbersOf(o)' = NumbersOf(o) \cup {n + 1}
      BY <1>1, <1>2, <1>3 DEF NumbersOf, VersionsOf
    <2>3. NumbersOf(o)' = 1..(n + 1)
      BY <2>1, <2>2
    <2>4. LatestNumber(o)' = n + 1
      <3>1. (CHOOSE m \in (1..(n + 1)) \cup {0} :
               IsMaxOf(m, (1..(n + 1)) \cup {0})) = n + 1
        BY <2>1, MaxOfInterval
      <3> QED
        BY <2>3, <3>1 DEF LatestNumber
    <2>5. \A w \in VersionsOf(o) : versions[w].number \in 1..n
      BY <2>1 DEF NumbersOf
    <2>6. \A w, x \in VersionsOf(o)' :
            versions'[w].number = versions'[x].number => w = x
      BY <1>1, <1>2, <1>3, <2>1, <2>5 DEF Gapless, VersionsOf
    <2> QED
      BY <2>1, <2>3, <2>4, <2>6 DEF Gapless
  <1> QED
    BY <1>4, <1>5

-----------------------------------------------------------------------------
(* Each action keeps the invariant. *)

LEMMA InitInv == Init => CoreInv
PROOF
  <1> SUFFICES ASSUME Init  PROVE CoreInv
    OBVIOUS
  <1>1. TypeOK
    <2>1. NoOrder \in OrderRow
      BY DEF NoOrder, OrderRow, Optional
    <2>2. NoVersion \in VersionRow
      BY DEF NoVersion, VersionRow, Optional
    <2> QED
      BY <2>1, <2>2 DEF Init, TypeOK
  <1>2. /\ \A v \in Versions : ~ Stored(v)
        /\ \A o \in Orders : /\ ~ Exists(o)
                             /\ orders[o].candidate = None
                             /\ orders[o].effective = None
    BY DEF Init, Stored, NoVersion, Exists, NoOrder
  <1>3. ASSUME NEW o \in Orders  PROVE Gapless(o)
    <2>1. VersionsOf(o) = {}
      BY <1>2 DEF VersionsOf, Owned
    <2>2. NumbersOf(o) = 1..0
      BY <2>1 DEF NumbersOf
    <2>3. LatestNumber(o) = 0
      <3>1. (CHOOSE m \in (1..0) \cup {0} : IsMaxOf(m, (1..0) \cup {0})) = 0
        BY MaxOfInterval
      <3> QED
        BY <2>2, <3>1 DEF LatestNumber
    <2> QED
      BY <2>1, <2>2, <2>3 DEF Gapless
  <1> QED
    BY <1>1, <1>2, <1>3
    DEF CoreInv, VersionsHaveOwners, PointersAreOwned, EffectiveIsPrinted,
        NewestIsPointedAt, LineageStaysInOrder

\* Conversion: version 1 of a fresh order.
LEMMA CreateOrderKeepsHistory ==
    ASSUME HistoryInv, NEW o \in Orders, NEW v \in Versions, NEW i \in Inquiries,
           NEW row \in InitialContents, CreateOrder(o, v, i, row)
    PROVE  HistoryInv' /\ (NewestIsPointedAt => NewestIsPointedAt')
PROOF
  <1> DEFINE new == [state |-> "stored", order |-> o, number |-> 1,
                     parent |-> None, confirmed |-> FALSE,
                     facts |-> row.facts, timing |-> row.timing,
                     window |-> row.window, address |-> row.address,
                     changed |-> {}]
             root == [NoOrder EXCEPT !.state = "active", !.inquiry = i]
  <1>1. new \in VersionRow
    BY DEF InitialContents, VersionRow, Optional
  <1>2. /\ new.state = "stored" /\ new.order = o
        /\ new.number = 1 /\ new.parent = None
    OBVIOUS
  <1>3. /\ root \in OrderRow
        /\ root.state = "active"
        /\ root.candidate = None /\ root.effective = None
    BY DEF NoOrder, OrderRow, Optional
  <1>4. versions' = [versions EXCEPT ![v] = new] /\ versions[v].state = "unborn"
    BY DEF CreateOrder
  <1>5. orders' = [orders EXCEPT ![o] = root] /\ orders[o].state = "unborn"
    BY DEF CreateOrder
  <1> HIDE DEF new, root
  <1>6. /\ TypeOK
        /\ VersionsHaveOwners
        /\ \A p \in Orders : Gapless(p) /\ (Exists(p) => LatestNumber(p) # 0)
        /\ PointersAreOwned /\ EffectiveIsPrinted
        /\ LineageStaysInOrder
    BY DEF HistoryInv
  <1>7. /\ versions'[v] = new
        /\ \A w \in Versions \ {v} : versions'[w] = versions[w]
        /\ orders'[o] = root
        /\ \A p \in Orders \ {o} : orders'[p] = orders[p]
    BY <1>4, <1>5, <1>6 DEF TypeOK
  <1>8. LatestNumber(o) = 0
    <2>1. VersionsOf(o) = {}
      BY <1>5, <1>6 DEF VersionsOf, Owned, VersionsHaveOwners, Exists
    <2>2. NumbersOf(o) = {}
      BY <2>1 DEF NumbersOf
    <2> QED
      BY <1>6, <2>2 DEF Gapless
  <1>9. /\ \A p \in Orders : Gapless(p)'
        /\ LatestNumber(o)' = 1
        /\ \A p \in Orders \ {o} : LatestNumber(p)' = LatestNumber(p)
    <2>1. new.number = LatestNumber(o) + 1
      BY <1>2, <1>8
    <2> QED
      BY <1>1, <1>2, <1>4, <1>6, <1>8, <2>1, AppendExtendsHistory
  <1>10. TypeOK'
    BY <1>1, <1>3, <1>4, <1>5, <1>6 DEF TypeOK, CreateOrder
  <1>11. VersionsHaveOwners'
    BY <1>2, <1>3, <1>6, <1>7 DEF VersionsHaveOwners, Stored, Exists
  <1>12. \A p \in Orders : Exists(p)' => LatestNumber(p)' # 0
    BY <1>6, <1>7, <1>9 DEF Exists
  <1>13. \A p \in Orders, w \in Versions :
           Owned(p, w) => Owned(p, w)' /\ versions'[w] = versions[w]
    BY <1>4, <1>7 DEF Owned, Stored
  <1>14. PointersAreOwned' /\ EffectiveIsPrinted'
    <2>1. \A p \in Orders : /\ orders[p].candidate \in Optional(Versions)
                           /\ orders[p].effective \in Optional(Versions)
      BY <1>6 DEF TypeOK, OrderRow
    <2>2. PointersAreOwned'
      BY <1>3, <1>6, <1>7, <1>13, <2>1 DEF PointersAreOwned, Exists, Optional
    <2>3. EffectiveIsPrinted'
      BY <1>3, <1>6, <1>7, <1>13, <2>1 DEF EffectiveIsPrinted, Optional
    <2> QED
      BY <2>2, <2>3
  <1>15. ASSUME NewestIsPointedAt  PROVE NewestIsPointedAt'
    <2> SUFFICES ASSUME NEW p \in Orders, Exists(p)'
                 PROVE  /\ orders'[p].candidate # None =>
                             versions'[orders'[p].candidate].number = LatestNumber(p)'
                        /\ orders'[p].candidate = None /\ orders'[p].effective # None =>
                             versions'[orders'[p].effective].number = LatestNumber(p)'
                        /\ orders'[p].candidate = None /\ orders'[p].effective = None =>
                             LatestNumber(p)' = 1
      BY DEF NewestIsPointedAt
    <2>1. CASE p = o
      BY <1>3, <1>7, <1>9, <2>1
    <2>2. CASE p # o
      <3>1. /\ orders'[p] = orders[p] /\ Exists(p)
            /\ LatestNumber(p)' = LatestNumber(p)
        BY <1>7, <1>9, <2>2 DEF Exists
      <3>2. /\ orders[p].candidate \in Optional(Versions)
            /\ orders[p].effective \in Optional(Versions)
        BY <1>6 DEF TypeOK, OrderRow
      <3> QED
        BY <1>6, <1>13, <1>15, <3>1, <3>2
        DEF NewestIsPointedAt, PointersAreOwned, EffectiveIsPrinted, Optional
    <2> QED
      BY <2>1, <2>2
  <1>16. LineageStaysInOrder'
    BY <1>2, <1>4, <1>6, <1>7 DEF LineageStaysInOrder, Owned, Stored, TypeOK, VersionRow, Optional
  <1> QED
    BY <1>9, <1>10, <1>11, <1>12, <1>14, <1>15, <1>16 DEF HistoryInv

\* A proposed change: the next version of an active order becomes its candidate.
LEMMA AppendKeepsHistory ==
    ASSUME HistoryInv, NEW o \in Orders, NEW v \in Versions, NEW row \in VersionRow,
           Active(o), row.state = "stored", row.order = o,
           row.number = LatestNumber(o) + 1, row.parent \in VersionsOf(o) \cup {None},
           NEW c \in {v, orders[o].candidate}, AppendVersion(o, v, row, c)
    PROVE  HistoryInv' /\ (NewestIsPointedAt /\ c = v => NewestIsPointedAt')
PROOF
  <1>1. versions' = [versions EXCEPT ![v] = row] /\ versions[v].state = "unborn"
    BY DEF AppendVersion
  <1>2. orders' = [orders EXCEPT ![o].candidate = c] /\ pauses' = pauses
    BY DEF AppendVersion
  <1>3. /\ TypeOK
        /\ VersionsHaveOwners
        /\ \A p \in Orders : Gapless(p) /\ (Exists(p) => LatestNumber(p) # 0)
        /\ PointersAreOwned /\ EffectiveIsPrinted
        /\ LineageStaysInOrder
    BY DEF HistoryInv
  <1>4. /\ versions'[v] = row
        /\ \A w \in Versions \ {v} : versions'[w] = versions[w]
    BY <1>1, <1>3 DEF TypeOK
  <1>5. /\ orders'[o].candidate = c
        /\ orders'[o].effective = orders[o].effective
        /\ orders'[o].state = "active" /\ orders[o].state = "active"
        /\ orders'[o] \in OrderRow
        /\ \A p \in Orders \ {o} : orders'[p] = orders[p]
    BY <1>2, <1>3 DEF TypeOK, OrderRow, Active, Optional
  <1>6. /\ \A p \in Orders : Gapless(p)'
        /\ LatestNumber(o)' = LatestNumber(o) + 1
        /\ \A p \in Orders \ {o} : LatestNumber(p)' = LatestNumber(p)
    BY <1>1, <1>3, AppendExtendsHistory
  <1>7. TypeOK'
    BY <1>1, <1>2, <1>3, <1>5 DEF TypeOK
  <1>8. VersionsHaveOwners'
    BY <1>3, <1>4, <1>5 DEF VersionsHaveOwners, Stored, Exists
  <1>9. \A p \in Orders : Exists(p)' => LatestNumber(p)' # 0
    BY <1>3, <1>5, <1>6 DEF Exists, Gapless
  <1>10. \A p \in Orders, w \in Versions :
           Owned(p, w) => Owned(p, w)' /\ versions'[w] = versions[w]
    BY <1>1, <1>4 DEF Owned, Stored
  <1>11. Owned(o, v)' /\ versions'[v].number = LatestNumber(o)'
    BY <1>4, <1>6 DEF Owned, Stored
  <1>12. \A p \in Orders : /\ orders[p].candidate \in Optional(Versions)
                           /\ orders[p].effective \in Optional(Versions)
    BY <1>3 DEF TypeOK, OrderRow
  <1>13. v # None
    BY NoneAssumption
  <1>14. PointersAreOwned'
    BY <1>3, <1>5, <1>10, <1>11, <1>12 DEF PointersAreOwned, Exists, Optional
  <1>15. EffectiveIsPrinted'
    BY <1>3, <1>5, <1>10, <1>12 DEF EffectiveIsPrinted, Optional
  <1>16. ASSUME NewestIsPointedAt, c = v  PROVE NewestIsPointedAt'
    <2> SUFFICES ASSUME NEW p \in Orders, Exists(p)'
                 PROVE  /\ orders'[p].candidate # None =>
                             versions'[orders'[p].candidate].number = LatestNumber(p)'
                        /\ orders'[p].candidate = None /\ orders'[p].effective # None =>
                             versions'[orders'[p].effective].number = LatestNumber(p)'
                        /\ orders'[p].candidate = None /\ orders'[p].effective = None =>
                             LatestNumber(p)' = 1
      BY DEF NewestIsPointedAt
    <2>1. CASE p = o
      BY <1>5, <1>11, <1>13, <1>16, <2>1
    <2>2. CASE p # o
      <3>1. /\ orders'[p] = orders[p] /\ Exists(p)
            /\ LatestNumber(p)' = LatestNumber(p)
        BY <1>5, <1>6, <2>2 DEF Exists
      <3> QED
        BY <1>3, <1>10, <1>12, <1>16, <3>1
        DEF NewestIsPointedAt, PointersAreOwned, EffectiveIsPrinted, Optional
    <2> QED
      BY <2>1, <2>2
  <1>17. LineageStaysInOrder'
    <2> SUFFICES ASSUME NEW w \in Versions, Stored(w)', versions'[w].parent # None
                 PROVE  /\ Owned(versions[w].order, versions[w].parent)'
                        /\ versions'[versions'[w].parent].number < versions'[w].number
      BY DEF LineageStaysInOrder
    <2>1. CASE w = v
      <3>1. /\ row.parent \in Versions /\ Owned(o, row.parent)
            /\ versions[row.parent].number \in NumbersOf(o)
        BY <1>4, <2>1 DEF VersionsOf, NumbersOf
      <3>2. versions[row.parent].number < row.number
        BY <1>3, <3>1 DEF Gapless
      <3> QED
        BY <1>4, <1>10, <2>1, <3>1, <3>2
    <2>2. CASE w # v
      <3>1. versions'[w] = versions[w] /\ Stored(w)
        BY <1>4, <2>2 DEF Stored
      <3>2. /\ Owned(versions[w].order, versions[w].parent)
            /\ versions[versions[w].parent].number < versions[w].number
            /\ versions[w].parent \in Versions /\ versions[w].order \in Orders
        BY <1>3, <2>2, <3>1
        DEF LineageStaysInOrder, TypeOK, VersionRow, Optional, VersionsHaveOwners
      <3> QED
        BY <1>10, <3>1, <3>2
    <2> QED
      BY <2>1, <2>2
  <1> QED
    BY <1>6, <1>7, <1>8, <1>9, <1>14, <1>15, <1>16, <1>17 DEF HistoryInv

LEMMA ProposeChangeKeepsHistory ==
    ASSUME HistoryInv, NEW o \in Orders, NEW v \in Versions, NEW f \in Facts,
           ProposeChange(o, v, f)
    PROVE  HistoryInv' /\ (NewestIsPointedAt => NewestIsPointedAt')
PROOF
  <1> DEFINE source == IF orders[o].effective # None THEN orders[o].effective
                                                    ELSE LatestVersion(o)
             row == [state |-> "stored", order |-> o,
                     number |-> LatestNumber(o) + 1,
                     parent |-> source, confirmed |-> FALSE,
                     facts |-> f, timing |-> None,
                     window |-> versions[source].window,
                     address |-> versions[source].address,
                     changed |-> NamedChanges(o, source, f)]
  <1>1. /\ Active(o) /\ VersionsOf(o) # {}
        /\ orders[o].effective # None => Owned(o, orders[o].effective)
        /\ AppendVersion(o, v, row, v)
    BY DEF ProposeChange
  <1>2. TypeOK /\ Gapless(o)
    BY DEF HistoryInv
  <1>3. source \in VersionsOf(o)
    <2>1. orders[o].effective \in Optional(Versions)
      BY <1>2 DEF TypeOK, OrderRow
    <2>2. CASE orders[o].effective # None
      BY <1>1, <2>1, <2>2 DEF Optional, VersionsOf
    <2>3. CASE orders[o].effective = None
      BY <1>1, <1>2, <2>3, NewestVersion
    <2> QED
      BY <2>2, <2>3
  <1>4. row \in VersionRow
    <2>1. versions[source] \in VersionRow /\ source \in Versions
      BY <1>2, <1>3 DEF TypeOK, VersionsOf
    <2>2. NamedChanges(o, source, f) \in SUBSET FieldGroups
      BY DEF NamedChanges, FieldGroups
    <2>3. LatestNumber(o) + 1 \in Nat
      BY <1>2 DEF Gapless
    <2> HIDE DEF source
    <2> QED
      BY <2>1, <2>2, <2>3 DEF VersionRow, Optional
  <1>5. /\ row.state = "stored" /\ row.order = o
        /\ row.number = LatestNumber(o) + 1 /\ row.parent = source
    OBVIOUS
  <1> HIDE DEF row, source
  <1> QED
    BY <1>1, <1>3, <1>4, <1>5, AppendKeepsHistory

LEMMA ProposeAddressKeepsHistory ==
    ASSUME HistoryInv, NEW o \in Orders, NEW v \in Versions, NEW p \in Versions,
           NEW a \in Addresses, ProposeAddress(o, v, p, a)
    PROVE  HistoryInv' /\ (NewestIsPointedAt => NewestIsPointedAt')
PROOF
  <1> DEFINE row == [state |-> "stored", order |-> o,
                     number |-> LatestNumber(o) + 1,
                     parent |-> p, confirmed |-> FALSE,
                     facts |-> versions[p].facts,
                     timing |-> None, window |-> None,
                     address |-> a, changed |-> {"address"}]
  <1>1. Active(o) /\ p \in VersionsOf(o) /\ AppendVersion(o, v, row, v)
    BY DEF ProposeAddress, VersionsOf
  <1>2. TypeOK /\ Gapless(o)
    BY DEF HistoryInv
  <1>3. row \in VersionRow
    BY <1>2 DEF TypeOK, VersionRow, Optional, Gapless, FieldGroups
  <1>4. /\ row.state = "stored" /\ row.order = o
        /\ row.number = LatestNumber(o) + 1 /\ row.parent = p
    OBVIOUS
  <1> HIDE DEF row
  <1> QED
    BY <1>1, <1>3, <1>4, AppendKeepsHistory

\* Confirming a version and, with it, possibly selecting the newest version as
\* the effective one.
LEMMA SelectionKeepsHistory ==
    ASSUME HistoryInv, NEW o \in Orders, NEW v \in VersionsOf(o), NEW new \in OrderRow,
           Exists(o), new.state \in {"active", "cancelled"},
           \/ new = orders[o]
           \/ new.candidate = None /\ new.effective = v,
           orders' = [orders EXCEPT ![o] = new],
           versions' = [versions EXCEPT ![v].confirmed = TRUE],
           pauses' = pauses
    PROVE  /\ HistoryInv'
           /\ NewestIsPointedAt /\ (new = orders[o] \/ versions[v].number = LatestNumber(o))
                => NewestIsPointedAt'
PROOF
  <1>1. /\ TypeOK
        /\ VersionsHaveOwners
        /\ \A p \in Orders : Gapless(p) /\ (Exists(p) => LatestNumber(p) # 0)
        /\ PointersAreOwned /\ EffectiveIsPrinted
        /\ LineageStaysInOrder
    BY DEF HistoryInv
  <1>2. v \in Versions /\ Owned(o, v) /\ v # None
    BY NoneAssumption DEF VersionsOf
  <1>3. /\ \A w \in Versions :
             /\ versions'[w].number = versions[w].number
             /\ versions'[w].parent = versions[w].parent
             /\ versions'[w].order = versions[w].order
             /\ versions'[w].state = versions[w].state
             /\ versions[w].confirmed => versions'[w].confirmed
             /\ versions'[w] \in VersionRow
        /\ versions'[v].confirmed
        /\ \A p : VersionsOf(p)' = VersionsOf(p)
    BY <1>1, <1>2, ConfirmKeepsHistories
  <1>4. /\ orders'[o] = new
        /\ \A p \in Orders \ {o} : orders'[p] = orders[p]
        /\ \A p \in Orders : Exists(p)' <=> Exists(p)
    BY <1>1 DEF TypeOK, Exists
  <1>5. \A p \in Orders, w \in Versions : Owned(p, w)' <=> Owned(p, w)
    BY <1>3 DEF Owned, Stored
  <1>6. \A p \in Orders : Gapless(p)' /\ LatestNumber(p)' = LatestNumber(p)
    <2> SUFFICES ASSUME NEW p \in Orders
                 PROVE  Gapless(p)' /\ LatestNumber(p)' = LatestNumber(p)
      OBVIOUS
    <2>1. \A w \in VersionsOf(p) : versions'[w].number = versions[w].number
      BY <1>3 DEF VersionsOf
    <2> QED
      BY <1>1, <1>3, <2>1, SameRowsSameHistory
  <1>7. TypeOK'
    BY <1>1, <1>3 DEF TypeOK
  <1>8. VersionsHaveOwners'
    BY <1>1, <1>3, <1>4 DEF VersionsHaveOwners, Stored
  <1>9. \A p \in Orders : /\ orders[p].candidate \in Optional(Versions)
                          /\ orders[p].effective \in Optional(Versions)
    BY <1>1 DEF TypeOK, OrderRow
  <1>10. PointersAreOwned'
    BY <1>1, <1>2, <1>4, <1>5, <1>9 DEF PointersAreOwned, Optional, Exists
  <1>11. EffectiveIsPrinted'
    <2> SUFFICES ASSUME NEW p \in Orders, orders'[p].effective # None
                 PROVE  /\ Owned(p, orders[p].effective)'
                        /\ versions'[orders'[p].effective].confirmed
      BY DEF EffectiveIsPrinted
    <2>1. CASE orders'[p].effective = orders[p].effective
      BY <1>1, <1>3, <1>9, <2>1 DEF EffectiveIsPrinted, Optional, Owned, Stored
    <2>2. CASE orders'[p].effective # orders[p].effective
      BY <1>2, <1>3, <1>4, <2>2 DEF Owned, Stored
    <2> QED
      BY <2>1, <2>2
  <1>12. ASSUME NewestIsPointedAt, new = orders[o] \/ versions[v].number = LatestNumber(o)
         PROVE  NewestIsPointedAt'
    <2> SUFFICES ASSUME NEW p \in Orders, Exists(p)'
                 PROVE  /\ orders'[p].candidate # None =>
                             versions'[orders'[p].candidate].number = LatestNumber(p)'
                        /\ orders'[p].candidate = None /\ orders'[p].effective # None =>
                             versions'[orders'[p].effective].number = LatestNumber(p)'
                        /\ orders'[p].candidate = None /\ orders'[p].effective = None =>
                             LatestNumber(p)' = 1
      BY DEF NewestIsPointedAt
    <2>1. CASE orders'[p] = orders[p]
      BY <1>1, <1>3, <1>4, <1>6, <1>9, <1>12, <2>1 DEF NewestIsPointedAt, Optional
    <2>2. CASE orders'[p] # orders[p]
      BY <1>2, <1>3, <1>4, <1>6, <1>12, <2>2
    <2> QED
      BY <2>1, <2>2
  <1>13. LineageStaysInOrder'
    <2> SUFFICES ASSUME NEW w \in Versions, Stored(w)', versions'[w].parent # None
                 PROVE  /\ Owned(versions[w].order, versions[w].parent)'
                        /\ versions'[versions'[w].parent].number < versions'[w].number
      BY DEF LineageStaysInOrder
    <2>1. /\ Owned(versions[w].order, versions[w].parent)
          /\ versions[versions[w].parent].number < versions[w].number
          /\ versions[w].parent \in Versions /\ versions[w].order \in Orders
      BY <1>1, <1>3
      DEF LineageStaysInOrder, TypeOK, VersionRow, Optional, VersionsHaveOwners, Stored
    <2> QED
      BY <1>3, <1>5, <2>1
  <1> QED
    BY <1>1, <1>4, <1>6, <1>7, <1>8, <1>10, <1>11, <1>12, <1>13 DEF HistoryInv

\* The same with the newest stand pointed at: what is selected has to be the newest.
LEMMA SelectionKeepsInv ==
    ASSUME CoreInv, NEW o \in Orders, NEW v \in VersionsOf(o), NEW new \in OrderRow,
           Exists(o), new.state \in {"active", "cancelled"},
           \/ new = orders[o]
           \/ /\ new.candidate = None /\ new.effective = v
              /\ versions[v].number = LatestNumber(o),
           orders' = [orders EXCEPT ![o] = new],
           versions' = [versions EXCEPT ![v].confirmed = TRUE],
           pauses' = pauses
    PROVE  CoreInv'
PROOF
  <1>1. HistoryInv /\ NewestIsPointedAt
    BY CoreInvParts
  <1>2. HistoryInv' /\ NewestIsPointedAt'
    BY <1>1, SelectionKeepsHistory
  <1> QED
    BY <1>2 DEF CoreInv, HistoryInv

LEMMA AcknowledgePrintKeepsHistory ==
    ASSUME HistoryInv, NEW o \in Orders, NEW v \in Versions, AcknowledgePrint(o, v)
    PROVE  HistoryInv' /\ (NewestIsPointedAt => NewestIsPointedAt')
PROOF
  <1> DEFINE new == ActivatedByPrint(orders[o], v)
  <1>1. /\ Active(o) /\ v \in VersionsOf(o)
        /\ versions' = [versions EXCEPT ![v].confirmed = TRUE]
        /\ orders' = [orders EXCEPT ![o] = new]
        /\ pauses' = pauses
    BY DEF AcknowledgePrint, VersionsOf
  <1>2. TypeOK /\ Exists(o)
    BY <1>1 DEF HistoryInv, Active, Exists
  <1>3. orders[o] \in OrderRow /\ v # None
    BY <1>2, NoneAssumption DEF TypeOK
  <1>4. new \in OrderRow /\ new.state = "active"
    BY <1>1, <1>3 DEF ActivatedByPrint, OrderRow, Optional, Active
  <1>5. \/ new = orders[o]
        \/ new.candidate = None /\ new.effective = v
    BY <1>3 DEF ActivatedByPrint, OrderRow
  <1>6. ASSUME NewestIsPointedAt
        PROVE  new = orders[o] \/ versions[v].number = LatestNumber(o)
    BY <1>2, <1>3, <1>6 DEF ActivatedByPrint, NewestIsPointedAt, OrderRow
  <1> HIDE DEF new
  <1> QED
    BY <1>1, <1>2, <1>4, <1>5, <1>6, SelectionKeepsHistory

LEMMA MakeEffectiveKeepsHistory ==
    ASSUME HistoryInv, NEW o \in Orders, NEW v \in Versions, MakeEffective(o, v)
    PROVE  HistoryInv' /\ (NewestIsPointedAt => NewestIsPointedAt')
PROOF
  <1> DEFINE new == [orders[o] EXCEPT !.effective = v, !.candidate = None]
  <1>1. /\ Active(o) /\ v \in VersionsOf(o) /\ versions[v].confirmed
        /\ \/ orders[o].candidate = v
           \/ orders[o].candidate = None /\ orders[o].effective = None
        /\ versions' = versions /\ pauses' = pauses
    BY DEF MakeEffective, VersionsOf
  <1>2. TypeOK /\ Exists(o) /\ Gapless(o)
    BY <1>1 DEF HistoryInv, Active, Exists
  <1>3. orders[o] \in OrderRow /\ v # None
    BY <1>2, NoneAssumption DEF TypeOK
  <1>4. orders' = [orders EXCEPT ![o] = new]
    BY <1>2 DEF MakeEffective, TypeOK
  <1>5. /\ new \in OrderRow /\ new.state = "active"
        /\ new.candidate = None /\ new.effective = v
    BY <1>1, <1>3 DEF OrderRow, Optional, Active
  <1>6. ASSUME NewestIsPointedAt  PROVE versions[v].number = LatestNumber(o)
    <2>1. versions[v].number \in 1..LatestNumber(o)
      BY <1>1, <1>2 DEF Gapless, NumbersOf
    <2> QED
      BY <1>1, <1>2, <1>3, <1>6, <2>1 DEF NewestIsPointedAt, Gapless
  <1>7. versions' = [versions EXCEPT ![v].confirmed = TRUE]
    BY <1>1, <1>2 DEF TypeOK, VersionRow
  <1> HIDE DEF new
  <1> QED
    BY <1>1, <1>2, <1>4, <1>5, <1>6, <1>7, SelectionKeepsHistory

\* Storno touches nothing but the state of the order.
LEMMA CancelOrderKeepsHistory ==
    ASSUME HistoryInv, NEW o \in Orders, CancelOrder(o)
    PROVE  HistoryInv' /\ (NewestIsPointedAt => NewestIsPointedAt')
PROOF
  <1>1. /\ TypeOK
        /\ VersionsHaveOwners
        /\ \A p \in Orders : Gapless(p) /\ (Exists(p) => LatestNumber(p) # 0)
        /\ PointersAreOwned /\ EffectiveIsPrinted
        /\ LineageStaysInOrder
    BY DEF HistoryInv
  <1>2. versions' = versions /\ pauses' = pauses
    BY DEF CancelOrder
  <1>3. /\ \A p \in Orders : /\ orders'[p].candidate = orders[p].candidate
                             /\ orders'[p].effective = orders[p].effective
                             /\ Exists(p)' <=> Exists(p)
        /\ orders' \in [Orders -> OrderRow]
    BY <1>1 DEF CancelOrder, Active, Exists, TypeOK, OrderRow
  <1>4. \A p \in Orders : /\ Gapless(p)' /\ LatestNumber(p)' = LatestNumber(p)
    BY <1>1, <1>2, SameRowsSameHistory DEF VersionsOf, Owned, Stored
  <1>5. TypeOK' /\ VersionsHaveOwners'
    BY <1>1, <1>2, <1>3 DEF TypeOK, VersionsHaveOwners, Stored
  <1>6. PointersAreOwned' /\ EffectiveIsPrinted' /\ LineageStaysInOrder'
    BY <1>1, <1>2, <1>3
    DEF PointersAreOwned, EffectiveIsPrinted, LineageStaysInOrder, Owned, Stored
  <1>7. ASSUME NewestIsPointedAt  PROVE NewestIsPointedAt'
    BY <1>1, <1>2, <1>3, <1>4, <1>7 DEF NewestIsPointedAt
  <1> QED
    BY <1>1, <1>3, <1>4, <1>5, <1>6, <1>7 DEF HistoryInv

LEMMA ActivePauseIsIndex == ASSUME NEW o \in Orders, TypeOK
                            PROVE  ActivePause(o) \in Nat
PROOF
  <1> DEFINE open == {k \in 1..Len(pauses[o]) :
                        /\ pauses[o][k].action = "paused"
                        /\ \A j \in (k + 1)..Len(pauses[o]) :
                             /\ pauses[o][j].action = "resumed"
                             /\ pauses[o][j].resumes # k}
  <1>1. ActivePause(o) = IF open = {} THEN 0 ELSE CHOOSE k \in open : TRUE
    BY DEF ActivePause
  <1>2. open \subseteq Nat
    OBVIOUS
  <1> HIDE DEF open
  <1>3. open # {} => (CHOOSE k \in open : TRUE) \in open
    OBVIOUS
  <1>4. CASE open = {}
    BY <1>1, <1>4
  <1>5. CASE open # {}
    <2>1. ActivePause(o) = CHOOSE k \in open : TRUE
      BY <1>1, <1>5
    <2> QED
      BY <1>2, <1>3, <1>5, <2>1
  <1> QED
    BY <1>4, <1>5

\* A step that changes nothing but well-typed pause logs keeps the invariant.
LEMMA PauseLogKeepsHistory ==
    ASSUME HistoryInv, UNCHANGED <<orders, versions>>,
           pauses' \in [Orders -> Seq(PauseEvent)]
    PROVE  HistoryInv' /\ (NewestIsPointedAt => NewestIsPointedAt')
PROOF
  <1>1. \A p \in Orders : /\ Gapless(p) => Gapless(p)'
                          /\ LatestNumber(p)' = LatestNumber(p)
                          /\ Exists(p)' <=> Exists(p)
    BY DEF Gapless, LatestNumber, NumbersOf, VersionsOf, Owned, Stored, Exists
  <1>2. TypeOK'
    BY DEF HistoryInv, TypeOK
  <1>3. VersionsHaveOwners' /\ PointersAreOwned' /\ EffectiveIsPrinted'
    BY DEF HistoryInv, VersionsHaveOwners, PointersAreOwned, EffectiveIsPrinted,
           Exists, Owned, Stored
  <1>4. (NewestIsPointedAt => NewestIsPointedAt') /\ LineageStaysInOrder'
    BY <1>1 DEF HistoryInv, NewestIsPointedAt, LineageStaysInOrder, Owned, Stored
  <1> QED
    BY <1>1, <1>2, <1>3, <1>4 DEF HistoryInv

LEMMA PauseAndResumeKeepHistory ==
    ASSUME HistoryInv, NEW o \in Orders, PauseOrder(o) \/ ResumeOrder(o)
    PROVE  HistoryInv' /\ (NewestIsPointedAt => NewestIsPointedAt')
PROOF
  <1>1. PICK e \in PauseEvent : pauses' = [pauses EXCEPT ![o] = Append(@, e)]
    <2>1. ActivePause(o) \in Nat
      BY ActivePauseIsIndex DEF HistoryInv
    <2>2. [action |-> "paused", resumes |-> 0] \in PauseEvent
      BY DEF PauseEvent
    <2>3. [action |-> "resumed", resumes |-> ActivePause(o)] \in PauseEvent
      BY <2>1 DEF PauseEvent
    <2> QED
      BY <2>2, <2>3 DEF PauseOrder, ResumeOrder
  <1>2. pauses' \in [Orders -> Seq(PauseEvent)]
    BY <1>1, AppendProperties DEF HistoryInv, TypeOK
  <1>3. UNCHANGED <<orders, versions>>
    BY DEF PauseOrder, ResumeOrder
  <1> QED
    BY <1>2, <1>3, PauseLogKeepsHistory

\* Deletion removes one order with its whole history and no other row.
LEMMA PurgeOrderKeepsHistory ==
    ASSUME HistoryInv, NEW o \in Orders, PurgeOrder(o)
    PROVE  HistoryInv' /\ (NewestIsPointedAt => NewestIsPointedAt')
PROOF
  <1>1. /\ TypeOK
        /\ VersionsHaveOwners
        /\ \A p \in Orders : Gapless(p) /\ (Exists(p) => LatestNumber(p) # 0)
        /\ PointersAreOwned /\ EffectiveIsPrinted
        /\ LineageStaysInOrder
    BY DEF HistoryInv
  <1> DEFINE goneV == [NoVersion EXCEPT !.state = "purged"]
             goneO == [NoOrder EXCEPT !.state = "purged"]
  <1>2. /\ goneV \in VersionRow /\ goneV.state = "purged"
        /\ goneO \in OrderRow /\ goneO.state = "purged"
        /\ goneO.candidate = None /\ goneO.effective = None
    BY DEF NoVersion, VersionRow, NoOrder, OrderRow, Optional
  <1>3. versions' = [v \in Versions |-> IF Owned(o, v) THEN goneV ELSE versions[v]]
    BY DEF PurgeOrder
  <1>4. /\ orders' = [orders EXCEPT ![o] = goneO]
        /\ pauses' = [pauses EXCEPT ![o] = <<>>]
    BY DEF PurgeOrder
  <1> HIDE DEF goneV, goneO
  <1>5. /\ orders'[o] = goneO
        /\ \A p \in Orders \ {o} : orders'[p] = orders[p]
        /\ orders' \in [Orders -> OrderRow]
    BY <1>1, <1>2, <1>4 DEF TypeOK
  <1>6. /\ versions' \in [Versions -> VersionRow]
        /\ \A v \in Versions : Stored(v)' => ~ Owned(o, v) /\ versions'[v] = versions[v]
        /\ \A v \in Versions : Stored(v) /\ ~ Owned(o, v) => versions'[v] = versions[v]
    BY <1>1, <1>2, <1>3 DEF TypeOK, Stored
  <1>7. \A p \in Orders, v \in Versions :
           Owned(p, v)' <=> (p # o /\ Owned(p, v))
    BY <1>1, <1>6 DEF Owned, Stored
  <1>8. TypeOK'
    <2>1. <<>> \in Seq(PauseEvent)
      OBVIOUS
    <2> QED
      BY <1>1, <1>4, <1>5, <1>6, <2>1 DEF TypeOK
  <1>9. \A p \in Orders \ {o} : Gapless(p)' /\ LatestNumber(p)' = LatestNumber(p)
    <2> SUFFICES ASSUME NEW p \in Orders \ {o}
                 PROVE  Gapless(p)' /\ LatestNumber(p)' = LatestNumber(p)
      OBVIOUS
    <2>1. VersionsOf(p)' = VersionsOf(p)
      BY <1>7 DEF VersionsOf
    <2>2. \A v \in VersionsOf(p) : versions'[v].number = versions[v].number
      BY <1>6 DEF VersionsOf, Owned
    <2> QED
      BY <1>1, <2>1, <2>2, SameRowsSameHistory
  <1>10. Gapless(o)'
    <2>1. VersionsOf(o)' = {}
      BY <1>7 DEF VersionsOf
    <2>2. NumbersOf(o)' = 1..0
      BY <2>1 DEF NumbersOf
    <2>3. LatestNumber(o)' = 0
      <3>1. (CHOOSE m \in (1..0) \cup {0} : IsMaxOf(m, (1..0) \cup {0})) = 0
        BY MaxOfInterval
      <3> QED
        BY <2>2, <3>1 DEF LatestNumber
    <2> QED
      BY <2>1, <2>2, <2>3 DEF Gapless
  <1>11. \A p \in Orders : Exists(p)' => p # o /\ Exists(p) /\ orders'[p] = orders[p]
    BY <1>2, <1>5 DEF Exists
  <1>12. VersionsHaveOwners'
    BY <1>1, <1>5, <1>6 DEF VersionsHaveOwners, Stored, Owned, Exists
  <1>13. \A p \in Orders : /\ orders[p].candidate \in Optional(Versions)
                           /\ orders[p].effective \in Optional(Versions)
    BY <1>1 DEF TypeOK, OrderRow
  <1>14. PointersAreOwned'
    BY <1>1, <1>2, <1>5, <1>6, <1>13
    DEF PointersAreOwned, Optional, Exists, Owned, Stored
  <1>15. EffectiveIsPrinted'
    BY <1>1, <1>2, <1>5, <1>6, <1>13 DEF EffectiveIsPrinted, Optional, Owned, Stored
  <1>16. ASSUME NewestIsPointedAt  PROVE NewestIsPointedAt'
    <2> SUFFICES ASSUME NEW p \in Orders, Exists(p)'
                 PROVE  /\ orders'[p].candidate # None =>
                             versions'[orders'[p].candidate].number = LatestNumber(p)'
                        /\ orders'[p].candidate = None /\ orders'[p].effective # None =>
                             versions'[orders'[p].effective].number = LatestNumber(p)'
                        /\ orders'[p].candidate = None /\ orders'[p].effective = None =>
                             LatestNumber(p)' = 1
      BY DEF NewestIsPointedAt
    <2>1. p # o /\ Exists(p) /\ orders'[p] = orders[p]
      BY <1>11
    <2>2. \A v \in Versions : Owned(p, v) => versions'[v] = versions[v]
      BY <1>6, <2>1 DEF Owned
    <2> QED
      BY <1>1, <1>9, <1>13, <1>16, <2>1, <2>2
      DEF NewestIsPointedAt, PointersAreOwned, EffectiveIsPrinted, Optional
  <1>17. LineageStaysInOrder'
    <2> SUFFICES ASSUME NEW w \in Versions, Stored(w)', versions'[w].parent # None
                 PROVE  /\ Owned(versions[w].order, versions[w].parent)'
                        /\ versions'[versions'[w].parent].number < versions'[w].number
      BY DEF LineageStaysInOrder
    <2>1. Stored(w) /\ ~ Owned(o, w) /\ versions'[w] = versions[w]
      BY <1>6 DEF Stored
    <2>2. /\ Owned(versions[w].order, versions[w].parent)
          /\ versions[versions[w].parent].number < versions[w].number
          /\ versions[w].parent \in Versions /\ versions[w].order \in Orders \ {o}
      BY <1>1, <2>1
      DEF LineageStaysInOrder, TypeOK, VersionRow, Optional, VersionsHaveOwners, Owned
    <2>3. versions'[versions[w].parent] = versions[versions[w].parent]
      BY <1>6, <2>2 DEF Owned
    <2> QED
      BY <2>1, <2>2, <2>3 DEF Owned, Stored
  <1> QED
    BY <1>1, <1>8, <1>9, <1>10, <1>11, <1>12, <1>14, <1>15, <1>16, <1>17 DEF HistoryInv

-----------------------------------------------------------------------------
(* Theorems. *)

\* Every handler keeps the histories, and the newest stand pointed at.
LEMMA OfficeKeepsHistory ==
    ASSUME HistoryInv, [Next]_coreVars
    PROVE  HistoryInv' /\ (NewestIsPointedAt => NewestIsPointedAt')
PROOF
  <1> DEFINE Kept == HistoryInv' /\ (NewestIsPointedAt => NewestIsPointedAt')
  <1>1. CASE UNCHANGED coreVars
    BY <1>1, PauseLogKeepsHistory DEF coreVars, HistoryInv, TypeOK
  <1>2. ASSUME NEW o \in Orders, NEW v \in Versions, NEW i \in Inquiries,
               NEW row \in InitialContents, CreateOrder(o, v, i, row)
        PROVE  Kept
    BY <1>2, CreateOrderKeepsHistory
  <1>3. ASSUME NEW o \in Orders, NEW v \in Versions, NEW f \in Facts,
               ProposeChange(o, v, f)
        PROVE  Kept
    BY <1>3, ProposeChangeKeepsHistory
  <1>4. ASSUME NEW o \in Orders, NEW v \in Versions, NEW p \in Versions,
               NEW a \in Addresses, ProposeAddress(o, v, p, a)
        PROVE  Kept
    BY <1>4, ProposeAddressKeepsHistory
  <1>5. ASSUME NEW o \in Orders, NEW v \in Versions,
               AcknowledgePrint(o, v) \/ MakeEffective(o, v)
        PROVE  Kept
    BY <1>5, AcknowledgePrintKeepsHistory, MakeEffectiveKeepsHistory
  <1>6. ASSUME NEW o \in Orders,
               CancelOrder(o) \/ PauseOrder(o) \/ ResumeOrder(o) \/ PurgeOrder(o)
        PROVE  Kept
    BY <1>6, CancelOrderKeepsHistory, PauseAndResumeKeepHistory, PurgeOrderKeepsHistory
  <1> HIDE DEF Kept
  <1>7. Kept
    BY <1>1, <1>2, <1>3, <1>4, <1>5, <1>6 DEF Next, OfficeNext, HandlerNext, ChangeNext, Kept
  <1> QED
    BY <1>7 DEF Kept

LEMMA NextKeepsInv ==
    ASSUME CoreInv, [Next]_coreVars
    PROVE  CoreInv'
PROOF
  <1>1. HistoryInv /\ NewestIsPointedAt
    BY CoreInvParts
  <1>2. HistoryInv' /\ NewestIsPointedAt'
    BY <1>1, OfficeKeepsHistory
  <1> QED
    BY <1>2 DEF CoreInv, HistoryInv

\* The operations that no handler calls keep the histories too: a relevant change is
\* appended without a parent, a chosen candidate and a confirmed version are the order's.
LEMMA UncalledKeepsHistory ==
    ASSUME HistoryInv, UncalledNext
    PROVE  HistoryInv'
PROOF
  <1>0. /\ TypeOK /\ NoneAssumption
        /\ \A p \in Orders : Gapless(p)
    BY NoneAssumption DEF HistoryInv
  <1>1. ASSUME NEW o \in Orders, NEW v \in Versions, NEW f \in Facts,
               AppendRelevantChange(o, v, f)
        PROVE  HistoryInv'
    <2> DEFINE latest == LatestVersion(o)
               c == orders[o].candidate
               row == [state |-> "stored", order |-> o, number |-> LatestNumber(o) + 1,
                       parent |-> None, confirmed |-> FALSE, facts |-> f,
                       timing |-> versions[latest].timing,
                       window |-> versions[latest].window,
                       address |-> None, changed |-> {}]
    <2>1. Active(o) /\ VersionsOf(o) # {} /\ AppendVersion(o, v, row, c)
      BY <1>1 DEF AppendRelevantChange
    <2>2. versions[latest] \in VersionRow
      BY <1>0, <2>1, NewestVersion DEF TypeOK, VersionsOf
    <2>3. LatestNumber(o) + 1 \in Nat
      BY <1>0 DEF Gapless
    <2> HIDE DEF latest
    <2>4. row \in VersionRow
      BY <2>2, <2>3 DEF VersionRow, Optional
    <2>5. /\ row.state = "stored" /\ row.order = o
          /\ row.number = LatestNumber(o) + 1 /\ row.parent = None
          /\ c \in {v, orders[o].candidate}
      OBVIOUS
    <2> HIDE DEF row, c
    <2> QED
      BY <2>1, <2>4, <2>5, AppendKeepsHistory
  <1>2. ASSUME NEW o \in Orders, NEW v \in Versions, ConfirmPrint(o, v)
        PROVE  HistoryInv'
    <2>1. /\ v \in VersionsOf(o) /\ Exists(o)
          /\ orders[o] \in OrderRow /\ orders[o].state \in {"active", "cancelled"}
          /\ orders' = [orders EXCEPT ![o] = orders[o]]
          /\ versions' = [versions EXCEPT ![v].confirmed = TRUE] /\ pauses' = pauses
      BY <1>0, <1>2 DEF ConfirmPrint, VersionsOf, Active, Exists, TypeOK
    <2> QED
      BY <2>1, SelectionKeepsHistory
  <1>3. ASSUME NEW o \in Orders, NEW v \in Versions, SetCandidate(o, v)
        PROVE  HistoryInv'
    <2>1. /\ Active(o) /\ Owned(o, v) /\ versions' = versions /\ pauses' = pauses
          /\ orders' = [orders EXCEPT ![o].candidate = v]
      BY <1>3 DEF SetCandidate
    <2>2. /\ orders' \in [Orders -> OrderRow]
          /\ orders'[o].candidate = v
          /\ \A p \in Orders : /\ orders'[p].state = orders[p].state
                               /\ orders'[p].effective = orders[p].effective
                               /\ p # o => orders'[p] = orders[p]
      BY <1>0, <2>1 DEF TypeOK, OrderRow, Optional
    <2>3. \A p \in Orders : Gapless(p)' /\ LatestNumber(p)' = LatestNumber(p)
      BY <1>0, <2>1, SameRowsSameHistory DEF VersionsOf, Owned, Stored
    <2>4. TypeOK' /\ VersionsHaveOwners'
      BY <1>0, <2>1, <2>2 DEF HistoryInv, TypeOK, VersionsHaveOwners, Stored, Exists
    <2>5. \A p \in Orders : Exists(p)' => LatestNumber(p)' # 0
      BY <2>2, <2>3 DEF HistoryInv, Exists
    <2>6. PointersAreOwned'
      BY <2>1, <2>2 DEF HistoryInv, PointersAreOwned, Exists, Active, Owned, Stored
    <2>7. EffectiveIsPrinted' /\ LineageStaysInOrder'
      BY <2>1, <2>2
      DEF HistoryInv, EffectiveIsPrinted, LineageStaysInOrder, Owned, Stored
    <2> QED
      BY <2>3, <2>4, <2>5, <2>6, <2>7 DEF HistoryInv
  <1> QED
    BY <1>1, <1>2, <1>3 DEF UncalledNext

LEMMA ServicesKeepHistory ==
    ASSUME HistoryInv, [ServiceNext]_coreVars
    PROVE  HistoryInv'
  BY OfficeKeepsHistory, UncalledKeepsHistory DEF ServiceNext, Next

\* The strengthened invariant holds in every reachable state.
THEOREM CoreInvariance == Spec => []CoreInv
PROOF
  <1>1. Init => CoreInv
    BY InitInv
  <1>2. CoreInv /\ [Next]_coreVars => CoreInv'
    BY NextKeepsInv
  <1> QED
    BY <1>1, <1>2, PTL DEF Spec

\* So does the part of it that does not depend on who calls which operation.
THEOREM HistoryInvariance == ServiceSpec => []HistoryInv
PROOF
  <1>1. Init => HistoryInv
    BY InitInv, CoreInvParts
  <1>2. HistoryInv /\ [ServiceNext]_coreVars => HistoryInv'
    BY ServicesKeepHistory
  <1> QED
    BY <1>1, <1>2, PTL DEF ServiceSpec

\* The handlers use a part of what the services offer.
LEMMA OfficeUsesTheServices == Spec => ServiceSpec
PROOF
  <1>1. [Next]_coreVars => [ServiceNext]_coreVars
    BY DEF Next, ServiceNext
  <1> QED
    BY <1>1, PTL DEF Spec, ServiceSpec

\* Every row keeps the type its table declares.
THEOREM TypeCorrectness == ServiceSpec => []TypeOK
PROOF
  <1>1. HistoryInv => TypeOK
    BY DEF HistoryInv
  <1> QED
    BY <1>1, HistoryInvariance, PTL

\* The kitchen only works from stands it has printed: the effective version of
\* every order is one of its own versions with a confirmed print.
THEOREM EffectiveStandIsPrinted == ServiceSpec => []EffectiveIsPrinted
PROOF
  <1>1. HistoryInv => EffectiveIsPrinted
    BY DEF HistoryInv
  <1> QED
    BY <1>1, HistoryInvariance, PTL

\* The version numbers of every order are 1..n, each used once.
THEOREM VersionHistoryIsGapless == ServiceSpec => []HistoryIsGapless
PROOF
  <1> QED
    BY InvImpliesGapless, HistoryInvariance, PTL

\* READY_TO_SEND releases the newest version of an order, never an older one.
THEOREM ReadyIsTheNewestStand == Spec => []ReadyReleasesNewestStand
PROOF
  <1>1. CoreInv => ReadyReleasesNewestStand
    <2> SUFFICES ASSUME CoreInv, NEW o \in Orders, Ready(o)
                 PROVE  /\ versions[orders[o].effective].number = LatestNumber(o)
                        /\ versions[orders[o].effective].confirmed
      BY DEF ReadyReleasesNewestStand
    <2>1. /\ Exists(o) /\ orders[o].candidate = None
          /\ orders[o].effective # None
          /\ versions[orders[o].effective].confirmed
      BY DEF Ready, Active, Exists
    <2> QED
      BY <2>1 DEF CoreInv, NewestIsPointedAt
  <1> QED
    BY <1>1, CoreInvariance, PTL

\* Every version's parent is an older version of the same order.
THEOREM LineageIsOwned == ServiceSpec => []LineageStaysInOrder
PROOF
  <1>1. HistoryInv => LineageStaysInOrder
    BY DEF HistoryInv
  <1> QED
    BY <1>1, HistoryInvariance, PTL

-----------------------------------------------------------------------------
(* The pause log. *)

\* The entries with one action, and how many there are.
EntriesOf(log, a) == {k \in 1..Len(log) : log[k].action = a}
CountOf(log, a)   == Cardinality(EntriesOf(log, a))

Held(log) == Len(log) # 0 /\ log[Len(log)].action = "paused"

\* Pauses and resumes alternate, and each resume closes the pause right before it.
Alternates(log) ==
    \A k \in 1..Len(log) :
      /\ log[k].action = "paused" /\ k < Len(log) =>
           log[k + 1].action = "resumed" /\ log[k + 1].resumes = k
      /\ log[k].action = "resumed" =>
           /\ k > 1 /\ log[k - 1].action = "paused"
           /\ log[k].resumes = k - 1

Balanced(log) ==
    CountOf(log, "paused") = CountOf(log, "resumed") + (IF Held(log) THEN 1 ELSE 0)

PauseInv == \A o \in Orders : Alternates(pauses[o]) /\ Balanced(pauses[o])

\* In an alternating log the fold finds the last entry, if that is a pause.
LEMMA TheOpenPauseIsTheLast ==
    ASSUME NEW o \in Orders, pauses[o] \in Seq(PauseEvent), Alternates(pauses[o])
    PROVE  ActivePause(o) = IF Held(pauses[o]) THEN Len(pauses[o]) ELSE 0
PROOF
  <1> DEFINE log  == pauses[o]
             n    == Len(log)
             open == {k \in 1..n : /\ log[k].action = "paused"
                                   /\ \A j \in (k + 1)..n :
                                        log[j].action = "resumed" /\ log[j].resumes # k}
  <1>1. n \in Nat /\ ActivePause(o) = IF open = {} THEN 0 ELSE CHOOSE k \in open : TRUE
    BY DEF ActivePause
  <1>2. \A k \in open : k = n /\ log[n].action = "paused"
    <2> SUFFICES ASSUME NEW k \in 1..n, log[k].action = "paused", k # n,
                        \A j \in (k + 1)..n : log[j].resumes # k
                 PROVE  FALSE
      OBVIOUS
    <2>1. k < n /\ k + 1 \in (k + 1)..n
      BY <1>1
    <2>2. log[k + 1].resumes = k
      BY <2>1 DEF Alternates
    <2> QED
      BY <2>1, <2>2
  <1>3. Held(log) => n \in open
    BY <1>1 DEF Held
  <1>4. ASSUME Held(log)  PROVE open = {n}
    BY <1>2, <1>3, <1>4
  <1>5. ASSUME ~ Held(log)  PROVE open = {}
    BY <1>1, <1>2, <1>5 DEF Held
  <1> HIDE DEF open, log
  <1>6. (CHOOSE k \in {n} : TRUE) = n
    OBVIOUS
  <1>7. ActivePause(o) = IF Held(log) THEN n ELSE 0
    BY <1>1, <1>4, <1>5, <1>6
  <1> QED
    BY <1>7 DEF log

\* One entry more counts for its own action only.
LEMMA EntryCounts ==
    ASSUME NEW log \in Seq(PauseEvent), NEW e \in PauseEvent, NEW a
    PROVE  /\ CountOf(log, a) \in Nat
           /\ CountOf(Append(log, e), a) = CountOf(log, a) + (IF e.action = a THEN 1 ELSE 0)
PROOF
  <1> DEFINE n == Len(log)
             new == Append(log, e)
  <1>1. /\ n \in Nat /\ Len(new) = n + 1 /\ new[n + 1] = e
        /\ \A k \in 1..n : new[k] = log[k]
    BY AppendProperties
  <1>2. IsFiniteSet(1..n)
    BY <1>1, FS_Interval
  <1>3. IsFiniteSet(EntriesOf(log, a)) /\ n + 1 \notin EntriesOf(log, a)
    BY <1>1, <1>2, FS_Subset DEF EntriesOf
  <1>4. CountOf(log, a) \in Nat
    BY <1>3, FS_CardinalityType DEF CountOf
  <1>5. EntriesOf(new, a) = EntriesOf(log, a) \cup (IF e.action = a THEN {n + 1} ELSE {})
    BY <1>1 DEF EntriesOf
  <1> HIDE DEF new
  <1>6. CASE e.action = a
    <2>1. EntriesOf(new, a) = EntriesOf(log, a) \cup {n + 1}
      BY <1>5, <1>6
    <2>2. Cardinality(EntriesOf(log, a) \cup {n + 1}) = Cardinality(EntriesOf(log, a)) + 1
      BY <1>3, FS_AddElement
    <2> QED
      BY <1>4, <1>6, <2>1, <2>2 DEF CountOf, new
  <1>7. CASE e.action # a
    <2>1. EntriesOf(new, a) = EntriesOf(log, a)
      BY <1>5, <1>7
    <2> QED
      BY <1>4, <1>7, <2>1 DEF CountOf, new
  <1> QED
    BY <1>6, <1>7

LEMMA EmptyLogBalances == Alternates(<<>>) /\ Balanced(<<>>)
PROOF
  <1>1. \A a : EntriesOf(<<>>, a) = {}
    BY DEF EntriesOf
  <1>2. \A a : CountOf(<<>>, a) = 0
    BY <1>1, FS_EmptySet DEF CountOf
  <1>3. ~ Held(<<>>)
    BY DEF Held
  <1> QED
    BY <1>2, <1>3 DEF Alternates, Balanced

\* A pause of an order that is not held, and the resume of the pause that holds it,
\* keep the log alternating and balanced.
LEMMA AnEntryKeepsTheLog ==
    ASSUME TypeOK, PauseInv, NEW o \in Orders, PauseOrder(o) \/ ResumeOrder(o)
    PROVE  PauseInv'
PROOF
  <1> DEFINE log == pauses[o]
             n   == Len(log)
             e   == IF PauseOrder(o) THEN [action |-> "paused", resumes |-> 0]
                                     ELSE [action |-> "resumed", resumes |-> ActivePause(o)]
  <1>1. /\ log \in Seq(PauseEvent) /\ n \in Nat
        /\ Alternates(log) /\ Balanced(log)
    BY DEF TypeOK, PauseInv
  <1>2. ActivePause(o) = IF Held(log) THEN n ELSE 0
    BY <1>1, TheOpenPauseIsTheLast
  <1>3. /\ pauses' = [pauses EXCEPT ![o] = Append(log, e)]
        /\ e = IF Held(log) THEN [action |-> "resumed", resumes |-> n]
                            ELSE [action |-> "paused", resumes |-> 0]
    BY <1>1, <1>2 DEF PauseOrder, ResumeOrder, Held
  <1> HIDE DEF e, log
  <1>4. /\ e \in PauseEvent
        /\ e.action = IF Held(log) THEN "resumed" ELSE "paused"
        /\ Held(log) => e.resumes = n
    BY <1>1, <1>3 DEF PauseEvent
  <1>5. /\ Len(Append(log, e)) = n + 1 /\ Append(log, e)[n + 1] = e
        /\ \A k \in 1..n : Append(log, e)[k] = log[k]
    BY <1>1, <1>4, AppendProperties
  <1> DEFINE new == Append(log, e)
  <1>6. Held(new) <=> ~ Held(log)
    BY <1>1, <1>4, <1>5 DEF Held
  <1>7. Balanced(new)
    <2>1. /\ CountOf(log, "paused") \in Nat /\ CountOf(log, "resumed") \in Nat
          /\ CountOf(new, "paused") = CountOf(log, "paused") + (IF e.action = "paused" THEN 1 ELSE 0)
          /\ CountOf(new, "resumed") = CountOf(log, "resumed") + (IF e.action = "resumed" THEN 1 ELSE 0)
      BY <1>1, <1>4, EntryCounts
    <2> HIDE DEF new
    <2> QED
      BY <1>1, <1>4, <1>6, <2>1 DEF Balanced
  <1>8. Alternates(new)
    <2> HIDE DEF new
    <2>1. Len(new) = n + 1 /\ new[n + 1] = e /\ \A k \in 1..n : new[k] = log[k]
      BY <1>5 DEF new
    <2>2. ASSUME NEW k \in 1..(n + 1), new[k].action = "paused", k < n + 1
          PROVE  new[k + 1].action = "resumed" /\ new[k + 1].resumes = k
      <3>1. CASE k = n
        <4>1. Held(log)
          BY <2>1, <2>2, <3>1 DEF Held, log
        <4> QED
          BY <1>4, <2>1, <3>1, <4>1
      <3>2. CASE k < n
        BY <1>1, <2>1, <2>2, <3>2 DEF Alternates, log
      <3> QED
        BY <1>1, <2>2, <3>1, <3>2
    <2>3. ASSUME NEW k \in 1..(n + 1), new[k].action = "resumed"
          PROVE  k > 1 /\ new[k - 1].action = "paused" /\ new[k].resumes = k - 1
      <3>1. CASE k = n + 1
        <4>1. Held(log)
          BY <1>4, <2>1, <2>3, <3>1
        <4>2. n > 0 /\ log[n].action = "paused"
          BY <1>1, <4>1 DEF Held, log
        <4> QED
          BY <1>1, <1>4, <2>1, <3>1, <4>1, <4>2
      <3>2. CASE k \in 1..n
        BY <1>1, <2>1, <2>3, <3>2 DEF Alternates, log
      <3> QED
        BY <1>1, <3>1, <3>2
    <2> QED
      BY <2>1, <2>2, <2>3 DEF Alternates
  <1>9. pauses'[o] = new /\ \A p \in Orders : p # o => pauses'[p] = pauses[p]
    BY <1>3 DEF TypeOK, new
  <1> QED
    BY <1>7, <1>8, <1>9 DEF PauseInv

\* An order is on hold if and only if its log has one pause more than resumes, whatever
\* the services are asked to do with it.
THEOREM PausesAreBalanced == ServiceSpec => []PauseLogBalances
PROOF
  <1>1. Init => PauseInv
    BY EmptyLogBalances DEF Init, PauseInv
  <1>2. ASSUME TypeOK, PauseInv, [ServiceNext]_coreVars
        PROVE  PauseInv'
    <2>1. CASE UNCHANGED pauses
      BY <1>2, <2>1 DEF PauseInv
    <2>2. ASSUME NEW o \in Orders, PurgeOrder(o)
          PROVE  PauseInv'
      BY <1>2, <2>2, EmptyLogBalances DEF PurgeOrder, TypeOK, PauseInv
    <2>3. ASSUME NEW o \in Orders, PauseOrder(o) \/ ResumeOrder(o)
          PROVE  PauseInv'
      BY <1>2, <2>3, AnEntryKeepsTheLog
    <2>4. \/ UNCHANGED pauses
          \/ \E o \in Orders : PurgeOrder(o) \/ PauseOrder(o) \/ ResumeOrder(o)
      BY <1>2 DEF coreVars, ServiceNext, OfficeNext, HandlerNext, ChangeNext, UncalledNext,
         ProposeChange, ProposeAddress, AppendRelevantChange, AppendVersion, MakeEffective,
         CancelOrder, CreateOrder, AcknowledgePrint, SetCandidate, ConfirmPrint
    <2> QED
      BY <2>1, <2>2, <2>3, <2>4
  <1>3. TypeOK /\ PauseInv => PauseLogBalances
    <2> SUFFICES ASSUME TypeOK, PauseInv, NEW o \in Orders
                 PROVE  CountOf(pauses[o], "paused") =
                          CountOf(pauses[o], "resumed") + (IF ActivePause(o) # 0 THEN 1 ELSE 0)
      BY DEF PauseLogBalances, CountOf, EntriesOf
    <2>1. pauses[o] \in Seq(PauseEvent) /\ Alternates(pauses[o]) /\ Balanced(pauses[o])
      BY DEF TypeOK, PauseInv
    <2>2. ActivePause(o) # 0 <=> Held(pauses[o])
      BY <2>1, TheOpenPauseIsTheLast DEF Held
    <2> QED
      BY <2>1, <2>2 DEF Balanced
  <1> QED
    BY <1>1, <1>2, <1>3, TypeCorrectness, PTL DEF ServiceSpec

-----------------------------------------------------------------------------
(* Action properties. *)

\* Storno is irreversible: a cancelled order keeps its row until it is purged.
THEOREM StornoIsFinal == Spec => CancellationIsFinal
PROOF
  <1>1. ASSUME CoreInv, [Next]_coreVars, NEW o \in Orders,
               orders[o].state = "cancelled"
        PROVE  orders'[o] = orders[o] \/ orders'[o].state = "purged"
    <2>1. orders \in [Orders -> OrderRow]
      BY <1>1 DEF CoreInv, TypeOK
    <2>2. CASE UNCHANGED coreVars
      BY <2>2 DEF coreVars
    <2>3. ASSUME NEW p \in Orders, NEW row, orders[p].state # "cancelled",
                 orders' = [orders EXCEPT ![p] = row]
          PROVE  orders'[o] = orders[o]
      BY <1>1, <2>1, <2>3
    <2>4. ASSUME NEW p \in Orders, NEW v \in Versions, NEW i \in Inquiries,
                 NEW row \in InitialContents, CreateOrder(p, v, i, row)
          PROVE  orders'[o] = orders[o]
      BY <2>3, <2>4 DEF CreateOrder
    <2>5. ASSUME NEW p \in Orders, NEW v \in Versions, NEW row,
                 Active(p), AppendVersion(p, v, row, v)
          PROVE  orders'[o] = orders[o]
      BY <1>1, <2>1, <2>5 DEF AppendVersion, Active
    <2>6. ASSUME NEW p \in Orders, NEW v \in Versions, NEW f \in Facts,
                 ProposeChange(p, v, f)
          PROVE  orders'[o] = orders[o]
      BY <2>5, <2>6 DEF ProposeChange
    <2>10. ASSUME NEW p \in Orders, NEW v \in Versions, NEW w \in Versions,
                  NEW a \in Addresses, ProposeAddress(p, v, w, a)
           PROVE  orders'[o] = orders[o]
      BY <2>5, <2>10 DEF ProposeAddress
    <2>7. ASSUME NEW p \in Orders, NEW v \in Versions,
                 AcknowledgePrint(p, v) \/ MakeEffective(p, v)
          PROVE  orders'[o] = orders[o]
      BY <1>1, <2>1, <2>7 DEF AcknowledgePrint, MakeEffective, Active
    <2>8. ASSUME NEW p \in Orders,
                 CancelOrder(p) \/ PauseOrder(p) \/ ResumeOrder(p)
          PROVE  orders'[o] = orders[o]
      BY <1>1, <2>1, <2>8 DEF CancelOrder, PauseOrder, ResumeOrder, Active
    <2>9. ASSUME NEW p \in Orders, PurgeOrder(p)
          PROVE  orders'[o] = orders[o] \/ orders'[o].state = "purged"
      BY <2>1, <2>9 DEF PurgeOrder, NoOrder
    <2>11. CASE Next
      BY <2>4, <2>6, <2>7, <2>8, <2>9, <2>10, <2>11 DEF Next, OfficeNext, HandlerNext, ChangeNext
    <2> QED
      BY <1>1, <2>2, <2>11
  <1>2. CoreInv /\ [Next]_coreVars =>
          [\A o \in Orders : orders[o].state = "cancelled" =>
             orders'[o] = orders[o] \/ orders'[o].state = "purged"]_coreVars
    BY <1>1
  <1> QED
    BY <1>2, CoreInvariance, PTL DEF Spec, CancellationIsFinal

-----------------------------------------------------------------------------
(* What the steps do to single versions. *)

\* A proposal appends one version of the order, whose parent is a version of the
\* order, and names every group of fields in which it differs from it.
Proposed(o, v, row) ==
    /\ Active(o) /\ AppendVersion(o, v, row, v)
    /\ row.state = "stored" /\ row.order = o /\ row.number = LatestNumber(o) + 1
    /\ row.parent \in VersionsOf(o) /\ row.confirmed = FALSE
    /\ row.facts # versions[row.parent].facts => "facts" \in row.changed
    /\ row.address # versions[row.parent].address => "address" \in row.changed

LEMMA Proposals ==
    ASSUME HistoryInv, NEW o \in Orders, NEW v \in Versions,
           \/ \E f \in Facts : ProposeChange(o, v, f)
           \/ \E p \in Versions, a \in Addresses : ProposeAddress(o, v, p, a)
    PROVE  \E row \in VersionRow : Proposed(o, v, row)
PROOF
  <1>0. TypeOK /\ Gapless(o)
    BY DEF HistoryInv
  <1>1. ASSUME NEW f \in Facts, ProposeChange(o, v, f)
        PROVE  \E row \in VersionRow : Proposed(o, v, row)
    <2> DEFINE source == IF orders[o].effective # None THEN orders[o].effective
                                                      ELSE LatestVersion(o)
               named == NamedChanges(o, source, f)
               row == [state |-> "stored", order |-> o,
                       number |-> LatestNumber(o) + 1,
                       parent |-> source, confirmed |-> FALSE,
                       facts |-> f, timing |-> None,
                       window |-> versions[source].window,
                       address |-> versions[source].address,
                       changed |-> named]
    <2>1. /\ Active(o) /\ VersionsOf(o) # {}
          /\ orders[o].effective # None => Owned(o, orders[o].effective)
          /\ AppendVersion(o, v, row, v)
      BY <1>1 DEF ProposeChange
    <2>2. source \in VersionsOf(o)
      <3>1. orders[o].effective \in Optional(Versions)
        BY <1>0 DEF TypeOK, OrderRow
      <3> QED
        BY <1>0, <2>1, <3>1, NewestVersion DEF Optional, VersionsOf
    <2>3. /\ named \in SUBSET FieldGroups
          /\ versions[source].facts # f => "facts" \in named
      BY DEF NamedChanges, FieldGroups
    <2>4. versions[source] \in VersionRow /\ LatestNumber(o) + 1 \in Nat
      BY <1>0, <2>2 DEF TypeOK, VersionsOf, Gapless
    <2> HIDE DEF source, named
    <2>5. row \in VersionRow
      BY <2>2, <2>3, <2>4 DEF VersionRow, Optional, VersionsOf
    <2> QED
      BY <2>1, <2>2, <2>3, <2>5 DEF Proposed
  <1>2. ASSUME NEW p \in Versions, NEW a \in Addresses, ProposeAddress(o, v, p, a)
        PROVE  \E row \in VersionRow : Proposed(o, v, row)
    <2> DEFINE row == [state |-> "stored", order |-> o,
                       number |-> LatestNumber(o) + 1,
                       parent |-> p, confirmed |-> FALSE,
                       facts |-> versions[p].facts,
                       timing |-> None, window |-> None,
                       address |-> a, changed |-> {"address"}]
    <2>1. Active(o) /\ p \in VersionsOf(o) /\ AppendVersion(o, v, row, v)
      BY <1>2 DEF ProposeAddress, VersionsOf
    <2>2. row \in VersionRow
      BY <1>0 DEF TypeOK, VersionRow, Optional, Gapless, FieldGroups
    <2> QED
      BY <2>1, <2>2 DEF Proposed
  <1> QED
    BY <1>1, <1>2

\* The pointers of one order are set, everything else of the orders stays.
LEMMA EffectiveIsSet ==
    ASSUME orders \in [Orders -> OrderRow], NEW o \in Orders, NEW v \in Versions,
           MakeEffective(o, v)
    PROVE  /\ orders' \in [Orders -> OrderRow]
           /\ orders'[o].effective = v /\ orders'[o].candidate = None
           /\ \A p \in Orders : p # o => orders'[p] = orders[p]
           /\ \A p \in Orders : /\ orders'[p].state = orders[p].state
                                /\ orders'[p].inquiry = orders[p].inquiry
PROOF
  <1> DEFINE row == [orders[o] EXCEPT !.effective = v, !.candidate = None]
  <1>1. orders' = [orders EXCEPT ![o] = row]
    BY DEF MakeEffective
  <1>2. /\ row \in OrderRow /\ row.effective = v /\ row.candidate = None
        /\ row.state = orders[o].state /\ row.inquiry = orders[o].inquiry
    BY DEF OrderRow, Optional
  <1> HIDE DEF row
  <1> QED
    BY <1>1, <1>2

\* The steps that append nothing leave the stored rows or confirm one of them.
LEMMA OtherSteps ==
    ASSUME HistoryInv, NEW o \in Orders,
           \/ \E v \in Versions : MakeEffective(o, v) \/ AcknowledgePrint(o, v)
           \/ CancelOrder(o) \/ PauseOrder(o) \/ ResumeOrder(o)
    PROVE  /\ Active(o)
           /\ \/ versions' = versions
              \/ \E v \in VersionsOf(o) :
                   versions' = [versions EXCEPT ![v].confirmed = TRUE]
           /\ \A p \in Orders : /\ Exists(p)' <=> Exists(p)
                                /\ orders'[p].inquiry = orders[p].inquiry
PROOF
  <1>1. orders \in [Orders -> OrderRow]
    BY DEF HistoryInv, TypeOK
  <1>2. ASSUME NEW v \in Versions, MakeEffective(o, v)
        PROVE  /\ Active(o) /\ versions' = versions
               /\ \A p \in Orders : /\ Exists(p)' <=> Exists(p)
                                    /\ orders'[p].inquiry = orders[p].inquiry
    <2>1. Active(o) /\ versions' = versions
      BY <1>2 DEF MakeEffective
    <2> QED
      BY <1>1, <1>2, <2>1, EffectiveIsSet DEF Exists
  <1>3. ASSUME NEW v \in Versions, AcknowledgePrint(o, v)
        PROVE  /\ Active(o) /\ v \in VersionsOf(o)
               /\ versions' = [versions EXCEPT ![v].confirmed = TRUE]
               /\ \A p \in Orders : /\ Exists(p)' <=> Exists(p)
                                    /\ orders'[p].inquiry = orders[p].inquiry
    <2> DEFINE new == ActivatedByPrint(orders[o], v)
    <2>1. /\ Active(o) /\ v \in VersionsOf(o)
          /\ versions' = [versions EXCEPT ![v].confirmed = TRUE]
          /\ orders' = [orders EXCEPT ![o] = new]
      BY <1>3 DEF AcknowledgePrint, VersionsOf
    <2>2. new.state = orders[o].state /\ new.inquiry = orders[o].inquiry
      BY <1>1 DEF ActivatedByPrint, OrderRow
    <2> HIDE DEF new
    <2> QED
      BY <1>1, <2>1, <2>2 DEF Exists
  <1>4. ASSUME CancelOrder(o) \/ PauseOrder(o) \/ ResumeOrder(o)
        PROVE  /\ Active(o) /\ versions' = versions
               /\ \A p \in Orders : /\ Exists(p)' <=> Exists(p)
                                    /\ orders'[p].inquiry = orders[p].inquiry
    BY <1>1, <1>4 DEF CancelOrder, PauseOrder, ResumeOrder, Exists, Active, OrderRow
  <1> QED
    BY <1>2, <1>3, <1>4

\* The inductive invariant with what the inquiries and the contents promise.
ContentInv == HistoryInv /\ OneOrderPerInquiry /\ ChangesOfFactsAreNamed

LEMMA ContentsAreKept ==
    ASSUME ContentInv, [ServiceNext]_coreVars
    PROVE  ContentInv'
PROOF
  <1>1. HistoryInv /\ OneOrderPerInquiry /\ ChangesOfFactsAreNamed
    BY DEF ContentInv
  <1>2. HistoryInv'
    BY <1>1, ServicesKeepHistory
  <1>3. /\ versions \in [Versions -> VersionRow] /\ orders \in [Orders -> OrderRow]
        /\ LineageStaysInOrder /\ None \notin Versions
    BY <1>1, NoneAssumption DEF HistoryInv, TypeOK
  <1>4. ASSUME \A p \in Orders : /\ Exists(p)' => Exists(p)
                                 /\ Exists(p) /\ Exists(p)' =>
                                      orders'[p].inquiry = orders[p].inquiry
        PROVE  OneOrderPerInquiry'
    BY <1>1, <1>4 DEF OneOrderPerInquiry
  <1>5. ASSUME NEW o \in Orders, NEW v \in Versions,
               \/ \E f \in Facts : ProposeChange(o, v, f)
               \/ \E p \in Versions, a \in Addresses : ProposeAddress(o, v, p, a)
        PROVE  OneOrderPerInquiry' /\ ChangesOfFactsAreNamed'
    <2>a. PICK row \in VersionRow : Proposed(o, v, row)
      BY <1>1, <1>5, Proposals
    <2>1. /\ Active(o) /\ AppendVersion(o, v, row, v)
          /\ row.state = "stored" /\ row.order = o
          /\ row.parent \in VersionsOf(o)
          /\ row.facts # versions[row.parent].facts => "facts" \in row.changed
          /\ row.address # versions[row.parent].address => "address" \in row.changed
      BY <2>a DEF Proposed
    <2>2. /\ versions[v].state = "unborn" /\ versions'[v] = row
          /\ \A w \in Versions : w # v => versions'[w] = versions[w]
          /\ row.parent \in Versions /\ versions[row.parent].state = "stored"
      BY <1>3, <2>1 DEF AppendVersion, VersionsOf, Owned, Stored
    <2>3. ChangesOfFactsAreNamed'
      <3> SUFFICES ASSUME NEW w \in Versions, versions'[w].state = "stored",
                          versions'[w].parent # None
                   PROVE  LET p == versions'[w].parent
                          IN  /\ versions'[w].facts # versions'[p].facts =>
                                   "facts" \in versions'[w].changed
                              /\ versions'[w].address # versions'[p].address =>
                                   "address" \in versions'[w].changed
        BY DEF ChangesOfFactsAreNamed, Stored
      <3>1. CASE w = v
        BY <2>1, <2>2, <3>1
      <3>2. CASE w # v
        <4>1. /\ versions[versions[w].parent].state = "stored"
              /\ versions[w].parent \in Versions
          BY <1>3, <2>2, <3>2 DEF LineageStaysInOrder, Stored, Owned, VersionRow, Optional
        <4> QED
          BY <1>1, <2>2, <3>2, <4>1 DEF ChangesOfFactsAreNamed, Stored
      <3> QED
        BY <3>1, <3>2
    <2>4. OneOrderPerInquiry'
      BY <1>3, <1>4, <2>1 DEF AppendVersion, Exists, OrderRow
    <2> QED
      BY <2>3, <2>4
  <1>6. ASSUME NEW o \in Orders,
               \/ \E v \in Versions : MakeEffective(o, v) \/ AcknowledgePrint(o, v)
               \/ CancelOrder(o) \/ PauseOrder(o) \/ ResumeOrder(o)
        PROVE  OneOrderPerInquiry' /\ ChangesOfFactsAreNamed'
    <2>1. /\ \/ versions' = versions
             \/ \E v \in VersionsOf(o) :
                  versions' = [versions EXCEPT ![v].confirmed = TRUE]
          /\ \A p \in Orders : /\ Exists(p)' => Exists(p)
                               /\ orders'[p].inquiry = orders[p].inquiry
      BY <1>1, <1>6, OtherSteps
    <2>2. \A w \in Versions : /\ versions'[w].state = versions[w].state
                              /\ versions'[w].parent = versions[w].parent
                              /\ versions'[w].facts = versions[w].facts
                              /\ versions'[w].address = versions[w].address
                              /\ versions'[w].changed = versions[w].changed
      BY <1>3, <2>1 DEF VersionRow
    <2>3. \A w \in Versions : versions[w].parent \in Versions \cup {None}
      BY <1>3 DEF VersionRow, Optional
    <2>4. ChangesOfFactsAreNamed'
      BY <1>1, <2>2, <2>3 DEF ChangesOfFactsAreNamed, Stored
    <2> QED
      BY <1>4, <2>1, <2>4
  <1>7. ASSUME NEW o \in Orders, NEW v \in Versions, NEW i \in Inquiries,
               NEW row \in InitialContents, CreateOrder(o, v, i, row)
        PROVE  OneOrderPerInquiry' /\ ChangesOfFactsAreNamed'
    <2>1. /\ orders[o].state = "unborn" /\ versions[v].state = "unborn"
          /\ ~ HasLinkedOrder(i)
          /\ \A w \in Versions : w # v => versions'[w] = versions[w]
          /\ versions'[v].parent = None
      BY <1>3, <1>7 DEF CreateOrder
    <2>2. /\ orders'[o].inquiry = i
          /\ \A p \in Orders : p # o => orders'[p] = orders[p]
      BY <1>3, <1>7 DEF CreateOrder, NoOrder
    <2>3. OneOrderPerInquiry'
      BY <1>1, <2>1, <2>2 DEF OneOrderPerInquiry, HasLinkedOrder, Exists
    <2>4. ChangesOfFactsAreNamed'
      <3> SUFFICES ASSUME NEW w \in Versions, versions'[w].state = "stored",
                          versions'[w].parent # None
                   PROVE  LET p == versions'[w].parent
                          IN  /\ versions'[w].facts # versions'[p].facts =>
                                   "facts" \in versions'[w].changed
                              /\ versions'[w].address # versions'[p].address =>
                                   "address" \in versions'[w].changed
        BY DEF ChangesOfFactsAreNamed, Stored
      <3>1. w # v /\ versions'[w] = versions[w]
        BY <2>1
      <3>2. /\ versions[versions[w].parent].state = "stored"
            /\ versions[w].parent \in Versions
        BY <1>3, <3>1 DEF LineageStaysInOrder, Stored, Owned, VersionRow, Optional
      <3> QED
        BY <1>1, <2>1, <3>1, <3>2 DEF ChangesOfFactsAreNamed, Stored
    <2> QED
      BY <2>3, <2>4
  <1>8. ASSUME NEW o \in Orders, PurgeOrder(o)
        PROVE  OneOrderPerInquiry' /\ ChangesOfFactsAreNamed'
    <2>1. \A w \in Versions :
            versions'[w] = IF Owned(o, w) THEN [NoVersion EXCEPT !.state = "purged"]
                                          ELSE versions[w]
      BY <1>8 DEF PurgeOrder
    <2>2. \A p \in Orders : p # o => orders'[p] = orders[p]
      BY <1>3, <1>8 DEF PurgeOrder
    <2>3. ~ Exists(o)'
      BY <1>3, <1>8 DEF PurgeOrder, NoOrder, Exists
    <2>4. OneOrderPerInquiry'
      BY <1>4, <2>2, <2>3 DEF Exists
    <2>5. ChangesOfFactsAreNamed'
      <3> SUFFICES ASSUME NEW w \in Versions, versions'[w].state = "stored",
                          versions'[w].parent # None
                   PROVE  LET p == versions'[w].parent
                          IN  /\ versions'[w].facts # versions'[p].facts =>
                                   "facts" \in versions'[w].changed
                              /\ versions'[w].address # versions'[p].address =>
                                   "address" \in versions'[w].changed
        BY DEF ChangesOfFactsAreNamed, Stored
      <3>1. ~ Owned(o, w) /\ versions'[w] = versions[w]
        BY <2>1 DEF NoVersion
      <3>2. /\ Owned(versions[w].order, versions[w].parent)
            /\ versions[w].parent \in Versions
        BY <1>3, <3>1 DEF LineageStaysInOrder, Stored, VersionRow, Optional
      <3>3. ~ Owned(o, versions[w].parent)
        BY <3>1, <3>2 DEF Owned, Stored
      <3> QED
        BY <1>1, <2>1, <3>1, <3>2, <3>3 DEF ChangesOfFactsAreNamed, Stored
    <2> QED
      BY <2>4, <2>5
  <1>9. ASSUME UNCHANGED coreVars
        PROVE  OneOrderPerInquiry' /\ ChangesOfFactsAreNamed'
    <2>1. orders' = orders /\ versions' = versions
      BY <1>9 DEF coreVars
    <2>2. OneOrderPerInquiry'
      BY <1>4, <2>1 DEF Exists
    <2>3. ChangesOfFactsAreNamed'
      BY <1>1, <2>1 DEF ChangesOfFactsAreNamed, Stored
    <2> QED
      BY <2>2, <2>3
  <1>10. ASSUME Next
         PROVE  OneOrderPerInquiry' /\ ChangesOfFactsAreNamed'
    <2>1. PICK o \in Orders :
            \/ \E v \in Versions, f \in Facts : ProposeChange(o, v, f)
            \/ \E v, p \in Versions, a \in Addresses : ProposeAddress(o, v, p, a)
            \/ \E v \in Versions : MakeEffective(o, v) \/ AcknowledgePrint(o, v)
            \/ CancelOrder(o) \/ PauseOrder(o) \/ ResumeOrder(o)
            \/ PurgeOrder(o)
            \/ \E v \in Versions, i \in Inquiries, row \in InitialContents :
                 CreateOrder(o, v, i, row)
      BY <1>10 DEF Next, OfficeNext, HandlerNext, ChangeNext
    <2>2. CASE \E v \in Versions, f \in Facts : ProposeChange(o, v, f)
      BY <2>2, <1>5
    <2>3. CASE \E v, p \in Versions, a \in Addresses : ProposeAddress(o, v, p, a)
      <3>1. PICK v \in Versions : \E p \in Versions, a \in Addresses : ProposeAddress(o, v, p, a)
        BY <2>3
      <3> QED
        BY <3>1, <1>5
    <2>4. CASE \/ \E v \in Versions : MakeEffective(o, v) \/ AcknowledgePrint(o, v)
               \/ CancelOrder(o) \/ PauseOrder(o) \/ ResumeOrder(o)
      BY <2>4, <1>6
    <2>5. CASE PurgeOrder(o)
      BY <2>5, <1>8
    <2>6. CASE \E v \in Versions, i \in Inquiries, row \in InitialContents :
                 CreateOrder(o, v, i, row)
      BY <2>6, <1>7
    <2> QED
      BY <2>1, <2>2, <2>3, <2>4, <2>5, <2>6
  <1>11. ASSUME NEW o \in Orders, NEW v \in Versions,
                \/ \E f \in Facts : AppendRelevantChange(o, v, f)
                \/ SetCandidate(o, v)
                \/ ConfirmPrint(o, v)
         PROVE  OneOrderPerInquiry' /\ ChangesOfFactsAreNamed'
    <2>1. \A p \in Orders : /\ Exists(p)' => Exists(p)
                            /\ orders'[p].inquiry = orders[p].inquiry
      BY <1>3, <1>11
      DEF AppendRelevantChange, AppendVersion, SetCandidate, ConfirmPrint, Exists, OrderRow
    <2>2. \A w \in Versions : Stored(w) \/ w # v =>
             /\ versions'[w].state = versions[w].state
             /\ versions'[w].parent = versions[w].parent
             /\ versions'[w].facts = versions[w].facts
             /\ versions'[w].address = versions[w].address
             /\ versions'[w].changed = versions[w].changed
      BY <1>3, <1>11
      DEF AppendRelevantChange, AppendVersion, SetCandidate, ConfirmPrint, VersionRow, Stored
    <2>3. Stored(v) \/ versions'[v].parent = None
      BY <1>3, <1>11
      DEF AppendRelevantChange, AppendVersion, SetCandidate, ConfirmPrint, Stored, Owned
    <2>4. \A w \in Versions : Stored(w) /\ versions[w].parent # None =>
             Stored(versions[w].parent) /\ versions[w].parent \in Versions
      BY <1>3 DEF LineageStaysInOrder, Owned, VersionRow, Optional
    <2>5. ASSUME NEW w \in Versions, versions'[w].state = "stored",
                 versions'[w].parent # None
          PROVE  Stored(w)
      BY <2>2, <2>3, <2>5 DEF Stored
    <2>6. ChangesOfFactsAreNamed'
      BY <1>1, <2>2, <2>4, <2>5 DEF ChangesOfFactsAreNamed, Stored
    <2> QED
      BY <1>4, <2>1, <2>6
  <1>12. ASSUME UncalledNext
         PROVE  OneOrderPerInquiry' /\ ChangesOfFactsAreNamed'
    BY <1>11, <1>12 DEF UncalledNext
  <1> QED
    BY <1>2, <1>9, <1>10, <1>12 DEF ContentInv, ServiceNext, Next

LEMMA ContentInvariance == ServiceSpec => []ContentInv
PROOF
  <1>1. Init => ContentInv
    <2> SUFFICES ASSUME Init PROVE ContentInv
      OBVIOUS
    <2>1. OneOrderPerInquiry /\ ChangesOfFactsAreNamed
      BY DEF Init, NoOrder, NoVersion, OneOrderPerInquiry, ChangesOfFactsAreNamed,
             Exists, Stored
    <2> QED
      BY <2>1, InitInv, CoreInvParts DEF ContentInv
  <1>2. ContentInv /\ [ServiceNext]_coreVars => ContentInv'
    BY ContentsAreKept
  <1> QED
    BY <1>1, <1>2, PTL DEF ServiceSpec

\* An inquiry never has two orders, whatever is cancelled, deleted and converted.
LEMMA AnInquiryHasOneOrder == ServiceSpec => []OneOrderPerInquiry
PROOF
  <1>1. ContentInv => OneOrderPerInquiry
    BY DEF ContentInv
  <1> QED
    BY <1>1, ContentInvariance, PTL

\* A version differs from its parent in no planning fact and no recipient that its
\* changed_fields do not name.
THEOREM EveryChangeIsNamed == ServiceSpec => []ChangesOfFactsAreNamed
PROOF
  <1>1. ContentInv => ChangesOfFactsAreNamed
    BY DEF ContentInv
  <1> QED
    BY <1>1, ContentInvariance, PTL

\* What was printed stays as it was printed: until the order is deleted, nothing in a
\* stored version changes but the print confirmation.
THEOREM SnapshotsStay == Spec => SnapshotsAreImmutable
PROOF
  <1>1. ASSUME CoreInv, [Next]_coreVars, NEW w \in Versions, Stored(w)
        PROVE  \/ versions'[w] = versions[w]
               \/ versions'[w] = [versions[w] EXCEPT !.confirmed = TRUE]
               \/ orders'[versions[w].order].state = "purged"
    <2>0. versions \in [Versions -> VersionRow] /\ orders \in [Orders -> OrderRow]
      BY <1>1 DEF CoreInv, TypeOK
    <2>1. CASE UNCHANGED coreVars
      BY <2>1 DEF coreVars
    <2>2. ASSUME NEW o \in Orders, NEW v \in Versions,
                 \/ \E f \in Facts : ProposeChange(o, v, f)
                 \/ \E p \in Versions, a \in Addresses : ProposeAddress(o, v, p, a)
          PROVE  versions'[w] = versions[w]
      <3>1. PICK row \in VersionRow : AppendVersion(o, v, row, v)
        BY <1>1, <2>2, Proposals, CoreInvParts DEF Proposed
      <3> QED
        BY <1>1, <2>0, <3>1 DEF AppendVersion, Stored
    <2>3. ASSUME NEW o \in Orders,
                 \/ \E v \in Versions : MakeEffective(o, v) \/ AcknowledgePrint(o, v)
                 \/ CancelOrder(o) \/ PauseOrder(o) \/ ResumeOrder(o)
          PROVE  \/ versions'[w] = versions[w]
                 \/ versions'[w] = [versions[w] EXCEPT !.confirmed = TRUE]
      BY <1>1, <2>0, <2>3, OtherSteps, CoreInvParts
    <2>4. ASSUME NEW o \in Orders, NEW v \in Versions, NEW i \in Inquiries,
                 NEW row \in InitialContents, CreateOrder(o, v, i, row)
          PROVE  versions'[w] = versions[w]
      BY <1>1, <2>0, <2>4 DEF CreateOrder, Stored
    <2>5. ASSUME NEW o \in Orders, PurgeOrder(o)
          PROVE  \/ versions'[w] = versions[w]
                 \/ orders'[versions[w].order].state = "purged"
      BY <2>0, <2>5 DEF PurgeOrder, NoOrder, Owned
    <2>6. CASE Next
      <3>1. PICK o \in Orders :
              \/ \E v \in Versions, f \in Facts : ProposeChange(o, v, f)
              \/ \E v, p \in Versions, a \in Addresses : ProposeAddress(o, v, p, a)
              \/ \E v \in Versions : MakeEffective(o, v) \/ AcknowledgePrint(o, v)
              \/ CancelOrder(o) \/ PauseOrder(o) \/ ResumeOrder(o)
              \/ PurgeOrder(o)
              \/ \E v \in Versions, i \in Inquiries, row \in InitialContents :
                   CreateOrder(o, v, i, row)
        BY <2>6 DEF Next, OfficeNext, HandlerNext, ChangeNext
      <3>2. CASE \E v \in Versions, f \in Facts : ProposeChange(o, v, f)
        BY <3>2, <2>2
      <3>3. CASE \E v, p \in Versions, a \in Addresses : ProposeAddress(o, v, p, a)
        <4>1. PICK v \in Versions : \E p \in Versions, a \in Addresses :
                                      ProposeAddress(o, v, p, a)
          BY <3>3
        <4> QED
          BY <4>1, <2>2
      <3>4. CASE \/ \E v \in Versions : MakeEffective(o, v) \/ AcknowledgePrint(o, v)
                 \/ CancelOrder(o) \/ PauseOrder(o) \/ ResumeOrder(o)
        BY <3>4, <2>3
      <3>5. CASE PurgeOrder(o)
        BY <3>5, <2>5
      <3>6. CASE \E v \in Versions, i \in Inquiries, row \in InitialContents :
                   CreateOrder(o, v, i, row)
        BY <3>6, <2>4
      <3> QED
        BY <3>1, <3>2, <3>3, <3>4, <3>5, <3>6
    <2> QED
      BY <1>1, <2>1, <2>6
  <1>2. CoreInv /\ [Next]_coreVars =>
          [\A v \in Versions : Stored(v) =>
             \/ versions'[v] = versions[v]
             \/ versions'[v] = [versions[v] EXCEPT !.confirmed = TRUE]
             \/ orders'[versions[v].order].state = "purged"]_coreVars
    BY <1>1
  <1> QED
    BY <1>2, CoreInvariance, PTL DEF Spec, SnapshotsAreImmutable

\* A stand is older than the newest one.
LEMMA OlderThanNewest ==
    ASSUME CoreInv, NEW o \in Orders, NEW v \in VersionsOf(o), NEW e \in VersionsOf(o),
           versions[v].number = LatestNumber(o), e # v
    PROVE  versions[e].number < versions[v].number
PROOF
  <1>1. Gapless(o)
    BY DEF CoreInv
  <1>2. versions[e].number \in 1..LatestNumber(o) /\ versions[e].number # versions[v].number
    BY <1>1 DEF Gapless, NumbersOf
  <1> QED
    BY <1>1, <1>2 DEF Gapless

MovesForward(o) ==
    LET e == orders[o].effective
        f == orders'[o].effective
    IN  e # None /\ f # None /\ e # f => versions'[f].number > versions'[e].number

\* An order that already has an effective stand gets the newest one instead of it.
LEMMA NewestIsSelected ==
    ASSUME CoreInv, NEW o \in Orders, NEW v \in VersionsOf(o),
           orders'[o].effective = v, versions[v].number = LatestNumber(o),
           \A w \in Versions : versions'[w].number = versions[w].number
    PROVE  MovesForward(o)
PROOF
  <1> SUFFICES ASSUME orders[o].effective # None, orders[o].effective # v
               PROVE  versions'[v].number > versions'[orders[o].effective].number
    BY DEF MovesForward
  <1>1. Owned(o, orders[o].effective) /\ orders[o].effective \in Versions
    BY DEF CoreInv, EffectiveIsPrinted, TypeOK, OrderRow, Optional
  <1>2. orders[o].effective \in VersionsOf(o) /\ v \in Versions
    BY <1>1 DEF VersionsOf
  <1>3. versions[orders[o].effective].number < versions[v].number
    BY <1>2, OlderThanNewest
  <1>4. /\ versions[orders[o].effective].number \in Nat
        /\ versions[v].number \in Nat
    <2>1. versions \in [Versions -> VersionRow]
      BY DEF CoreInv, TypeOK
    <2> QED
      BY <1>1, <1>2, <2>1 DEF VersionRow
  <1> DEFINE e == orders[o].effective
  <1>5. versions'[v].number = versions[v].number /\ versions'[e].number = versions[e].number
    BY <1>1, <1>2
  <1> HIDE DEF e
  <1>6. versions'[v].number > versions'[e].number
    BY <1>3, <1>4, <1>5 DEF e
  <1> QED
    BY <1>6 DEF e

LEMMA StepsMoveForward ==
    ASSUME CoreInv, [Next]_coreVars, NEW q \in Orders
    PROVE  MovesForward(q)
PROOF
  <1>0. /\ versions \in [Versions -> VersionRow] /\ orders \in [Orders -> OrderRow]
        /\ NewestIsPointedAt /\ PointersAreOwned
    BY DEF CoreInv, TypeOK
  <1>1. ASSUME orders'[q].effective = orders[q].effective \/ orders'[q].effective = None
               \/ orders[q].effective = None
        PROVE  MovesForward(q)
    BY <1>1 DEF MovesForward
  <1>2. CASE UNCHANGED coreVars
    BY <1>1, <1>2 DEF coreVars
  <1>3. ASSUME NEW o \in Orders, NEW v \in Versions,
               \/ \E f \in Facts : ProposeChange(o, v, f)
               \/ \E p \in Versions, a \in Addresses : ProposeAddress(o, v, p, a)
        PROVE  MovesForward(q)
    <2>1. PICK row \in VersionRow : AppendVersion(o, v, row, v)
      BY <1>3, Proposals, CoreInvParts DEF Proposed
    <2>2. orders'[q].effective = orders[q].effective
      BY <1>0, <2>1 DEF AppendVersion, OrderRow
    <2> QED
      BY <1>1, <2>2
  <1>4. ASSUME NEW o \in Orders, NEW v \in Versions, MakeEffective(o, v)
        PROVE  MovesForward(q)
    <2>1. /\ Active(o) /\ v \in VersionsOf(o) /\ versions' = versions
          /\ orders[o].candidate = v \/ orders[o].effective = None
      BY <1>4 DEF MakeEffective, VersionsOf
    <2>3. orders'[o].effective = v /\ \A p \in Orders : p # o => orders'[p] = orders[p]
      BY <1>0, <1>4, EffectiveIsSet
    <2>4. CASE q # o \/ orders[o].effective = None
      BY <1>1, <2>3, <2>4
    <2>5. CASE q = o /\ orders[o].candidate = v
      <3>1. versions[v].number = LatestNumber(o)
        BY <1>0, <2>1, <2>5, NoneAssumption DEF NewestIsPointedAt, Exists, Active, VersionsOf
      <3> QED
        BY <2>1, <2>3, <2>5, <3>1, NewestIsSelected
    <2> QED
      BY <2>1, <2>4, <2>5
  <1>5. ASSUME NEW o \in Orders, NEW v \in Versions, AcknowledgePrint(o, v)
        PROVE  MovesForward(q)
    <2> DEFINE new == ActivatedByPrint(orders[o], v)
    <2>1. /\ Active(o) /\ v \in VersionsOf(o)
          /\ versions' = [versions EXCEPT ![v].confirmed = TRUE]
          /\ orders' = [orders EXCEPT ![o] = new]
      BY <1>5 DEF AcknowledgePrint, VersionsOf
    <2>2. \/ new.effective = orders[o].effective
          \/ orders[o].effective = None
          \/ new.effective = v /\ orders[o].candidate = v
      BY <1>0 DEF ActivatedByPrint, OrderRow
    <2> HIDE DEF new
    <2>3. orders'[o] = new /\ \A p \in Orders : p # o => orders'[p] = orders[p]
      BY <1>0, <2>1
    <2>4. CASE q # o \/ new.effective = orders[o].effective \/ orders[o].effective = None
      BY <1>1, <2>3, <2>4
    <2>5. CASE q = o /\ new.effective = v /\ orders[o].candidate = v
      <3>1. versions[v].number = LatestNumber(o)
        BY <1>0, <2>1, <2>5, NoneAssumption DEF NewestIsPointedAt, Exists, Active, VersionsOf
      <3>2. \A w \in Versions : versions'[w].number = versions[w].number
        BY <1>0, <2>1 DEF VersionRow
      <3> QED
        BY <2>1, <2>3, <2>5, <3>1, <3>2, NewestIsSelected
    <2> QED
      BY <2>2, <2>4, <2>5
  <1>6. ASSUME NEW o \in Orders, CancelOrder(o) \/ PauseOrder(o) \/ ResumeOrder(o)
        PROVE  MovesForward(q)
    <2>1. orders'[q].effective = orders[q].effective
      BY <1>0, <1>6 DEF CancelOrder, PauseOrder, ResumeOrder, OrderRow
    <2> QED
      BY <1>1, <2>1
  <1>7. ASSUME NEW o \in Orders, NEW v \in Versions, NEW i \in Inquiries,
               NEW row \in InitialContents, CreateOrder(o, v, i, row)
        PROVE  MovesForward(q)
    <2>1. /\ orders[o].state = "unborn"
          /\ \A p \in Orders : p # o => orders'[p] = orders[p]
      BY <1>0, <1>7 DEF CreateOrder
    <2>2. orders[o].effective = None
      BY <1>0, <2>1 DEF PointersAreOwned, Exists
    <2> QED
      BY <1>1, <2>1, <2>2
  <1>8. ASSUME NEW o \in Orders, PurgeOrder(o)
        PROVE  MovesForward(q)
    <2>1. /\ orders'[o].effective = None
          /\ \A p \in Orders : p # o => orders'[p] = orders[p]
      BY <1>0, <1>8 DEF PurgeOrder, NoOrder
    <2> QED
      BY <1>1, <2>1
  <1>9. CASE Next
    <2>1. PICK o \in Orders :
            \/ \E v \in Versions, f \in Facts : ProposeChange(o, v, f)
            \/ \E v, p \in Versions, a \in Addresses : ProposeAddress(o, v, p, a)
            \/ \E v \in Versions : MakeEffective(o, v)
            \/ \E v \in Versions : AcknowledgePrint(o, v)
            \/ CancelOrder(o) \/ PauseOrder(o) \/ ResumeOrder(o)
            \/ PurgeOrder(o)
            \/ \E v \in Versions, i \in Inquiries, row \in InitialContents :
                 CreateOrder(o, v, i, row)
      BY <1>9 DEF Next, OfficeNext, HandlerNext, ChangeNext
    <2>2. CASE \E v \in Versions, f \in Facts : ProposeChange(o, v, f)
      BY <2>2, <1>3
    <2>3. CASE \E v, p \in Versions, a \in Addresses : ProposeAddress(o, v, p, a)
      <3>1. PICK v \in Versions : \E p \in Versions, a \in Addresses : ProposeAddress(o, v, p, a)
        BY <2>3
      <3> QED
        BY <3>1, <1>3
    <2>4. CASE \E v \in Versions : MakeEffective(o, v)
      BY <2>4, <1>4
    <2>5. CASE \E v \in Versions : AcknowledgePrint(o, v)
      BY <2>5, <1>5
    <2>6. CASE CancelOrder(o) \/ PauseOrder(o) \/ ResumeOrder(o)
      BY <2>6, <1>6
    <2>7. CASE PurgeOrder(o)
      BY <2>7, <1>8
    <2>8. CASE \E v \in Versions, i \in Inquiries, row \in InitialContents :
                 CreateOrder(o, v, i, row)
      BY <2>8, <1>7
    <2> QED
      BY <2>1, <2>2, <2>3, <2>4, <2>5, <2>6, <2>7, <2>8
  <1> QED
    BY <1>2, <1>9

\* The kitchen never goes back to an older stand.
THEOREM EffectiveStandMovesForward == Spec => EffectiveMovesForward
PROOF
  <1>1. CoreInv /\ [Next]_coreVars => [\A o \in Orders : MovesForward(o)]_coreVars
    BY StepsMoveForward
  <1>2. [\A o \in Orders : MovesForward(o)]_coreVars <=>
          [\A o \in Orders :
             LET e == orders[o].effective
                 f == orders'[o].effective
             IN  e # None /\ f # None /\ e # f =>
                   versions'[f].number > versions'[e].number]_coreVars
    BY DEF MovesForward
  <1> QED
    BY <1>1, <1>2, CoreInvariance, PTL DEF Spec, EffectiveMovesForward

\* The versions of an order are one history.
THEOREM VersionsHaveOneHistory == ServiceSpec => []VersionsFormAHistory
  <1>1. HistoryIsGapless /\ LineageStaysInOrder /\ ChangesOfFactsAreNamed
          => VersionsFormAHistory
    BY DEF VersionsFormAHistory
  <1> QED
    BY <1>1, VersionHistoryIsGapless, LineageIsOwned, EveryChangeIsNamed, PTL

\* Neither a Storno, nor a stored version, nor the stand of the kitchen is taken back.
THEOREM DecisionsStand == Spec => NothingIsTakenBack
  <1> QED
    BY StornoIsFinal, SnapshotsStay, EffectiveStandMovesForward DEF NothingIsTakenBack

-----------------------------------------------------------------------------
(* What waits for its print. *)

\* A candidate is not printed, nor is anything of an order without a stand.
Waiting(o) ==
    /\ orders[o].candidate # None => ~ versions[orders[o].candidate].confirmed
    /\ Exists(o) /\ orders[o].candidate = None /\ orders[o].effective = None =>
         \A v \in VersionsOf(o) : ~ versions[v].confirmed

\* A stand once reached stays one as long as the order is active.
KeepsStand(o) ==
    orders[o].effective # None /\ orders'[o].state = "active" => orders'[o].effective # None

LEMMA UntouchedWaits ==
    ASSUME CoreInv, NEW q \in Orders, Waiting(q),
           orders'[q].candidate = orders[q].candidate,
           orders'[q].effective = orders[q].effective,
           Exists(q)' => Exists(q),
           \A w \in Versions : Owned(q, w) => versions'[w].confirmed = versions[w].confirmed,
           \A w \in Versions : Owned(q, w)' => Owned(q, w)
    PROVE  Waiting(q)' /\ KeepsStand(q)
PROOF
  <1>1. orders[q].candidate # None =>
          orders[q].candidate \in Versions /\ Owned(q, orders[q].candidate)
    BY DEF CoreInv, PointersAreOwned, TypeOK, OrderRow, Optional
  <1> QED
    BY <1>1 DEF Waiting, KeepsStand, VersionsOf

LEMMA StepsKeepWaiting ==
    ASSUME CoreInv, \A o \in Orders : Waiting(o), [Next]_coreVars, NEW q \in Orders
    PROVE  Waiting(q)' /\ KeepsStand(q)
PROOF
  <1>0. /\ versions \in [Versions -> VersionRow] /\ orders \in [Orders -> OrderRow]
        /\ PointersAreOwned /\ Waiting(q) /\ None \notin Versions
    BY NoneAssumption DEF CoreInv, TypeOK
  <1>1. CASE UNCHANGED coreVars
    BY <1>0, <1>1, UntouchedWaits DEF coreVars, Exists, Owned, Stored
  <1>2. ASSUME NEW o \in Orders, NEW v \in Versions,
               \/ \E f \in Facts : ProposeChange(o, v, f)
               \/ \E p \in Versions, a \in Addresses : ProposeAddress(o, v, p, a)
        PROVE  Waiting(q)' /\ KeepsStand(q)
    <2>0. HistoryInv
      BY CoreInvParts
    <2>a. PICK row \in VersionRow : Proposed(o, v, row)
      BY <1>2, <2>0, Proposals
    <2>1. /\ AppendVersion(o, v, row, v)
          /\ row.state = "stored" /\ row.order = o /\ row.confirmed = FALSE
      BY <2>a DEF Proposed
    <2>2. /\ versions[v].state = "unborn" /\ versions'[v] = row
          /\ \A w \in Versions : w # v => versions'[w] = versions[w]
          /\ orders' = [orders EXCEPT ![o].candidate = v]
      BY <1>0, <2>1 DEF AppendVersion
    <2>3. CASE q = o
      <3>1. orders'[q].candidate = v /\ orders'[q].effective = orders[q].effective
        BY <1>0, <2>2, <2>3 DEF OrderRow
      <3> QED
        BY <1>0, <2>1, <2>2, <3>1 DEF Waiting, KeepsStand
    <2>4. CASE q # o
      <3>1. orders'[q] = orders[q]
        BY <1>0, <2>2, <2>4
      <3>2. \A w \in Versions : Owned(q, w) => versions'[w] = versions[w]
        BY <2>2 DEF Owned, Stored
      <3>3. \A w \in Versions : Owned(q, w)' => Owned(q, w)
        BY <2>1, <2>2, <2>4 DEF Owned, Stored
      <3> QED
        BY <1>0, <3>1, <3>2, <3>3, UntouchedWaits DEF Exists
    <2> QED
      BY <2>3, <2>4
  <1>3. ASSUME NEW o \in Orders, NEW v \in Versions, MakeEffective(o, v)
        PROVE  Waiting(q)' /\ KeepsStand(q)
    <2>1. versions' = versions
      BY <1>3 DEF MakeEffective
    <2>3. /\ orders'[o].effective = v /\ orders'[o].candidate = None
          /\ \A p \in Orders : p # o => orders'[p] = orders[p]
      BY <1>0, <1>3, EffectiveIsSet
    <2>4. CASE q = o
      BY <1>0, <2>3, <2>4 DEF Waiting, KeepsStand
    <2>5. CASE q # o
      BY <1>0, <2>1, <2>3, <2>5, UntouchedWaits DEF Exists, Owned, Stored
    <2> QED
      BY <2>4, <2>5
  <1>4. ASSUME NEW o \in Orders, NEW v \in Versions, AcknowledgePrint(o, v)
        PROVE  Waiting(q)' /\ KeepsStand(q)
    <2> DEFINE new == ActivatedByPrint(orders[o], v)
    <2>1. /\ Active(o) /\ Owned(o, v)
          /\ versions' = [versions EXCEPT ![v].confirmed = TRUE]
          /\ orders' = [orders EXCEPT ![o] = new]
      BY <1>4 DEF AcknowledgePrint
    <2>2. /\ \A w \in Versions : /\ versions'[w].state = versions[w].state
                                 /\ versions'[w].order = versions[w].order
          /\ \A w \in Versions : w # v => versions'[w] = versions[w]
      BY <1>0, <2>1 DEF VersionRow
    <2>3. orders'[o] = new /\ \A p \in Orders : p # o => orders'[p] = orders[p]
      BY <1>0, <2>1
    <2>4. CASE q # o
      <3>1. \A w \in Versions : Owned(q, w) => versions'[w] = versions[w]
        BY <2>1, <2>2, <2>4 DEF Owned
      <3> QED
        BY <1>0, <2>2, <2>3, <2>4, <3>1, UntouchedWaits DEF Exists, Owned, Stored
    <2>5. CASE q = o
      <3>1. CASE orders[o].candidate = v
        <4>1. new.effective = v /\ new.candidate = None
          BY <1>0, <3>1 DEF ActivatedByPrint, OrderRow
        <4> QED
          BY <1>0, <2>3, <2>5, <4>1 DEF Waiting, KeepsStand
      <3>2. CASE orders[o].candidate # v /\ orders[o].candidate # None
        <4>1. new = orders[o] /\ orders[o].candidate \in Versions
          BY <1>0, <3>2 DEF ActivatedByPrint, OrderRow, Optional
        <4> QED
          BY <1>0, <2>2, <2>3, <2>5, <3>2, <4>1 DEF Waiting, KeepsStand
      <3>3. CASE orders[o].candidate = None /\ orders[o].effective # None
        <4>1. new = orders[o]
          BY <1>0, <3>3 DEF ActivatedByPrint
        <4> QED
          BY <2>3, <2>5, <3>3, <4>1 DEF Waiting, KeepsStand
      <3>4. CASE orders[o].candidate = None /\ orders[o].effective = None
        <4>1. LatestNumber(o) = 1 /\ Gapless(o)
          BY <2>1, <3>4 DEF CoreInv, NewestIsPointedAt, Exists, Active
        <4>2. v \in VersionsOf(o) /\ versions[v].number = 1
          BY <2>1, <4>1 DEF VersionsOf, Gapless, NumbersOf
        <4>3. versions[v].parent = None
          <5>1. SUFFICES ASSUME versions[v].parent # None  PROVE FALSE
            OBVIOUS
          <5> DEFINE p == versions[v].parent
          <5>2. p \in VersionsOf(o) /\ versions[p].number < 1
            BY <1>0, <2>1, <4>2, <5>1
            DEF CoreInv, LineageStaysInOrder, VersionsOf, Owned, VersionRow, Optional
          <5>3. versions[p].number \in 1..1
            BY <4>1, <5>2 DEF Gapless, NumbersOf
          <5> QED
            BY <5>2, <5>3
        <4>4. new.effective = v
          BY <1>0, <3>4, <4>2, <4>3 DEF ActivatedByPrint, OrderRow
        <4>5. new.candidate = None
          BY <1>0, <3>4, <4>2, <4>3 DEF ActivatedByPrint, OrderRow
        <4> QED
          BY <1>0, <2>3, <2>5, <4>4, <4>5 DEF Waiting, KeepsStand
      <3> QED
        BY <3>1, <3>2, <3>3, <3>4
    <2> QED
      BY <2>4, <2>5
  <1>5. ASSUME NEW o \in Orders, CancelOrder(o) \/ PauseOrder(o) \/ ResumeOrder(o)
        PROVE  Waiting(q)' /\ KeepsStand(q)
    <2>1. /\ versions' = versions
          /\ orders'[q].candidate = orders[q].candidate
          /\ orders'[q].effective = orders[q].effective
          /\ Exists(q)' => Exists(q)
      BY <1>0, <1>5 DEF CancelOrder, PauseOrder, ResumeOrder, OrderRow, Exists, Active
    <2> QED
      BY <1>0, <2>1, UntouchedWaits DEF Owned, Stored
  <1>6. ASSUME NEW o \in Orders, NEW v \in Versions, NEW i \in Inquiries,
               NEW row \in InitialContents, CreateOrder(o, v, i, row)
        PROVE  Waiting(q)' /\ KeepsStand(q)
    <2>1. /\ orders[o].state = "unborn" /\ versions[v].state = "unborn"
          /\ versions'[v].state = "stored" /\ versions'[v].order = o
          /\ versions'[v].confirmed = FALSE
          /\ \A w \in Versions : w # v => versions'[w] = versions[w]
          /\ orders'[o].candidate = None
          /\ \A p \in Orders : p # o => orders'[p] = orders[p]
      BY <1>0, <1>6 DEF CreateOrder, NoOrder
    <2>2. CASE q = o
      <3>1. orders[o].effective = None /\ \A w \in Versions : ~ Owned(o, w)
        BY <1>0, <2>1 DEF CoreInv, VersionsHaveOwners, PointersAreOwned, Exists, Owned
      <3>2. \A w \in Versions : Owned(o, w)' => w = v
        BY <2>1, <3>1 DEF Owned, Stored
      <3> QED
        BY <2>1, <2>2, <3>1, <3>2 DEF Waiting, KeepsStand, VersionsOf
    <2>3. CASE q # o
      <3>1. \A w \in Versions : Owned(q, w) => versions'[w] = versions[w]
        BY <2>1 DEF Owned, Stored
      <3>2. \A w \in Versions : Owned(q, w)' => Owned(q, w)
        BY <2>1, <2>3 DEF Owned, Stored
      <3> QED
        BY <1>0, <2>1, <2>3, <3>1, <3>2, UntouchedWaits DEF Exists
    <2> QED
      BY <2>2, <2>3
  <1>7. ASSUME NEW o \in Orders, PurgeOrder(o)
        PROVE  Waiting(q)' /\ KeepsStand(q)
    <2>1. /\ orders'[o].state = "purged" /\ orders'[o].candidate = None
          /\ \A p \in Orders : p # o => orders'[p] = orders[p]
          /\ \A w \in Versions : IF Owned(o, w) THEN versions'[w].state = "purged"
                                                ELSE versions'[w] = versions[w]
      BY <1>0, <1>7 DEF PurgeOrder, NoOrder, NoVersion
    <2>2. CASE q = o
      BY <2>1, <2>2 DEF Waiting, KeepsStand, Exists
    <2>3. CASE q # o
      <3>1. \A w \in Versions : Owned(q, w) => versions'[w] = versions[w]
        BY <2>1, <2>3 DEF Owned
      <3>2. \A w \in Versions : Owned(q, w)' => Owned(q, w)
        BY <2>1, <2>3 DEF Owned, Stored
      <3> QED
        BY <1>0, <2>1, <2>3, <3>1, <3>2, UntouchedWaits DEF Exists
    <2> QED
      BY <2>2, <2>3
  <1>8. CASE Next
    <2>1. PICK o \in Orders :
            \/ \E v \in Versions : \/ \E f \in Facts : ProposeChange(o, v, f)
                                   \/ \E p \in Versions, a \in Addresses :
                                        ProposeAddress(o, v, p, a)
            \/ \E v \in Versions : MakeEffective(o, v)
            \/ \E v \in Versions : AcknowledgePrint(o, v)
            \/ CancelOrder(o) \/ PauseOrder(o) \/ ResumeOrder(o)
            \/ PurgeOrder(o)
            \/ \E v \in Versions, i \in Inquiries, row \in InitialContents :
                 CreateOrder(o, v, i, row)
      <3>1. CASE ChangeNext
        BY <3>1 DEF ChangeNext
      <3>2. CASE ~ ChangeNext
        BY <1>8, <3>2 DEF Next, OfficeNext, HandlerNext
      <3> QED
        BY <3>1, <3>2
    <2> QED
      BY <2>1, <1>2, <1>3, <1>4, <1>5, <1>6, <1>7
  <1> QED
    BY <1>1, <1>8

\* A pending change is never printed already: its print is what makes it effective.
THEOREM PendingChangesAreUnprinted == Spec => [](\A o \in Orders : Waiting(o))
PROOF
  <1>1. Init => \A o \in Orders : Waiting(o)
    BY DEF Init, NoOrder, Waiting, Exists
  <1>2. CoreInv /\ (\A o \in Orders : Waiting(o)) /\ [Next]_coreVars
          => (\A o \in Orders : Waiting(o))'
    BY StepsKeepWaiting
  <1> QED
    BY <1>1, <1>2, CoreInvariance, PTL DEF Spec

=============================================================================
