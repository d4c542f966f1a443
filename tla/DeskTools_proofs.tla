--------------------------- MODULE DeskTools_proofs ---------------------------
(* Proofs about the tools of the desk, which share no state with one another: the *)
(* chat, the catalog, the list of pickups on the kiosk, the customer's mail, the  *)
(* contact profiles and the check of an offer's charges.                          *)
EXTENDS Confirmation, EmployeeChat, CatalogDishes, PickupSignal, ContactProfiles,
        OfferCharges, OrderCore_proofs

(****************************************************************************)
(* The chat, for any number of employees, threads and messages and any      *)
(* length of a page.                                                        *)
(****************************************************************************)

\* Who has read up to a message has been shown all of them, and so has who has a page.
MarkedWasShown ==
    \A t \in ChatThreads, e \in Employees : 1..marker[t][e] \subseteq shownTo[t][e]

PageWasShown ==
    \A e \in Employees : chatPage[e].last > 0 =>
        /\ chatPage[e].thread \in ChatThreads
        /\ 1..chatPage[e].last \subseteq shownTo[chatPage[e].thread][e]

LogsFitThePage == \A t \in ChatThreads : Len(log[t]) <= PageLimit

PairsDiffer ==
    \A t, u \in ChatThreads :
        /\ members[t] # {} /\ direct[t]
        /\ members[u] # {} /\ direct[u]
        /\ members[t] = members[u]
        => t = u

ChatInv == ChatTypeOK /\ MarkedWasShown /\ PageWasShown /\ LogsFitThePage /\ PairsDiffer

LEMMA InitChat == ChatInit => ChatInv
<1> SUFFICES ASSUME ChatInit PROVE ChatInv
    OBVIOUS
<1>1. /\ members = [t \in ChatThreads |-> {}]
      /\ direct = [t \in ChatThreads |-> FALSE]
      /\ log = [t \in ChatThreads |-> <<>>]
      /\ marker = [t \in ChatThreads |-> [e \in Employees |-> 0]]
      /\ chatPage = [e \in Employees |-> [thread |-> "none", last |-> 0]]
      /\ shownTo = [t \in ChatThreads |-> [e \in Employees |-> {}]]
    BY DEF ChatInit, NoChatPage
<1>2. ChatTypeOK
    BY <1>1 DEF ChatInit, ChatTypeOK, PageRow
<1>3. MarkedWasShown
    BY <1>1 DEF MarkedWasShown
<1>4. PageWasShown
    BY <1>1 DEF PageWasShown
<1>5. LogsFitThePage
    BY <1>1, ChatLimits DEF LogsFitThePage
<1>6. PairsDiffer
    BY <1>1 DEF PairsDiffer
<1> QED BY <1>2, <1>3, <1>4, <1>5, <1>6 DEF ChatInv

\* A thread is stored: nothing else of it exists yet, and the pair has none.
LEMMA ThreadKeeps ==
    ASSUME ChatInv, NEW t \in ChatThreads, NEW people \in SUBSET Employees,
           NEW isDirect \in BOOLEAN, StoreThread(t, people, isDirect),
           isDirect => DirectThread(people) = {},
           UNCHANGED <<log, marker, chatPage, atWork, shownTo>>
    PROVE  ChatInv'
<1> USE DEF ChatInv
<1>1. /\ members' = [members EXCEPT ![t] = people]
      /\ direct' = [direct EXCEPT ![t] = isDirect]
      /\ members[t] = {}
    BY DEF StoreThread
<1>2. ChatTypeOK'
    BY <1>1 DEF ChatTypeOK
<1>3. MarkedWasShown' /\ PageWasShown' /\ LogsFitThePage'
    BY DEF MarkedWasShown, PageWasShown, LogsFitThePage
<1>4. PairsDiffer'
    <2> SUFFICES ASSUME NEW u \in ChatThreads, NEW w \in ChatThreads,
                        members'[u] # {}, direct'[u], members'[w] # {}, direct'[w],
                        members'[u] = members'[w]
                 PROVE  u = w
        BY DEF PairsDiffer
    <2>1. \A x \in ChatThreads : x # t => members'[x] = members[x] /\ direct'[x] = direct[x]
        BY <1>1 DEF ChatTypeOK
    <2>2. members'[t] = people /\ direct'[t] = isDirect
        BY <1>1 DEF ChatTypeOK
    <2>3. ASSUME NEW x \in ChatThreads, x # t, members[x] # {}, direct[x],
                 members[x] = people, isDirect
          PROVE  FALSE
        BY <2>3 DEF DirectThread, CreatedThreads
    <2>4. CASE u # t /\ w # t
        BY <2>1, <2>4 DEF PairsDiffer
    <2>5. CASE u = t /\ w # t
        BY <2>1, <2>2, <2>3, <2>5
    <2>6. CASE w = t /\ u # t
        BY <2>1, <2>2, <2>3, <2>6
    <2> QED BY <2>4, <2>5, <2>6
<1> QED BY <1>2, <1>3, <1>4

LEMMA OpenKeeps ==
    ASSUME ChatInv, NEW e \in Employees, NEW t \in ChatThreads, OpenThread(e, t)
    PROVE  ChatInv'
<1> USE DEF ChatInv
<1> DEFINE n == Len(Listed(t))
           row == [shownTo[t] EXCEPT ![e] = @ \cup 1..n]
<1>1. n \in Nat
    <2>1. log[t] \in Seq(Employees) /\ Len(log[t]) \in Nat
        BY DEF ChatTypeOK
    <2>2. Listed(t) \in Seq(Employees)
        BY <2>1, ChatLimits DEF Listed
    <2> QED BY <2>2
<1>2. /\ chatPage' = [chatPage EXCEPT ![e] = [thread |-> t, last |-> n]]
      /\ shownTo' = [shownTo EXCEPT ![t] = row]
      /\ UNCHANGED <<members, direct, log, marker, atWork>>
    BY DEF OpenThread
<1>3. /\ row \in [Employees -> SUBSET Nat]
      /\ row[e] = shownTo[t][e] \cup 1..n
      /\ \A d \in Employees : d # e => row[d] = shownTo[t][d]
    BY <1>1 DEF ChatTypeOK
<1> HIDE DEF n, row
<1>4. ChatTypeOK'
    BY <1>1, <1>2, <1>3 DEF ChatTypeOK, PageRow
<1>5. \A u \in ChatThreads, d \in Employees : shownTo[u][d] \subseteq shownTo'[u][d]
    BY <1>2, <1>3 DEF ChatTypeOK
<1>6. MarkedWasShown'
    <2>1. ASSUME NEW u \in ChatThreads, NEW d \in Employees
          PROVE  1..marker[u][d] \subseteq shownTo'[u][d]
        <3>1. 1..marker[u][d] \subseteq shownTo[u][d]
            BY DEF MarkedWasShown
        <3> QED BY <3>1, <1>5
    <2> QED BY <1>2, <2>1 DEF MarkedWasShown
<1>7. PageWasShown'
    <2> SUFFICES ASSUME NEW d \in Employees, chatPage'[d].last > 0
                 PROVE  /\ chatPage'[d].thread \in ChatThreads
                        /\ 1..chatPage'[d].last \subseteq shownTo'[chatPage'[d].thread][d]
        BY DEF PageWasShown
    <2>1. CASE d = e
        <3>1. chatPage'[d].thread = t /\ chatPage'[d].last = n
            BY <1>2, <2>1 DEF ChatTypeOK
        <3>2. shownTo'[t][e] = shownTo[t][e] \cup 1..n
            BY <1>2, <1>3 DEF ChatTypeOK
        <3> QED BY <2>1, <3>1, <3>2
    <2>2. CASE d # e
        <3>1. chatPage'[d] = chatPage[d]
            BY <1>2, <2>2 DEF ChatTypeOK
        <3>2. /\ chatPage[d].thread \in ChatThreads
              /\ 1..chatPage[d].last \subseteq shownTo[chatPage[d].thread][d]
            BY <3>1 DEF PageWasShown
        <3>3. shownTo[chatPage[d].thread][d] \subseteq shownTo'[chatPage[d].thread][d]
            BY <3>2, <1>5
        <3> QED BY <3>1, <3>2, <3>3
    <2> QED BY <2>1, <2>2
<1>8. LogsFitThePage' /\ PairsDiffer'
    BY <1>2 DEF LogsFitThePage, PairsDiffer
<1> QED BY <1>4, <1>6, <1>7, <1>8

LEMMA SendKeeps ==
    ASSUME ChatInv, NEW e \in Employees, NEW t \in ChatThreads, SendMessage(e, t)
    PROVE  ChatInv'
<1> USE DEF ChatInv
<1>1. /\ log' = [log EXCEPT ![t] = Append(log[t], e)]
      /\ Len(log[t]) < PageLimit
      /\ UNCHANGED <<members, direct, marker, chatPage, atWork, shownTo>>
    BY DEF SendMessage, StoreMessage
<1>2. log[t] \in Seq(Employees) /\ Len(log[t]) \in Nat
    BY DEF ChatTypeOK
<1>3. Append(log[t], e) \in Seq(Employees) /\ Len(Append(log[t], e)) = Len(log[t]) + 1
    BY <1>2
<1>4. ChatTypeOK'
    BY <1>1, <1>3 DEF ChatTypeOK
<1>5. MarkedWasShown' /\ PageWasShown' /\ PairsDiffer'
    BY <1>1 DEF MarkedWasShown, PageWasShown, PairsDiffer
<1>6. LogsFitThePage'
    <2>1. ASSUME NEW u \in ChatThreads PROVE Len(log'[u]) <= PageLimit
        <3>1. CASE u = t
            BY <1>1, <1>2, <1>3, <3>1, ChatLimits DEF ChatTypeOK
        <3>2. CASE u # t
            BY <1>1, <3>2 DEF ChatTypeOK, LogsFitThePage
        <3> QED BY <3>1, <3>2
    <2> QED BY <2>1 DEF LogsFitThePage
<1> QED BY <1>4, <1>5, <1>6

LEMMA MarkKeeps ==
    ASSUME ChatInv, NEW e \in Employees, MarkRead(e)
    PROVE  ChatInv'
<1> USE DEF ChatInv
<1> DEFINE t == chatPage[e].thread
           n == chatPage[e].last
           row == [marker[t] EXCEPT ![e] = n]
<1>1. /\ marker' = [marker EXCEPT ![t] = row]
      /\ UNCHANGED <<members, direct, log, chatPage, atWork, shownTo>>
      /\ n > 0
    BY DEF MarkRead, MarkAt
<1>2. n \in Nat /\ t \in ChatThreads /\ 1..n \subseteq shownTo[t][e]
    BY <1>1 DEF PageWasShown, ChatTypeOK, PageRow
<1>3. /\ row \in [Employees -> Nat] /\ row[e] = n
      /\ \A d \in Employees : d # e => row[d] = marker[t][d]
    BY <1>2 DEF ChatTypeOK
<1> HIDE DEF t, n, row
<1>4. ChatTypeOK'
    BY <1>1, <1>2, <1>3 DEF ChatTypeOK
<1>5. MarkedWasShown'
    <2>1. ASSUME NEW u \in ChatThreads, NEW d \in Employees
          PROVE  1..marker'[u][d] \subseteq shownTo[u][d]
        <3>1. CASE u = t /\ d = e
            BY <1>1, <1>2, <1>3, <3>1 DEF ChatTypeOK
        <3>2. CASE ~ (u = t /\ d = e)
            <4>1. marker'[u][d] = marker[u][d]
                BY <1>1, <1>2, <1>3, <3>2 DEF ChatTypeOK
            <4> QED BY <4>1 DEF MarkedWasShown
        <3> QED BY <3>1, <3>2
    <2> QED BY <1>1, <2>1 DEF MarkedWasShown
<1>6. PageWasShown' /\ LogsFitThePage' /\ PairsDiffer'
    BY <1>1 DEF PageWasShown, LogsFitThePage, PairsDiffer
<1> QED BY <1>4, <1>5, <1>6

LEMMA ChatInvariant == ChatSpec => []ChatInv
<1>1. ChatInv /\ [ChatNext]_chatVars => ChatInv'
    <2> SUFFICES ASSUME ChatInv, [ChatNext]_chatVars PROVE ChatInv'
        OBVIOUS
    <2>1. CASE UNCHANGED chatVars
        BY <2>1 DEF chatVars, ChatInv, ChatTypeOK, MarkedWasShown, PageWasShown, LogsFitThePage,
           PairsDiffer
    <2>2. CASE ChatNext
        <3> PICK e \in Employees :
                \/ MarkRead(e)
                \/ SetAtWork(e)
                \/ \E t \in ChatThreads :
                     \/ \E other \in Employees : CreateDirect(e, other, t)
                     \/ \E people \in SUBSET Employees : CreateGroup(e, people, t)
                     \/ OpenThread(e, t)
                     \/ SendMessage(e, t)
            BY <2>2 DEF ChatNext
        <3>1. CASE MarkRead(e)
            BY <3>1, MarkKeeps
        <3>2. CASE SetAtWork(e)
            BY <3>2 DEF SetAtWork, ChatInv, ChatTypeOK, MarkedWasShown, PageWasShown,
               LogsFitThePage, PairsDiffer
        <3>3. ASSUME NEW t \in ChatThreads, NEW other \in Employees, CreateDirect(e, other, t)
              PROVE  ChatInv'
            <4>1. {e, other} \in SUBSET Employees /\ TRUE \in BOOLEAN
                OBVIOUS
            <4>2. /\ StoreThread(t, {e, other}, TRUE)
                  /\ DirectThread({e, other}) = {}
                  /\ UNCHANGED <<log, marker, chatPage, atWork, shownTo>>
                BY <3>3 DEF CreateDirect
            <4> QED BY <4>1, <4>2, ThreadKeeps
        <3>4. ASSUME NEW t \in ChatThreads, NEW people \in SUBSET Employees,
                     CreateGroup(e, people, t)
              PROVE  ChatInv'
            <4>1. people \cup {e} \in SUBSET Employees /\ FALSE \in BOOLEAN
                OBVIOUS
            <4>2. /\ StoreThread(t, people \cup {e}, FALSE)
                  /\ UNCHANGED <<log, marker, chatPage, atWork, shownTo>>
                BY <3>4 DEF CreateGroup
            <4> QED BY <4>1, <4>2, ThreadKeeps
        <3>5. ASSUME NEW t \in ChatThreads, OpenThread(e, t) \/ SendMessage(e, t)
              PROVE  ChatInv'
            BY <3>5, OpenKeeps, SendKeeps
        <3> QED BY <3>1, <3>2, <3>3, <3>4, <3>5
    <2> QED BY <2>1, <2>2
<1> QED BY <1>1, InitChat, PTL DEF ChatSpec

\* The badge misses nothing: what no page has shown to an employee lies behind his
\* marker, so all of it is counted.
THEOREM TheBadgeMissesNothing == ChatSpec => []NothingReadUnseen
<1>1. ASSUME ChatInv PROVE NothingReadUnseen
    <2> SUFFICES ASSUME NEW t \in ChatThreads, NEW e \in members[t]
                 PROVE  Cardinality({n \in 1..Len(log[t]) :
                                       log[t][n] # e /\ n \notin shownTo[t][e]})
                            <= UnreadCount(t, e)
        BY DEF NothingReadUnseen
    <2> DEFINE unseen == {n \in 1..Len(log[t]) : log[t][n] # e /\ n \notin shownTo[t][e]}
               unread == {n \in marker[t][e] + 1 .. Len(log[t]) : log[t][n] # e}
    <2>1. /\ e \in Employees /\ marker[t][e] \in Nat /\ Len(log[t]) \in Nat
          /\ 1..marker[t][e] \subseteq shownTo[t][e]
        BY <1>1 DEF ChatInv, ChatTypeOK, MarkedWasShown
    <2>2. unseen \subseteq unread
        BY <2>1
    <2>3. IsFiniteSet(unread)
        <3>1. IsFiniteSet(marker[t][e] + 1 .. Len(log[t]))
            <4>1. marker[t][e] + 1 \in Int /\ Len(log[t]) \in Int
                BY <2>1
            <4> HIDE DEF unseen, unread
            <4> QED BY <4>1, FS_Interval, Zenon
        <3>2. unread \subseteq marker[t][e] + 1 .. Len(log[t])
            OBVIOUS
        <3> QED BY <3>1, <3>2, FS_Subset
    <2>4. Cardinality(unseen) <= Cardinality(unread)
        BY <2>2, <2>3, FS_Subset
    <2> QED BY <2>4 DEF UnreadCount
<1> QED BY <1>1, ChatInvariant, PTL

\* What the chat took can be read on the page of its thread.
THEOREM NothingFallsOffThePage == ChatSpec => []EveryMessageIsListed
<1>1. ASSUME ChatInv PROVE EveryMessageIsListed
    <2> SUFFICES ASSUME NEW t \in ChatThreads, NEW n \in 1..MaxLog, n <= Len(log[t])
                 PROVE  n <= Len(Listed(t))
        BY DEF EveryMessageIsListed
    <2>1. log[t] \in Seq(Employees) /\ Len(log[t]) \in Nat /\ Len(log[t]) <= PageLimit
        BY <1>1 DEF ChatInv, ChatTypeOK, LogsFitThePage
    <2>2. Len(Listed(t)) = Len(log[t])
        BY <2>1, ChatLimits DEF Listed
    <2> QED BY <2>2
<1> QED BY <1>1, ChatInvariant, PTL

\* Two employees share one direct thread, whoever of them asks, however often.
THEOREM APairHasOneThread == ChatSpec => []OnePairOneThread
<1>1. ASSUME ChatInv PROVE OnePairOneThread
    <2> SUFFICES ASSUME NEW pair \in SUBSET Employees
                 PROVE  Cardinality(DirectThread(pair)) <= 1
        BY DEF OnePairOneThread
    <2>1. CASE DirectThread(pair) = {}
        BY <2>1, FS_EmptySet
    <2>2. CASE DirectThread(pair) # {}
        <3>1. PICK t : t \in DirectThread(pair)
            BY <2>2
        <3>2. \A u \in DirectThread(pair) : u = t
            BY <1>1, <3>1 DEF DirectThread, CreatedThreads, ChatInv, PairsDiffer
        <3>3. DirectThread(pair) = {t}
            BY <3>1, <3>2
        <3> QED BY <3>3, FS_Singleton
    <2> QED BY <2>1, <2>2
<1> QED BY <1>1, ChatInvariant, PTL

-----------------------------------------------------------------------------
(* Threads, messages, markers and pages fit together. *)

LEMMA ThreadsFit ==
    ASSUME ChatTypeOK, RowsFit, NEW t \in ChatThreads, NEW people \in SUBSET Employees,
           NEW isDirect \in BOOLEAN, StoreThread(t, people, isDirect),
           isDirect => Cardinality(people) = 2,
           UNCHANGED <<log, marker, chatPage, atWork, shownTo>>
    PROVE  RowsFit'
<1>1. /\ members[t] = {}
      /\ \A u \in ChatThreads :
           /\ members'[u] = IF u = t THEN people ELSE members[u]
           /\ direct'[u] = IF u = t THEN isDirect ELSE direct[u]
    BY DEF StoreThread, ChatTypeOK
<1>2. ASSUME NEW u \in ChatThreads
      PROVE  /\ direct'[u] => Cardinality(members'[u]) = 2
             /\ \A n \in 1..Len(log'[u]) : log'[u][n] \in members'[u]
             /\ \A e \in Employees : marker'[u][e] <= Len(log'[u])
    <2>1. CASE u = t
        BY <1>1, <2>1 DEF RowsFit
    <2>2. CASE u # t
        BY <1>1, <2>2 DEF RowsFit
    <2> QED BY <2>1, <2>2
<1>3. ASSUME NEW e \in Employees, chatPage'[e].thread # "none"
      PROVE  /\ e \in members'[chatPage'[e].thread]
             /\ chatPage'[e].last <= Len(log'[chatPage'[e].thread])
    <2>1. /\ e \in members[chatPage[e].thread]
          /\ chatPage[e].last <= Len(log[chatPage[e].thread])
        BY <1>3 DEF RowsFit
    <2>2. chatPage[e].thread \in ChatThreads
        BY <1>3 DEF ChatTypeOK, PageRow
    <2> QED BY <1>1, <2>1, <2>2
<1> QED BY <1>2, <1>3 DEF RowsFit

LEMMA PagesFit ==
    ASSUME ChatTypeOK, RowsFit, LogsFitThePage, NEW e \in Employees, NEW t \in ChatThreads,
           OpenThread(e, t)
    PROVE  RowsFit'
<1>1. /\ chatPage' = [chatPage EXCEPT ![e] = [thread |-> t, last |-> Len(Listed(t))]]
      /\ e \in members[t]
      /\ UNCHANGED <<members, direct, log, marker>>
    BY DEF OpenThread
<1>2. Len(Listed(t)) = Len(log[t]) /\ Len(log[t]) \in Nat
    <2>1. log[t] \in Seq(Employees) /\ Len(log[t]) \in Nat /\ Len(log[t]) <= PageLimit
        BY DEF ChatTypeOK, LogsFitThePage
    <2> QED BY <2>1, ChatLimits DEF Listed
<1>3. ASSUME NEW d \in Employees, chatPage'[d].thread # "none"
      PROVE  /\ d \in members[chatPage'[d].thread]
             /\ chatPage'[d].last <= Len(log[chatPage'[d].thread])
    <2>1. CASE d = e
        <3>1. chatPage'[d].thread = t /\ chatPage'[d].last = Len(Listed(t))
            BY <1>1, <2>1 DEF ChatTypeOK
        <3> QED BY <1>1, <1>2, <2>1, <3>1
    <2>2. CASE d # e
        <3>1. chatPage'[d] = chatPage[d]
            BY <1>1, <2>2 DEF ChatTypeOK
        <3> QED BY <1>3, <3>1 DEF RowsFit
    <2> QED BY <2>1, <2>2
<1> QED BY <1>1, <1>3 DEF RowsFit

LEMMA MessagesFit ==
    ASSUME ChatTypeOK, RowsFit, NEW e \in Employees, NEW t \in ChatThreads,
           SendMessage(e, t)
    PROVE  RowsFit'
<1>1. /\ log' = [log EXCEPT ![t] = Append(log[t], e)]
      /\ e \in members[t]
      /\ UNCHANGED <<members, direct, marker, chatPage>>
    BY DEF SendMessage, StoreMessage
<1>2. \A u \in ChatThreads : log[u] \in Seq(Employees) /\ Len(log[u]) \in Nat
    BY DEF ChatTypeOK
<1>3. /\ log'[t] = Append(log[t], e)
      /\ \A u \in ChatThreads : u # t => log'[u] = log[u]
    BY <1>1 DEF ChatTypeOK
<1>4. /\ Len(log'[t]) = Len(log[t]) + 1
      /\ log'[t][Len(log[t]) + 1] = e
      /\ \A n \in 1..Len(log[t]) : log'[t][n] = log[t][n]
    BY <1>2, <1>3
<1>5. \A u \in ChatThreads : Len(log[u]) <= Len(log'[u]) /\ Len(log'[u]) \in Nat
    BY <1>2, <1>3, <1>4
<1>6. ASSUME NEW u \in ChatThreads, NEW n \in 1..Len(log'[u])
      PROVE  log'[u][n] \in members[u]
    <2>1. CASE u # t
        BY <1>3, <1>6, <2>1 DEF RowsFit
    <2>2. CASE u = t /\ n = Len(log[t]) + 1
        BY <1>1, <1>4, <2>2
    <2>3. CASE u = t /\ n \in 1..Len(log[t])
        BY <1>4, <2>3 DEF RowsFit
    <2> QED BY <1>2, <1>4, <1>6, <2>1, <2>2, <2>3
<1>7. ASSUME NEW u \in ChatThreads, NEW d \in Employees
      PROVE  marker[u][d] <= Len(log'[u])
    <2>1. marker[u][d] \in Nat /\ marker[u][d] <= Len(log[u])
        BY DEF ChatTypeOK, RowsFit
    <2> QED BY <1>2, <1>5, <2>1
<1>8. ASSUME NEW d \in Employees, chatPage[d].thread # "none"
      PROVE  chatPage[d].last <= Len(log'[chatPage[d].thread])
    <2>1. /\ chatPage[d].thread \in ChatThreads /\ chatPage[d].last \in Nat
          /\ chatPage[d].last <= Len(log[chatPage[d].thread])
        BY <1>8 DEF ChatTypeOK, PageRow, RowsFit
    <2> QED BY <1>2, <1>5, <2>1
<1> QED BY <1>1, <1>6, <1>7, <1>8 DEF RowsFit

LEMMA MarkersFit ==
    ASSUME ChatTypeOK, RowsFit, PageWasShown, NEW e \in Employees, MarkRead(e)
    PROVE  RowsFit'
<1> DEFINE t == chatPage[e].thread
           n == chatPage[e].last
           row == [marker[t] EXCEPT ![e] = n]
<1>1. /\ marker' = [marker EXCEPT ![t] = row]
      /\ UNCHANGED <<members, direct, log, chatPage>>
      /\ n > 0
    BY DEF MarkRead, MarkAt
<1>2. t \in ChatThreads /\ (t = "none" \/ n <= Len(log[t]))
    BY <1>1 DEF PageWasShown, RowsFit
<1>3. n <= Len(log[t])
    BY <1>2, NoThreadAssumption
<1>4. /\ row[e] = n
      /\ \A d \in Employees : d # e => row[d] = marker[t][d]
    BY <1>2 DEF ChatTypeOK
<1> HIDE DEF t, n, row
<1>5. ASSUME NEW u \in ChatThreads, NEW d \in Employees
      PROVE  marker'[u][d] <= Len(log[u])
    <2>1. CASE u = t /\ d = e
        BY <1>1, <1>3, <1>4, <2>1 DEF ChatTypeOK
    <2>2. CASE u = t /\ d # e
        BY <1>1, <1>4, <2>2 DEF ChatTypeOK, RowsFit
    <2>3. CASE u # t
        BY <1>1, <2>3 DEF ChatTypeOK, RowsFit
    <2> QED BY <2>1, <2>2, <2>3
<1> QED BY <1>1, <1>5 DEF RowsFit

LEMMA ChatKeepsRowsFit ==
    ASSUME ChatInv, RowsFit, [ChatNext]_chatVars
    PROVE  RowsFit'
<1>1. CASE UNCHANGED chatVars
    BY <1>1 DEF chatVars, RowsFit
<1>2. CASE ChatNext
    <2> PICK e \in Employees :
            \/ MarkRead(e)
            \/ SetAtWork(e)
            \/ \E t \in ChatThreads :
                 \/ \E other \in Employees : CreateDirect(e, other, t)
                 \/ \E people \in SUBSET Employees : CreateGroup(e, people, t)
                 \/ OpenThread(e, t)
                 \/ SendMessage(e, t)
        BY <1>2 DEF ChatNext
    <2>1. CASE MarkRead(e)
        BY <2>1, MarkersFit DEF ChatInv
    <2>2. CASE SetAtWork(e)
        BY <2>2 DEF SetAtWork, RowsFit
    <2>3. ASSUME NEW t \in ChatThreads, NEW other \in Employees, CreateDirect(e, other, t)
          PROVE  RowsFit'
        <3>1. Cardinality({e, other}) = 2
            <4>1. e # other /\ e \notin {other} /\ {other} \cup {e} = {e, other}
                BY <2>3 DEF CreateDirect
            <4>2. IsFiniteSet({other}) /\ Cardinality({other}) = 1
                BY FS_Singleton
            <4> QED BY <4>1, <4>2, FS_AddElement
        <3>2. /\ StoreThread(t, {e, other}, TRUE)
              /\ UNCHANGED <<log, marker, chatPage, atWork, shownTo>>
            BY <2>3 DEF CreateDirect
        <3>3. {e, other} \in SUBSET Employees /\ TRUE \in BOOLEAN
            OBVIOUS
        <3> QED BY <3>1, <3>2, <3>3, ThreadsFit DEF ChatInv
    <2>4. ASSUME NEW t \in ChatThreads, NEW people \in SUBSET Employees,
                 CreateGroup(e, people, t)
          PROVE  RowsFit'
        <3>1. people \cup {e} \in SUBSET Employees /\ FALSE \in BOOLEAN
            OBVIOUS
        <3>2. /\ StoreThread(t, people \cup {e}, FALSE)
              /\ UNCHANGED <<log, marker, chatPage, atWork, shownTo>>
            BY <2>4 DEF CreateGroup
        <3> QED BY <3>1, <3>2, ThreadsFit DEF ChatInv
    <2>5. ASSUME NEW t \in ChatThreads, OpenThread(e, t) \/ SendMessage(e, t)
          PROVE  RowsFit'
        BY <2>5, PagesFit, MessagesFit DEF ChatInv
    <2> QED BY <2>1, <2>2, <2>3, <2>4, <2>5
<1> QED BY <1>1, <1>2

\* No message is missed: the direct thread of a pair is one, its messages are all on
\* its page, what no page has shown is on the badge, and threads, messages, markers
\* and pages fit together.
THEOREM NoMessageGetsLost == ChatSpec => []NoMessageIsMissed
<1>1. ChatInit => RowsFit
    BY DEF ChatInit, NoChatPage, RowsFit
<1>2. ChatInv /\ RowsFit /\ [ChatNext]_chatVars => RowsFit'
    BY ChatKeepsRowsFit
<1>3. ChatSpec => []RowsFit
    BY <1>1, <1>2, ChatInvariant, PTL DEF ChatSpec
<1>4. ChatInv => ChatTypeOK
    BY DEF ChatInv
<1>5. ChatTypeOK /\ RowsFit /\ OnePairOneThread /\ EveryMessageIsListed /\ NothingReadUnseen
        => NoMessageIsMissed
    BY DEF NoMessageIsMissed
<1> QED BY <1>3, <1>4, <1>5, ChatInvariant, TheBadgeMissesNothing, NothingFallsOffThePage,
           APairHasOneThread, PTL

(****************************************************************************)
(* The catalog, for any number of clerks, prices and writes.                *)
(****************************************************************************)

DishRow == [price : Prices \cup {0}, active : BOOLEAN, updatedAt : Nat, edition : Nat]
DishPageRow == [at : {"none", "open", "read"}, updatedAt : Nat, edition : Nat, active : BOOLEAN]
PriceRow == [old : Prices \cup {0}, new : Prices]

CatalogTypes ==
    /\ dish \in DishRow
    /\ prices \in Seq(PriceRow)
    /\ dishPage \in [Clerks -> DishPageRow]
    /\ onOffer \in BOOLEAN

\* A page that has the row's stamp shows the texts and, once it has read, the status of
\* the row; no page has a stamp of the future.
PagesAreHonest ==
    \A c \in Clerks :
        /\ dishPage[c].updatedAt <= dish.updatedAt
        /\ dishPage[c].at # "none" /\ Current(c) => dishPage[c].edition = dish.edition
        /\ dishPage[c].at = "read" /\ Current(c) => dishPage[c].active = dish.active

NothingBeforeTheDish == dish = NoDish => prices = <<>>

CatalogInv ==
    CatalogTypes /\ PagesAreHonest /\ NothingBeforeTheDish /\ StatusIsAsAsked /\ PricesAreAChain

LEMMA InitCatalog == CatalogInit => CatalogInv
<1> SUFFICES ASSUME CatalogInit PROVE CatalogInv
    OBVIOUS
<1>0. /\ dish = [price |-> 0, active |-> FALSE, updatedAt |-> 0, edition |-> 0]
      /\ prices = <<>> /\ onOffer = FALSE
      /\ dishPage = [c \in Clerks |-> NoDishPage]
    BY DEF CatalogInit, NoDish
<1>1. CatalogTypes
    <2>1. dish \in DishRow
        BY <1>0 DEF DishRow
    <2>2. NoDishPage \in DishPageRow
        BY DEF NoDishPage, DishPageRow
    <2>3. prices \in Seq(PriceRow)
        BY <1>0
    <2> QED BY <1>0, <2>1, <2>2, <2>3 DEF CatalogTypes
<1>2. PagesAreHonest
    <2>1. \A c \in Clerks : dishPage[c].at = "none" /\ dishPage[c].updatedAt = 0
        BY <1>0 DEF NoDishPage
    <2>2. dish.updatedAt = 0
        BY <1>0
    <2>3. ASSUME NEW c \in Clerks
          PROVE  /\ dishPage[c].updatedAt <= dish.updatedAt
                 /\ ~ (dishPage[c].at # "none") /\ ~ (dishPage[c].at = "read")
        BY <2>1, <2>2
    <2> QED BY <2>3, Zenon DEF PagesAreHonest
<1>3. NothingBeforeTheDish /\ StatusIsAsAsked
    BY <1>0 DEF NothingBeforeTheDish, StatusIsAsAsked
<1>4. PricesAreAChain
    BY <1>0 DEF PricesAreAChain
<1> QED BY <1>1, <1>2, <1>3, <1>4 DEF CatalogInv

\* An entry that starts at the price in force continues the chain.
LEMMA PricedContinues ==
    ASSUME CatalogInv, NEW price \in Prices
    PROVE  /\ Priced(price) \in Seq(PriceRow)
           /\ \A n \in 1..Len(Priced(price)) - 1 : Priced(price)[n].new = Priced(price)[n + 1].old
           /\ Priced(price) # <<>> => Priced(price)[Len(Priced(price))].new = price
<1> DEFINE entry == [old |-> dish.price, new |-> price]
<1>0. prices \in Seq(PriceRow) /\ Len(prices) \in Nat
    BY DEF CatalogInv, CatalogTypes
<1>1. CASE price = dish.price
    BY <1>0, <1>1 DEF Priced, CatalogInv, PricesAreAChain
<1>2. CASE price # dish.price
    <2>1. Priced(price) = Append(prices, entry)
        BY <1>2 DEF Priced
    <2>2. entry \in PriceRow
        BY DEF PriceRow, CatalogInv, CatalogTypes, DishRow
    <2>3. /\ Append(prices, entry) \in Seq(PriceRow)
          /\ Len(Append(prices, entry)) = Len(prices) + 1
          /\ Append(prices, entry)[Len(prices) + 1] = entry
          /\ \A n \in 1..Len(prices) : Append(prices, entry)[n] = prices[n]
        BY <1>0, <2>2
    <2>4. \A n \in 1..Len(prices) :
             Append(prices, entry)[n].new = Append(prices, entry)[n + 1].old
        <3> SUFFICES ASSUME NEW n \in 1..Len(prices)
                     PROVE  Append(prices, entry)[n].new = Append(prices, entry)[n + 1].old
            OBVIOUS
        <3>1. CASE n = Len(prices)
            <4>1. prices # <<>> /\ prices[n].new = dish.price
                BY <1>0, <3>1 DEF CatalogInv, PricesAreAChain
            <4> QED BY <4>1, <3>1, <2>3
        <3>2. CASE n # Len(prices)
            <4>1. n \in 1..Len(prices) - 1 /\ n + 1 \in 1..Len(prices)
                BY <1>0, <3>2
            <4> QED BY <4>1, <2>3 DEF CatalogInv, PricesAreAChain
        <3> QED BY <3>1, <3>2
    <2> QED BY <1>0, <2>1, <2>3, <2>4
<1> QED BY <1>1, <1>2

\* After a write every page that stays open is out of date.
LEMMA OthersStay ==
    ASSUME CatalogTypes, PagesAreHonest, NEW c \in Clerks, Leave(c),
           dish'.updatedAt = dish.updatedAt + 1
    PROVE  PagesAreHonest'
<1>1. dish.updatedAt \in Nat /\ \A d \in Clerks : dishPage[d].updatedAt \in Nat
    BY DEF CatalogTypes, DishRow, DishPageRow
<1>2. ASSUME NEW d \in Clerks
      PROVE  /\ dishPage'[d].updatedAt <= dish'.updatedAt
             /\ dishPage'[d].at # "none" => dishPage'[d].updatedAt # dish'.updatedAt
    <2>1. CASE d = c
        <3>1. dishPage'[d] = NoDishPage
            BY <2>1 DEF Leave, CatalogTypes
        <3> QED BY <1>1, <3>1 DEF NoDishPage
    <2>2. CASE d # c
        <3>1. dishPage'[d] = dishPage[d]
            BY <2>2 DEF Leave, CatalogTypes
        <3>2. dishPage[d].updatedAt <= dish.updatedAt
            BY DEF PagesAreHonest
        <3> QED BY <1>1, <3>1, <3>2
    <2> QED BY <2>1, <2>2
<1> QED BY <1>2 DEF PagesAreHonest, Current

LEMMA NextCatalog == CatalogInv /\ [CatalogNext]_catalogVars => CatalogInv'
<1> SUFFICES ASSUME CatalogInv, [CatalogNext]_catalogVars PROVE CatalogInv'
    OBVIOUS
<1> USE DEF CatalogInv
<1>1. ASSUME NEW price \in Prices, CreateDish(price) PROVE CatalogInv'
    <2> USE <1>1 DEF CreateDish, NoDish
    <2>1. CatalogTypes'
        BY DEF CatalogTypes, DishRow
    <2>2. PagesAreHonest'
        <3>1. dish.updatedAt = 0 /\ dish'.updatedAt = 1 /\ dishPage' = dishPage
            OBVIOUS
        <3>2. \A d \in Clerks : dishPage[d].updatedAt = 0
            <4>1. ASSUME NEW d \in Clerks PROVE dishPage[d].updatedAt \in Nat
                BY <4>1 DEF CatalogTypes, DishPageRow
            <4>2. ASSUME NEW d \in Clerks PROVE dishPage[d].updatedAt <= dish.updatedAt
                BY <4>2 DEF PagesAreHonest
            <4> HIDE DEF CatalogInv
            <4> QED BY <3>1, <4>1, <4>2
        <3> HIDE <1>1 DEF CreateDish, NoDish
        <3> QED BY <3>1, <3>2 DEF PagesAreHonest, Current
    <2>3. NothingBeforeTheDish' /\ StatusIsAsAsked' /\ PricesAreAChain'
        BY DEF NothingBeforeTheDish, StatusIsAsAsked, PricesAreAChain
    <2> QED BY <2>1, <2>2, <2>3
<1>2. ASSUME NEW c \in Clerks, OpenDish(c) PROVE CatalogInv'
    <2> USE <1>2 DEF OpenDish
    <2>1. CatalogTypes'
        BY DEF CatalogTypes, DishRow, DishPageRow, NoDishPage
    <2>2. PagesAreHonest'
        BY DEF PagesAreHonest, Current, CatalogTypes, DishRow, DishPageRow, NoDishPage
    <2>3. NothingBeforeTheDish' /\ StatusIsAsAsked' /\ PricesAreAChain'
        BY DEF NothingBeforeTheDish, StatusIsAsAsked, PricesAreAChain
    <2> QED BY <2>1, <2>2, <2>3
<1>3. ASSUME NEW c \in Clerks, ReadDish(c) PROVE CatalogInv'
    <2> USE <1>3 DEF ReadDish
    <2>1. CatalogTypes'
        BY DEF CatalogTypes, DishRow, DishPageRow
    <2>2. PagesAreHonest'
        BY DEF PagesAreHonest, Current, CatalogTypes, DishRow, DishPageRow
    <2>3. NothingBeforeTheDish' /\ StatusIsAsAsked' /\ PricesAreAChain'
        BY DEF NothingBeforeTheDish, StatusIsAsAsked, PricesAreAChain
    <2> QED BY <2>1, <2>2, <2>3
<1>4. ASSUME NEW c \in Clerks, NEW price \in Prices, UpdateDish(c, price) PROVE CatalogInv'
    <2>0. Leave(c) /\ UNCHANGED onOffer /\ dishPage[c].at = "read"
        BY <1>4 DEF UpdateDish
    <2>1. CASE Current(c)
        <3> USE <2>0, <2>1
        <3>1. WriteDish(c, price) /\ prices' = Priced(price)
            BY <1>4 DEF UpdateDish
        <3>2. CatalogTypes'
            BY <3>1, PricedContinues DEF CatalogTypes, WriteDish, DishRow, StatusToSave, DishPageRow,
               NextStamp, Leave, NoDishPage
        <3>3. PagesAreHonest'
            <4>1. dish'.updatedAt = dish.updatedAt + 1
                BY <3>1 DEF WriteDish, NextStamp
            <4> QED BY <4>1, OthersStay DEF CatalogInv
        <3>4. NothingBeforeTheDish' /\ StatusIsAsAsked'
            BY <3>1 DEF NothingBeforeTheDish, StatusIsAsAsked, WriteDish, NoDish, NextStamp,
               CatalogTypes, DishRow, PagesAreHonest, StatusToSave
        <3>5. PricesAreAChain'
            <4>1. dish'.price = price
                BY <3>1 DEF WriteDish
            <4> QED BY <3>1, <4>1, PricedContinues DEF PricesAreAChain
        <3> QED BY <3>2, <3>3, <3>4, <3>5
    <2>2. CASE ~ Current(c)
        <3>1. UNCHANGED <<dish, prices>>
            BY <1>4, <2>2 DEF UpdateDish
        <3> USE <2>0, <3>1
        <3>2. CatalogTypes'
            BY DEF CatalogTypes, DishRow, DishPageRow, Leave, NoDishPage
        <3>3. PagesAreHonest'
            BY DEF PagesAreHonest, Current, CatalogTypes, DishRow, DishPageRow, Leave, NoDishPage
        <3>4. NothingBeforeTheDish' /\ StatusIsAsAsked' /\ PricesAreAChain'
            BY DEF NothingBeforeTheDish, StatusIsAsAsked, PricesAreAChain
        <3> QED BY <3>2, <3>3, <3>4
    <2> QED BY <2>1, <2>2
<1>5. ASSUME NEW c \in Clerks, NEW active \in BOOLEAN, SetActive(c, active) PROVE CatalogInv'
    <2>0. Leave(c) /\ UNCHANGED prices
        BY <1>5 DEF SetActive
    <2>1. CASE Current(c) /\ dish.active # active
        <3>1. /\ dish' = [dish EXCEPT !.active = active, !.updatedAt = NextStamp]
              /\ onOffer' = active
            BY <1>5, <2>1 DEF SetActive
        <3> USE <2>0, <3>1
        <3>5. /\ dish \in DishRow /\ dish'.price = dish.price /\ dish'.active = active
              /\ dish'.updatedAt = dish.updatedAt + 1 /\ dish'.edition = dish.edition
              /\ dish' \in DishRow
            <4>1. dish \in DishRow
                BY DEF CatalogTypes
            <4> HIDE DEF CatalogInv
            <4>2. /\ dish.price \in Prices \cup {0} /\ dish.active \in BOOLEAN
                  /\ dish.updatedAt \in Nat /\ dish.edition \in Nat
                  /\ dish = [price |-> dish.price, active |-> dish.active,
                             updatedAt |-> dish.updatedAt, edition |-> dish.edition]
                BY <4>1 DEF DishRow
            <4>3. dish' = [price |-> dish.price, active |-> active,
                           updatedAt |-> dish.updatedAt + 1, edition |-> dish.edition]
                BY <3>1, <4>2 DEF NextStamp
            <4> HIDE <2>0, <3>1
            <4> QED BY <4>1, <4>2, <4>3 DEF DishRow
        <3>6. NoDishPage \in DishPageRow
            BY DEF NoDishPage, DishPageRow
        <3>2. CatalogTypes'
            BY <3>5, <3>6 DEF CatalogTypes, Leave
        <3>3. PagesAreHonest'
            BY <3>5, OthersStay DEF CatalogInv
        <3>4. NothingBeforeTheDish' /\ StatusIsAsAsked' /\ PricesAreAChain'
            <4>1. dish'.updatedAt # 0
                BY <3>5 DEF DishRow
            <4> QED BY <4>1, <3>5 DEF NothingBeforeTheDish, StatusIsAsAsked, PricesAreAChain, NoDish
        <3> QED BY <3>2, <3>3, <3>4
    <2>2. CASE ~ (Current(c) /\ dish.active # active)
        <3>1. UNCHANGED <<dish, onOffer>>
            BY <1>5, <2>2 DEF SetActive
        <3> USE <2>0, <3>1
        <3>2. CatalogTypes'
            BY DEF CatalogTypes, DishRow, DishPageRow, Leave, NoDishPage
        <3>3. PagesAreHonest'
            BY DEF PagesAreHonest, Current, CatalogTypes, DishRow, DishPageRow, Leave, NoDishPage
        <3>4. NothingBeforeTheDish' /\ StatusIsAsAsked' /\ PricesAreAChain'
            BY DEF NothingBeforeTheDish, StatusIsAsAsked, PricesAreAChain
        <3> QED BY <3>2, <3>3, <3>4
    <2> QED BY <2>1, <2>2
<1>6. CASE UNCHANGED catalogVars
    BY <1>6 DEF catalogVars, CatalogTypes, PagesAreHonest, Current, NothingBeforeTheDish,
       StatusIsAsAsked, PricesAreAChain
<1> QED BY <1>1, <1>2, <1>3, <1>4, <1>5, <1>6 DEF CatalogNext

\* What a save replaces is what its page showed.
LEMMA SavesReplaceWhatWasSeen ==
    CatalogInv /\ [CatalogNext]_catalogVars =>
        (dish # NoDish /\ dish'.edition # dish.edition =>
            \E c \in Clerks : /\ dishPage[c].edition = dish.edition
                              /\ dishPage'[c] = NoDishPage /\ dishPage[c] # NoDishPage)
<1> SUFFICES ASSUME CatalogInv, [CatalogNext]_catalogVars,
                    dish # NoDish, dish'.edition # dish.edition
             PROVE  \E c \in Clerks :
                      /\ dishPage[c].edition = dish.edition
                      /\ dishPage'[c] = NoDishPage /\ dishPage[c] # NoDishPage
    OBVIOUS
<1>1. \A c \in Clerks, active \in BOOLEAN : ~ SetActive(c, active)
    BY DEF SetActive, CatalogInv, CatalogTypes, DishRow
<1>2. \A c \in Clerks : ~ OpenDish(c) /\ ~ ReadDish(c)
    BY DEF OpenDish, ReadDish
<1>3. \A price \in Prices : ~ CreateDish(price)
    BY DEF CreateDish
<1>4. PICK c \in Clerks, price \in Prices : UpdateDish(c, price)
    BY <1>1, <1>2, <1>3 DEF CatalogNext, catalogVars
<1>5. Current(c) /\ dishPage[c].at = "read" /\ Leave(c)
    BY <1>4 DEF UpdateDish
<1>6. dishPage[c].edition = dish.edition
    BY <1>5 DEF CatalogInv, PagesAreHonest
<1>7. dishPage'[c] = NoDishPage /\ dishPage[c] # NoDishPage
    BY <1>5 DEF Leave, NoDishPage, CatalogInv, CatalogTypes, DishPageRow
<1> QED BY <1>6, <1>7

LEMMA CatalogInvariant == CatalogSpec => []CatalogInv
    BY InitCatalog, NextCatalog, PTL DEF CatalogSpec

\* A dish is on offer exactly when the last status command said so.
THEOREM NoSaveSwitchesADish == CatalogSpec => []StatusIsAsAsked
<1>1. CatalogInv => StatusIsAsAsked
    BY DEF CatalogInv
<1> QED BY <1>1, CatalogInvariant, PTL

\* The entries of the price history lead, one after the other, to the price in force.
THEOREM PriceHistoryIsAChain == CatalogSpec => []PricesAreAChain
<1>1. CatalogInv => PricesAreAChain
    BY DEF CatalogInv
<1> QED BY <1>1, CatalogInvariant, PTL

\* Nobody replaces texts that his page did not show him.
THEOREM NoUnseenTextIsReplaced == CatalogSpec => NobodyOverwritesUnseen
<1>1. CatalogInv /\ [CatalogNext]_catalogVars =>
        [dish # NoDish /\ dish'.edition # dish.edition =>
            \E c \in Clerks : /\ dishPage[c].edition = dish.edition
                              /\ dishPage'[c] = NoDishPage /\ dishPage[c] # NoDishPage]_catalogVars
    BY SavesReplaceWhatWasSeen
<1> QED BY <1>1, CatalogInvariant, PTL DEF CatalogSpec, NobodyOverwritesUnseen

\* A save changes what its page showed and nothing else.
THEOREM SavesDoAsAsked == CatalogSpec => SavesAreAsAsked
<1>1. StatusIsAsAsked /\ PricesAreAChain => (StatusIsAsAsked /\ PricesAreAChain)
    OBVIOUS
<1> QED BY <1>1, NoSaveSwitchesADish, PriceHistoryIsAChain, NoUnseenTextIsReplaced, PTL
           DEF SavesAreAsAsked

(****************************************************************************)
(* The list of pickups, for any period of freshness and any number of ticks *)
(* and days.                                                                *)
(****************************************************************************)

\* What is kept is the last good document, and the reader's copy was it when taken.
NothingIsLost ==
    /\ kept = lastGood
    /\ reader.copy = reader.good

\* No document that passed the check of its day is of a later day than today.
NothingFromTomorrow ==
    /\ round.step = "checked" => round.day <= today
    /\ kept.day <= today
    /\ reader.good.day <= today

PickupInv == PickupTypeOK /\ NothingIsLost /\ NothingFromTomorrow /\ BlindOnlyWhenSilent

LEMMA InitPickup == PickupInit => PickupInv
<1> SUFFICES ASSUME PickupInit PROVE PickupInv
    OBVIOUS
<1> USE PickupBounds DEF PickupInit, NoDocument, Resting, NotReading
<1>1. NoDocument \in PickupDocument
    BY DEF PickupDocument
<1>2. PickupTypeOK
    BY <1>1 DEF PickupTypeOK
<1>3. NothingIsLost
    BY DEF NothingIsLost
<1>4. today \in Nat
    OBVIOUS
<1>5. NothingFromTomorrow
    BY <1>4 DEF NothingFromTomorrow
<1>6. BlindOnlyWhenSilent
    BY DEF BlindOnlyWhenSilent
<1> QED BY <1>2, <1>3, <1>5, <1>6 DEF PickupInv

\* The clocks go forward only: who was blind with reason stays so.
LEMMA PassKeeps == PickupInv /\ Pass => PickupInv'
<1> SUFFICES ASSUME PickupInv, Pass PROVE PickupInv'
    OBVIOUS
<1>1. /\ UNCHANGED <<round, kept, reader, lastGood>>
      /\ ticks \in Nat /\ today \in Nat /\ ticks' \in Nat /\ today' \in Nat
      /\ ticks <= ticks' /\ today <= today'
    BY PickupBounds DEF PickupInv, PickupTypeOK, Pass
<1>2. PickupTypeOK' /\ NothingIsLost'
    BY <1>1 DEF PickupInv, PickupTypeOK, NothingIsLost
<1>3. /\ reader.good.day \in Int /\ reader.good.at \in Int /\ kept.day \in Int
      /\ round.day \in Int
    BY DEF PickupInv, PickupTypeOK, PickupDocument
<1>4. NothingFromTomorrow'
    BY <1>1, <1>3 DEF PickupInv, NothingFromTomorrow
<1>5. BlindOnlyWhenSilent'
    <2> SUFFICES ASSUME reader.step = "blind"
                 PROVE  reader.good.day # today' \/ ticks' - reader.good.at > Fresh
        BY <1>1 DEF BlindOnlyWhenSilent
    <2>1. reader.good.day <= today
        BY DEF PickupInv, NothingFromTomorrow
    <2>2. CASE reader.good.day # today
        BY <1>1, <1>3, <2>1, <2>2
    <2>3. CASE ticks - reader.good.at > Fresh
        BY <1>1, <1>3, <2>3, PickupBounds
    <2> QED BY <2>2, <2>3 DEF PickupInv, BlindOnlyWhenSilent
<1> QED BY <1>2, <1>4, <1>5 DEF PickupInv

LEMMA RefresherKeeps ==
    ASSUME PickupInv, FetchFails \/ CheckDay \/ Store \/ \E day \in PickupDays : Fetch(day)
    PROVE  PickupInv'
<1>1. UNCHANGED <<ticks, today, reader>>
    BY DEF FetchFails, CheckDay, Store, Fetch
<1>2. BlindOnlyWhenSilent'
    BY <1>1 DEF PickupInv, BlindOnlyWhenSilent
<1> USE DEF PickupInv, Resting
<1>3. CASE \E day \in PickupDays : Fetch(day)
    BY <1>1, <1>2, <1>3, PickupBounds DEF Fetch, PickupTypeOK, NothingIsLost, NothingFromTomorrow
<1>4. CASE FetchFails
    BY <1>1, <1>2, <1>4 DEF FetchFails, KeepKept, PickupTypeOK, NothingIsLost, NothingFromTomorrow
<1>5. CASE CheckDay
    <2>1. UNCHANGED <<kept, lastGood>>
        BY <1>5 DEF CheckDay, KeepKept
    <2>2. \/ round' = [round EXCEPT !.step = "checked"] /\ round.day = today
          \/ round' = [step |-> "rest", day |-> -1]
        BY <1>5 DEF CheckDay
    <2>3. PickupTypeOK'
        BY <1>1, <2>1, <2>2 DEF PickupTypeOK
    <2>4. NothingIsLost'
        BY <1>1, <2>1 DEF NothingIsLost
    <2>5. round'.step = "checked" => round'.day <= today
        BY <2>2 DEF PickupTypeOK
    <2> QED BY <1>1, <1>2, <2>1, <2>3, <2>4, <2>5 DEF NothingFromTomorrow
<1>6. CASE Store
    <2>1. /\ kept' = [day |-> round.day, at |-> ticks] /\ lastGood' = kept'
          /\ round' = [step |-> "rest", day |-> -1] /\ round.day <= today
        BY <1>6 DEF Store, NothingFromTomorrow
    <2>2. PickupTypeOK'
        BY <1>1, <2>1 DEF PickupTypeOK, PickupDocument
    <2>3. NothingIsLost'
        BY <1>1, <2>1 DEF NothingIsLost
    <2>4. NothingFromTomorrow'
        BY <1>1, <2>1 DEF NothingFromTomorrow
    <2> QED BY <1>2, <2>2, <2>3, <2>4
<1> QED BY <1>3, <1>4, <1>5, <1>6

LEMMA ReaderKeeps ==
    ASSUME PickupInv, (reader = NotReading /\ TakeCopy) \/ CheckAge \/ CheckToday \/ Forget
    PROVE  PickupInv'
<1>1. UNCHANGED <<ticks, today, round, kept, lastGood>>
    BY DEF TakeCopy, CheckAge, CheckToday, Forget, ReaderGoes
<1>2. NoDocument \in PickupDocument
    BY DEF NoDocument, PickupDocument
<1> USE DEF PickupInv
<1>3. CASE TakeCopy
    <2>1. reader' = [step |-> IF kept = NoDocument THEN "blind" ELSE "copied",
                     copy |-> kept, good |-> kept]
        BY <1>3 DEF TakeCopy, NothingIsLost
    <2>2. PickupTypeOK'
        BY <1>1, <2>1 DEF PickupTypeOK
    <2>3. NothingIsLost' /\ NothingFromTomorrow'
        BY <1>1, <2>1 DEF NothingIsLost, NothingFromTomorrow
    <2>4. ASSUME reader'.step = "blind" PROVE reader'.good.day # today
        BY <2>1, <2>4 DEF NoDocument, PickupTypeOK
    <2> QED BY <1>1, <2>2, <2>3, <2>4 DEF BlindOnlyWhenSilent
<1>4. CASE CheckAge
    <2>1. /\ reader' = [reader EXCEPT !.step =
                          IF ticks - reader.copy.at > Fresh THEN "blind" ELSE "young"]
        BY <1>4 DEF CheckAge, ReaderGoes
    <2>2. PickupTypeOK'
        BY <1>1, <2>1 DEF PickupTypeOK
    <2>3. reader'.copy = reader.copy /\ reader'.good = reader.good
        BY <2>1 DEF PickupTypeOK
    <2>4. NothingIsLost' /\ NothingFromTomorrow'
        BY <1>1, <2>3 DEF NothingIsLost, NothingFromTomorrow
    <2>5. ASSUME reader'.step = "blind" PROVE ticks - reader.good.at > Fresh
        BY <2>1, <2>5 DEF PickupTypeOK, NothingIsLost
    <2> QED BY <1>1, <2>2, <2>3, <2>4, <2>5 DEF BlindOnlyWhenSilent
<1>5. CASE CheckToday
    <2>1. /\ reader' = [reader EXCEPT !.step =
                          IF reader.copy.day = today THEN "shown" ELSE "blind"]
        BY <1>5 DEF CheckToday, ReaderGoes
    <2>2. PickupTypeOK'
        BY <1>1, <2>1 DEF PickupTypeOK
    <2>3. reader'.copy = reader.copy /\ reader'.good = reader.good
        BY <2>1 DEF PickupTypeOK
    <2>4. NothingIsLost' /\ NothingFromTomorrow'
        BY <1>1, <2>3 DEF NothingIsLost, NothingFromTomorrow
    <2>5. ASSUME reader'.step = "blind" PROVE reader.good.day # today
        BY <2>1, <2>5 DEF PickupTypeOK, NothingIsLost
    <2> QED BY <1>1, <2>2, <2>3, <2>4, <2>5 DEF BlindOnlyWhenSilent
<1>6. CASE Forget
    <2>1. reader' = [step |-> "none", copy |-> NoDocument, good |-> NoDocument]
        BY <1>6 DEF Forget, NotReading
    <2>2. NoDocument.day = -1
        BY DEF NoDocument
    <2>3. PickupTypeOK'
        BY <1>1, <1>2, <2>1 DEF PickupTypeOK
    <2>4. NothingIsLost' /\ BlindOnlyWhenSilent'
        BY <1>1, <2>1 DEF NothingIsLost, BlindOnlyWhenSilent
    <2>5. NothingFromTomorrow'
        BY <1>1, <2>1, <2>2 DEF NothingFromTomorrow, PickupTypeOK
    <2> QED BY <2>3, <2>4, <2>5
<1> QED BY <1>3, <1>4, <1>5, <1>6

LEMMA PickupInvariant == PickupSpec => []PickupInv
<1>1. PickupInv /\ [PickupNext]_pickupVars => PickupInv'
    <2> SUFFICES ASSUME PickupInv, [PickupNext]_pickupVars PROVE PickupInv'
        OBVIOUS
    <2>1. CASE Pass
        BY <2>1, PassKeeps
    <2>2. CASE FetchFails \/ CheckDay \/ Store \/ \E day \in PickupDays : Fetch(day)
        BY <2>2, RefresherKeeps
    <2>3. CASE (reader = NotReading /\ TakeCopy) \/ CheckAge \/ CheckToday \/ Forget
        BY <2>3, ReaderKeeps
    <2>4. CASE UNCHANGED pickupVars
        BY <2>4 DEF pickupVars, PickupInv, PickupTypeOK, NothingIsLost, NothingFromTomorrow,
           BlindOnlyWhenSilent
    <2> QED BY <2>1, <2>2, <2>3, <2>4 DEF PickupNext
<1> QED BY <1>1, InitPickup, PTL DEF PickupSpec

\* The kitchen is told that the signal is blind only when no good document came in for
\* as long as one counts as fresh.
THEOREM TheBlindAreLate == PickupSpec => [](PickupTypeOK /\ BlindOnlyWhenSilent)
<1>1. PickupInv => PickupTypeOK /\ BlindOnlyWhenSilent
    BY DEF PickupInv
<1> QED BY <1>1, PickupInvariant, PTL

\* The kitchen never gets another day's list.
THEOREM NoOtherDayIsShown == PickupSpec => ListIsOfToday
<1>1. ASSUME PickupInv, [PickupNext]_pickupVars, reader'.step = "shown", reader.step # "shown"
      PROVE  reader.copy.day = today
    <2>1. CheckToday
        <3>1. reader' # reader
            BY <1>1
        <3>2. ~ TakeCopy
            BY <1>1 DEF TakeCopy
        <3>3. ~ CheckAge
            BY <1>1 DEF CheckAge, ReaderGoes, PickupInv, PickupTypeOK
        <3>4. ~ Forget
            BY <1>1 DEF Forget, NotReading
        <3> QED BY <1>1, <3>1, <3>2, <3>3, <3>4
               DEF PickupNext, pickupVars, Pass, FetchFails, CheckDay, Store, Fetch
    <2> QED BY <1>1, <2>1 DEF CheckToday, ReaderGoes, PickupInv, PickupTypeOK
<1>2. PickupInv /\ [PickupNext]_pickupVars =>
        [reader'.step = "shown" /\ reader.step # "shown" => reader.copy.day = today]_pickupVars
    BY <1>1
<1> QED BY <1>2, PickupInvariant, PTL DEF PickupSpec, ListIsOfToday

\* What the kitchen sees is of today, and blind is said only after a silence.
THEOREM TheSignalIsHonest == PickupSpec => SignalIsHonest
    BY TheBlindAreLate, NoOtherDayIsShown, PTL DEF SignalIsHonest

(****************************************************************************)
(* The confirmation documents and the messages of an order, for any number  *)
(* of orders, versions, documents and changes of the customer's data.       *)
(****************************************************************************)

(* The inductive invariant. *)

MailTypes ==
    /\ customer \in [Inquiries -> Customer]
    /\ frozenMode \in [Versions -> Modes]
    /\ documents \in Seq(DocumentRow)
    /\ outbox \in Seq(Nat)
    /\ \A n \in 1..Len(outbox) : outbox[n] <= Len(documents)

\* Every version has a context, and that of a conversion to be delivered an address.
ContextIsWhole(v) ==
    /\ versions[v].address \in Addresses
    /\ versions[v].parent = None /\ frozenMode[v] = "DELIVERY" =>
         versions[v].address # NoAddress

StoredDocuments == {k \in 1..Len(documents) : documents[k].state = "stored"}

\* The number of the stand a document describes.
StandOf(k) == versions[documents[k].version].number

\* No document is of a stand younger than the effective one, and each is of a younger
\* stand than the documents of its order before it.
DocumentsFollowTheStands ==
    /\ \A k \in StoredDocuments :
         LET e == orders[documents[k].order].effective
         IN  e # None /\ StandOf(k) <= versions[e].number
    /\ \A k, l \in StoredDocuments :
         k < l /\ documents[k].order = documents[l].order => StandOf(k) < StandOf(l)

\* So do the messages, each of a document that is still there.
MessagesFollowTheStands ==
    /\ \A n \in Messages : outbox[n] \in StoredDocuments
    /\ \A m, n \in Messages :
         m < n /\ documents[outbox[m]].order = documents[outbox[n]].order =>
           StandOf(outbox[m]) < StandOf(outbox[n])

ConfirmInv ==
    /\ CoreInv
    /\ MailTypes
    /\ \A o \in Orders : Exists(o) => orders[o].inquiry # None
    /\ \A v \in Versions : Stored(v) => ContextIsWhole(v)
    /\ CustomerAndKitchenAgree
    /\ DocumentsFollowTheStands
    /\ MessagesFollowTheStands

LEMMA FunctionIsSequence ==
    ASSUME NEW n \in Nat, NEW S, NEW f \in [1..n -> S]
    PROVE  f \in Seq(S) /\ Len(f) = n
PROOF
  <1>1. f \in Seq(S)
    BY SeqDef, Zenon
  <1>2. DOMAIN f = 1..n /\ DOMAIN f = 1..Len(f) /\ Len(f) \in Nat
    BY <1>1, LenProperties
  <1> QED
    BY <1>2

\* What every proof reads from it.
LEMMA Rows ==
    ASSUME ConfirmInv
    PROVE  /\ orders \in [Orders -> OrderRow] /\ versions \in [Versions -> VersionRow]
           /\ \A v \in Versions : versions[v].number \in Nat
           /\ \A o \in Orders : orders[o].effective # None =>
                orders[o].effective \in Versions /\ Owned(o, orders[o].effective)
           /\ \A k \in StoredDocuments :
                /\ documents[k] \in DocumentRow
                /\ Owned(documents[k].order, documents[k].version)
                /\ documents[k].version \in Versions /\ documents[k].order \in Orders
                /\ versions[documents[k].version].order = documents[k].order
                /\ StandOf(k) \in Nat
PROOF
  <1>1. /\ orders \in [Orders -> OrderRow] /\ versions \in [Versions -> VersionRow]
        /\ EffectiveIsPrinted
    BY DEF ConfirmInv, CoreInv, TypeOK
  <1>2. \A v \in Versions : versions[v].number \in Nat
    BY <1>1 DEF VersionRow
  <1>3. \A o \in Orders : orders[o].effective # None =>
          orders[o].effective \in Versions /\ Owned(o, orders[o].effective)
    BY <1>1 DEF EffectiveIsPrinted, OrderRow, Optional
  <1>4. ASSUME NEW k \in StoredDocuments
        PROVE  /\ documents[k] \in DocumentRow
               /\ Owned(documents[k].order, documents[k].version)
               /\ documents[k].version \in Versions /\ documents[k].order \in Orders
               /\ versions[documents[k].version].order = documents[k].order
               /\ StandOf(k) \in Nat
    <2>1. k \in 1..Len(documents) /\ documents[k].state = "stored" /\ documents[k] \in DocumentRow
      BY DEF StoredDocuments, ConfirmInv, MailTypes
    <2>2. Owned(documents[k].order, documents[k].version)
      BY <2>1 DEF ConfirmInv, CustomerAndKitchenAgree
    <2>3. documents[k].version \in Versions /\ documents[k].order \in Orders
      BY <2>1 DEF DocumentRow
    <2> QED
      BY <1>2, <2>1, <2>2, <2>3 DEF Owned, StandOf
  <1> QED
    BY <1>1, <1>2, <1>3, <1>4

\* Two documents are never of the same version.
LEMMA OneDocumentPerVersion ==
    ASSUME ConfirmInv, NEW k \in StoredDocuments, NEW l \in StoredDocuments,
           documents[k].version = documents[l].version
    PROVE  k = l
PROOF
  <1>1. documents[k].order = documents[l].order /\ StandOf(k) = StandOf(l) /\ StandOf(k) \in Nat
    BY Rows DEF StandOf
  <1>2. k \in Nat /\ l \in Nat
    BY DEF StoredDocuments
  <1>3. ~ (k < l) /\ ~ (l < k)
    BY <1>1 DEF ConfirmInv, DocumentsFollowTheStands
  <1> QED
    BY <1>2, <1>3

\* An older document of the order is of an older stand than the effective one.
LEMMA OtherDocumentsAreOlder ==
    ASSUME ConfirmInv, NEW k \in StoredDocuments,
           documents[k].version # orders[documents[k].order].effective
    PROVE  StandOf(k) < versions[orders[documents[k].order].effective].number
PROOF
  <1> DEFINE o == documents[k].order
             e == orders[o].effective
             v == documents[k].version
  <1>1. /\ o \in Orders /\ v \in VersionsOf(o) /\ StandOf(k) \in Nat
    BY Rows DEF VersionsOf
  <1>2. e # None /\ StandOf(k) <= versions[e].number
    BY DEF ConfirmInv, DocumentsFollowTheStands
  <1>3. e \in VersionsOf(o) /\ versions[e].number \in Nat
    BY <1>1, <1>2, Rows DEF VersionsOf
  <1>4. versions[v].number # versions[e].number
    BY <1>1, <1>3 DEF ConfirmInv, CoreInv, Gapless
  <1> QED
    BY <1>1, <1>2, <1>3, <1>4 DEF StandOf

-----------------------------------------------------------------------------
(* Steps of the order under its documents. *)

\* What the documents need of a step on the orders: stored stands stay what they are,
\* new ones have a context, the effective stand only moves forward.
StandsStay ==
    /\ \A w \in Versions : Stored(w) =>
         /\ Stored(w)'
         /\ versions'[w].order = versions[w].order
         /\ versions'[w].number = versions[w].number
         /\ versions'[w].parent = versions[w].parent
         /\ versions'[w].address = versions[w].address
         /\ versions[w].confirmed => versions'[w].confirmed
         /\ frozenMode'[w] = frozenMode[w]
    /\ \A w \in Versions : ~ Stored(w) /\ Stored(w)' => ContextIsWhole(w)'
    /\ \A o \in Orders : orders[o].effective # None => orders'[o].effective # None
    /\ \A o \in Orders : Exists(o)' => orders'[o].inquiry # None
    /\ frozenMode' \in [Versions -> Modes]
    /\ UNCHANGED <<customer, documents, outbox>>

LEMMA DocumentsStandStill ==
    ASSUME ConfirmInv, [Next]_coreVars, StandsStay
    PROVE  ConfirmInv'
PROOF
  <1>1. CoreInv /\ CoreInv'
    BY NextKeepsInv DEF ConfirmInv
  <1>2. documents' = documents /\ outbox' = outbox /\ customer' = customer
    BY DEF StandsStay
  <1>3. MailTypes'
    BY <1>2 DEF ConfirmInv, MailTypes, StandsStay
  <1>4. \A w \in Versions : Stored(w)' => ContextIsWhole(w)'
    <2> SUFFICES ASSUME NEW w \in Versions, Stored(w)'  PROVE ContextIsWhole(w)'
      OBVIOUS
    <2>1. CASE Stored(w)
      BY <2>1 DEF StandsStay, ConfirmInv, ContextIsWhole
    <2>2. CASE ~ Stored(w)
      BY <2>2 DEF StandsStay
    <2> QED
      BY <2>1, <2>2
  <1>5. /\ StoredDocuments' = StoredDocuments /\ Messages' = Messages
        /\ \A n \in Messages : outbox'[n] = outbox[n]
        /\ \A k \in StoredDocuments : documents'[k] = documents[k]
    BY <1>2 DEF StoredDocuments, Messages
  <1>6. \A k \in StoredDocuments :
          /\ documents[k].version \in Versions /\ Stored(documents[k].version)
          /\ StandOf(k)' = StandOf(k)
    BY <1>5, Rows DEF Owned, StandsStay, StandOf
  <1>7. CustomerAndKitchenAgree'
    <2> SUFFICES ASSUME NEW k \in 1..Len(documents), documents[k].state = "stored"
                 PROVE  LET d == documents[k]
                            v == d.version
                        IN  /\ versions'[v].state = "stored" /\ versions'[v].order = d.order
                            /\ versions'[v].confirmed
                            /\ d.mode # "UNKNOWN"
                            /\ frozenMode'[v] # "UNKNOWN" => d.mode = frozenMode'[v]
                            /\ d.mode = "PICKUP" => d.address = NoAddress
                            /\ d.mode = "DELIVERY" /\ (versions'[v].parent # None
                                                       \/ versions'[v].address # NoAddress) =>
                                 d.address = versions'[v].address
      BY <1>2 DEF CustomerAndKitchenAgree, Owned, Stored
    <2> DEFINE d == documents[k]
               v == d.version
    <2>1. k \in StoredDocuments
      BY DEF StoredDocuments
    <2>2. v \in Versions /\ Owned(d.order, v) /\ Stored(v)
      BY <2>1, Rows DEF Owned
    <2>3. /\ versions'[v].state = "stored"
          /\ versions'[v].order = versions[v].order
          /\ versions'[v].parent = versions[v].parent
          /\ versions'[v].address = versions[v].address
          /\ versions[v].confirmed => versions'[v].confirmed
          /\ frozenMode'[v] = frozenMode[v]
      BY <2>2 DEF StandsStay, Stored
    <2>4. /\ versions[v].confirmed
          /\ d.mode # "UNKNOWN"
          /\ frozenMode[v] # "UNKNOWN" => d.mode = frozenMode[v]
          /\ d.mode = "PICKUP" => d.address = NoAddress
          /\ d.mode = "DELIVERY" /\ (versions[v].parent # None
                                     \/ versions[v].address # NoAddress) =>
               d.address = versions[v].address
      BY DEF ConfirmInv, CustomerAndKitchenAgree
    <2> HIDE DEF d, v
    <2> QED
      BY <2>2, <2>3, <2>4 DEF Owned, d, v
  <1>8. \A o \in Orders : orders[o].effective # None =>
          /\ orders'[o].effective # None
          /\ versions[orders[o].effective].number <= versions'[orders'[o].effective].number
    <2> SUFFICES ASSUME NEW o \in Orders, orders[o].effective # None
                 PROVE  /\ orders'[o].effective # None
                        /\ versions[orders[o].effective].number
                             <= versions'[orders'[o].effective].number
      OBVIOUS
    <2> DEFINE e == orders[o].effective
               f == orders'[o].effective
    <2>1. f # None /\ e \in Versions /\ Stored(e)
      BY Rows DEF StandsStay, Owned
    <2>2. versions'[e].number = versions[e].number /\ versions[e].number \in Nat
      BY <2>1, Rows DEF StandsStay
    <2>3. f \in Versions /\ versions'[f].number \in Nat
      BY <1>1, <2>1 DEF CoreInv, TypeOK, OrderRow, VersionRow, Optional
    <2>4. e # f => versions'[f].number > versions'[e].number
      BY <1>1, <2>1, StepsMoveForward DEF MovesForward
    <2> HIDE DEF e, f
    <2>5. versions[e].number <= versions'[f].number
      BY <2>2, <2>3, <2>4
    <2> QED
      BY <2>1, <2>5 DEF e, f
  <1>9. DocumentsFollowTheStands'
    <2>1. ASSUME NEW k \in StoredDocuments
          PROVE  /\ orders'[documents[k].order].effective # None
                 /\ StandOf(k) <= versions'[orders'[documents[k].order].effective].number
      <3> DEFINE o == documents[k].order
                 e == orders[o].effective
                 f == orders'[o].effective
      <3>1. e # None /\ StandOf(k) <= versions[e].number /\ o \in Orders /\ StandOf(k) \in Nat
        BY Rows DEF ConfirmInv, DocumentsFollowTheStands
      <3>2. f # None /\ versions[e].number <= versions'[f].number
        BY <1>8, <3>1
      <3>3. versions[e].number \in Nat /\ versions'[f].number \in Nat
        BY <1>1, <3>1, <3>2, Rows DEF CoreInv, TypeOK, OrderRow, VersionRow, Optional
      <3> HIDE DEF e, f
      <3>4. StandOf(k) <= versions'[f].number
        BY <3>1, <3>2, <3>3
      <3> QED
        BY <3>2, <3>4 DEF f
    <2>2. \A k, l \in StoredDocuments :
            k < l /\ documents[k].order = documents[l].order => StandOf(k) < StandOf(l)
      BY DEF ConfirmInv, DocumentsFollowTheStands
    <2> QED
      BY <1>5, <1>6, <2>1, <2>2 DEF DocumentsFollowTheStands
  <1>10. MessagesFollowTheStands'
    BY <1>5, <1>6 DEF ConfirmInv, MessagesFollowTheStands
  <1>11. \A o \in Orders : Exists(o)' => orders'[o].inquiry # None
    BY DEF StandsStay
  <1> QED
    BY <1>1, <1>3, <1>4, <1>7, <1>9, <1>10, <1>11 DEF ConfirmInv

LEMMA OperateKeeps ==
    ASSUME ConfirmInv, NEW o \in Orders, Operate(o)
    PROVE  ConfirmInv'
PROOF
  <1>0. /\ orders \in [Orders -> OrderRow] /\ versions \in [Versions -> VersionRow]
        /\ HistoryInv /\ None \notin Versions
    BY Rows, CoreInvParts, NoneAssumption DEF ConfirmInv
  <1>1. /\ \/ \E v \in Versions : MakeEffective(o, v) \/ AcknowledgePrint(o, v)
           \/ CancelOrder(o) \/ PauseOrder(o) \/ ResumeOrder(o)
        /\ UNCHANGED <<customer, frozenMode, documents, outbox>>
    BY DEF Operate
  <1>2. [Next]_coreVars
    BY <1>1 DEF Next, OfficeNext, HandlerNext, ChangeNext
  <1>3. \/ versions' = versions
        \/ \E v \in VersionsOf(o) : versions' = [versions EXCEPT ![v].confirmed = TRUE]
    BY <1>0, <1>1, OtherSteps
  <1>4. \A w \in Versions : versions'[w] = versions[w]
                            \/ versions'[w] = [versions[w] EXCEPT !.confirmed = TRUE]
    BY <1>0, <1>3 DEF VersionsOf
  <1>5. \A w \in Versions :
          /\ versions'[w].state = versions[w].state
          /\ versions'[w].order = versions[w].order
          /\ versions'[w].number = versions[w].number
          /\ versions'[w].parent = versions[w].parent
          /\ versions'[w].address = versions[w].address
          /\ versions[w].confirmed => versions'[w].confirmed
    <2> SUFFICES ASSUME NEW w \in Versions
                 PROVE  /\ versions'[w].state = versions[w].state
                        /\ versions'[w].order = versions[w].order
                        /\ versions'[w].number = versions[w].number
                        /\ versions'[w].parent = versions[w].parent
                        /\ versions'[w].address = versions[w].address
                        /\ versions[w].confirmed => versions'[w].confirmed
      OBVIOUS
    <2>1. versions[w] \in VersionRow
      BY <1>0
    <2>2. CASE versions'[w] = versions[w]
      BY <2>2
    <2>3. CASE versions'[w] = [versions[w] EXCEPT !.confirmed = TRUE]
      BY <2>1, <2>3 DEF VersionRow
    <2> QED
      BY <1>4, <2>2, <2>3
  <1>6. ASSUME NEW p \in Orders, orders[p].effective # None
        PROVE  orders'[p].effective # None
    <2>1. CASE \E v \in Versions : MakeEffective(o, v)
      <3>1. PICK v \in Versions : MakeEffective(o, v)
        BY <2>1
      <3> QED
        BY <1>0, <1>6, <3>1, EffectiveIsSet, NoneAssumption
    <2>2. CASE \E v \in Versions : AcknowledgePrint(o, v)
      <3>1. PICK v \in Versions : AcknowledgePrint(o, v)
        BY <2>2
      <3> DEFINE new == ActivatedByPrint(orders[o], v)
      <3>2. orders' = [orders EXCEPT ![o] = new]
        BY <3>1 DEF AcknowledgePrint
      <3>3. new.effective \in {v, orders[o].effective}
        BY <1>0 DEF ActivatedByPrint, OrderRow
      <3> HIDE DEF new
      <3> QED
        BY <1>0, <1>6, <3>2, <3>3
    <2>3. CASE CancelOrder(o) \/ PauseOrder(o) \/ ResumeOrder(o)
      BY <1>0, <1>6, <2>3 DEF CancelOrder, PauseOrder, ResumeOrder, OrderRow
    <2> QED
      BY <1>1, <2>1, <2>2, <2>3
  <1>7. frozenMode' = frozenMode /\ frozenMode \in [Versions -> Modes]
    BY <1>1 DEF ConfirmInv, MailTypes
  <1>8. \A p \in Orders : Exists(p)' => orders'[p].inquiry # None
    BY <1>0, <1>1, OtherSteps DEF ConfirmInv
  <1>9. StandsStay
    BY <1>1, <1>5, <1>6, <1>7, <1>8 DEF StandsStay, Stored
  <1> QED
    BY <1>2, <1>9, DocumentsStandStill

LEMMA ReviseKeeps ==
    ASSUME ConfirmInv, NEW o \in Orders, NEW v \in Versions, Revise(o, v)
    PROVE  ConfirmInv'
PROOF
  <1>0. /\ orders \in [Orders -> OrderRow] /\ versions \in [Versions -> VersionRow]
        /\ HistoryInv /\ None \notin Versions
    BY Rows, CoreInvParts, NoneAssumption DEF ConfirmInv
  <1>1. /\ \/ \E f \in Facts : ProposeChange(o, v, f)
           \/ \E p \in Versions, a \in Addresses : ProposeAddress(o, v, p, a)
        /\ frozenMode' = [frozenMode EXCEPT ![v] = frozenMode[versions'[v].parent]]
        /\ UNCHANGED <<customer, documents, outbox>>
    BY DEF Revise
  <1>2. [Next]_coreVars
    BY <1>1 DEF Next, OfficeNext, HandlerNext, ChangeNext
  <1>3. PICK row \in VersionRow :
          /\ AppendVersion(o, v, row, v)
          /\ row.parent \in VersionsOf(o)
    BY <1>0, <1>1, Proposals DEF Proposed
  <1>4. /\ versions[v].state = "unborn" /\ versions'[v] = row
        /\ \A w \in Versions : w # v => versions'[w] = versions[w]
        /\ \A p \in Orders : orders'[p].effective = orders[p].effective
    BY <1>0, <1>3 DEF AppendVersion, OrderRow
  <1>5. row.parent \in Versions /\ row.parent # None
    BY <1>0, <1>3 DEF VersionsOf
  <1>6. row.address \in Addresses
    <2>1. ASSUME NEW f \in Facts, ProposeChange(o, v, f)  PROVE row.address \in Addresses
      <3> DEFINE source == IF orders[o].effective # None THEN orders[o].effective
                                                        ELSE LatestVersion(o)
      <3>1. versions'[v].address = versions[source].address /\ versions'[v].parent = source
        BY <1>0, <2>1 DEF ProposeChange, AppendVersion
      <3>2. source \in Versions /\ Stored(source)
        BY <1>3, <1>4, <3>1 DEF VersionsOf, Owned
      <3> HIDE DEF source
      <3> QED
        BY <1>4, <3>1, <3>2 DEF ConfirmInv, ContextIsWhole
    <2>2. ASSUME NEW p \in Versions, NEW a \in Addresses, ProposeAddress(o, v, p, a)
          PROVE  row.address \in Addresses
      BY <1>0, <1>4, <2>2 DEF ProposeAddress, AppendVersion
    <2> QED
      BY <1>1, <2>1, <2>2
  <1>7. /\ frozenMode' \in [Versions -> Modes]
        /\ \A w \in Versions : w # v => frozenMode'[w] = frozenMode[w]
    BY <1>1, <1>4, <1>5 DEF ConfirmInv, MailTypes
  <1>8. ContextIsWhole(v)'
    BY <1>4, <1>5, <1>6 DEF ContextIsWhole
  <1>9. \A p \in Orders : Exists(p)' => orders'[p].inquiry # None
    BY <1>0, <1>3 DEF AppendVersion, OrderRow, Exists, ConfirmInv
  <1>10. StandsStay
    BY <1>1, <1>4, <1>7, <1>8, <1>9 DEF StandsStay, Stored
  <1> QED
    BY <1>2, <1>10, DocumentsStandStill

LEMMA ConvertKeeps ==
    ASSUME ConfirmInv, NEW o \in Orders, NEW v \in Versions, NEW i \in Inquiries,
           NEW f \in Facts, Convert(o, v, i, f)
    PROVE  ConfirmInv'
PROOF
  <1> DEFINE c == customer[i]
             row == [facts |-> f, timing |-> None, window |-> None,
                     address |-> InitialAddress(c)]
  <1>0. /\ orders \in [Orders -> OrderRow] /\ versions \in [Versions -> VersionRow]
        /\ c \in Customer /\ frozenMode \in [Versions -> Modes]
    BY Rows DEF ConfirmInv, MailTypes
  <1>1. /\ c.mode = "DELIVERY" => c.address # NoAddress
        /\ CreateOrder(o, v, i, row)
        /\ frozenMode' = [frozenMode EXCEPT ![v] = c.mode]
        /\ UNCHANGED <<customer, documents, outbox>>
    BY DEF Convert
  <1>2. /\ InitialAddress(c) \in Addresses
        /\ c.mode = "DELIVERY" => InitialAddress(c) # NoAddress
        /\ c.mode \in Modes
    BY <1>0, <1>1, AddressAssumption DEF InitialAddress, Customer, Modes
  <1>3. row \in InitialContents
    BY <1>2 DEF InitialContents, Optional
  <1>4. /\ orders[o].state = "unborn" /\ versions[v].state = "unborn"
        /\ \A p \in Orders : p # o => orders'[p] = orders[p]
        /\ \A w \in Versions : w # v => versions'[w] = versions[w]
        /\ versions'[v].address = InitialAddress(c)
    BY <1>0, <1>1 DEF CreateOrder
  <1> HIDE DEF row, c
  <1>5. [Next]_coreVars
    BY <1>1, <1>3 DEF Next, OfficeNext, HandlerNext
  <1>6. /\ frozenMode'[v] = c.mode /\ frozenMode' \in [Versions -> Modes]
        /\ \A w \in Versions : w # v => frozenMode'[w] = frozenMode[w]
    BY <1>0, <1>1, <1>2
  <1>7. ContextIsWhole(v)'
    BY <1>2, <1>4, <1>6 DEF ContextIsWhole
  <1>8. orders[o].effective = None
    BY <1>4 DEF ConfirmInv, CoreInv, PointersAreOwned, Exists
  <1>9. \A p \in Orders : Exists(p)' => orders'[p].inquiry # None
    <2>1. orders'[o].inquiry = i /\ i # None
      BY <1>0, <1>1, NoneAssumption DEF CreateOrder, NoOrder
    <2> QED
      BY <1>4, <2>1 DEF ConfirmInv, Exists
  <1>10. StandsStay
    BY <1>1, <1>4, <1>6, <1>7, <1>8, <1>9 DEF StandsStay, Stored
  <1> QED
    BY <1>5, <1>10, DocumentsStandStill

-----------------------------------------------------------------------------
(* Steps of the customer's data, the documents and the messages. *)

LEMMA CustomerKeeps ==
    ASSUME ConfirmInv, NEW i \in Inquiries,
           \/ \E c \in Contacts : CompleteContact(i, c)
           \/ \E a \in Addresses : SetAddress(i, a)
           \/ \E mode \in Modes : SetMode(i, mode)
    PROVE  ConfirmInv'
PROOF
  <1>1. UNCHANGED <<coreVars, frozenMode, documents, outbox>>
    BY DEF CompleteContact, SetAddress, SetMode
  <1>2. customer \in [Inquiries -> Customer]
    BY DEF ConfirmInv, MailTypes
  <1>3. customer' \in [Inquiries -> Customer]
    BY <1>2 DEF CompleteContact, SetAddress, SetMode, Customer, Contacts
  <1>4. CoreInv'
    BY <1>1, NextKeepsInv DEF ConfirmInv
  <1>5. MailTypes'
    BY <1>1, <1>3 DEF ConfirmInv, MailTypes
  <1>6. /\ \A v \in Versions : Stored(v)' => ContextIsWhole(v)'
        /\ \A o \in Orders : Exists(o)' => orders'[o].inquiry # None
        /\ CustomerAndKitchenAgree'
        /\ DocumentsFollowTheStands'
        /\ MessagesFollowTheStands'
    BY <1>1 DEF ConfirmInv, ContextIsWhole, CustomerAndKitchenAgree, DocumentsFollowTheStands,
                MessagesFollowTheStands, StoredDocuments, StandOf, Messages, Stored, Owned, Exists, coreVars
  <1> QED
    BY <1>4, <1>5, <1>6 DEF ConfirmInv

\* The recipient of a document that is created is that of the effective stand.
LEMMA ExactRecipients ==
    ASSUME ConfirmInv, NEW o \in Orders, Eligible(o, RecipientOf(o))
    PROVE  LET e == orders[o].effective
               r == RecipientOf(o)
           IN  /\ e \in VersionsOf(o) /\ versions[e].confirmed
               /\ r.mode \in Modes /\ r.address \in Addresses
               /\ r.mode # "UNKNOWN"
               /\ frozenMode[e] # "UNKNOWN" => r.mode = frozenMode[e]
               /\ r.mode = "PICKUP" => r.address = NoAddress
               /\ r.mode = "DELIVERY" /\ (versions[e].parent # None
                                          \/ versions[e].address # NoAddress) =>
                    r.address = versions[e].address
PROOF
  <1> DEFINE e == orders[o].effective
             r == RecipientOf(o)
             c == CustomerOf(o)
             mode == IF frozenMode[e] # "UNKNOWN" THEN frozenMode[e] ELSE c.mode
  <1>1. /\ Active(o) /\ e # None /\ versions[e].confirmed /\ r.mode # "UNKNOWN"
    BY DEF Eligible
  <1>2. e \in VersionsOf(o)
    BY <1>1, Rows DEF VersionsOf
  <1>3. /\ versions[e].address \in Addresses /\ frozenMode[e] \in Modes
    BY <1>2 DEF ConfirmInv, MailTypes, ContextIsWhole, VersionsOf, Owned
  <1>4. orders[o].inquiry \in Inquiries
    <2>1. /\ orders[o] \in OrderRow
      BY Rows
    <2> QED
      BY <1>1, <2>1 DEF OrderRow, Optional, ConfirmInv, Exists, Active
  <1>5. c \in Customer
    BY <1>4 DEF ConfirmInv, MailTypes, CustomerOf
  <1>6. r = IF \/ versions[e].parent # None
               \/ versions[e].address # NoAddress
               \/ frozenMode[e] # "UNKNOWN"
            THEN ExactRecipient(e, mode) ELSE LiveRecipient(c, mode)
    BY <1>1 DEF RecipientOf
  <1>7. mode \in Modes /\ (frozenMode[e] # "UNKNOWN" => mode = frozenMode[e])
    BY <1>3, <1>5 DEF Customer
  <1>8. /\ r.mode = mode /\ r.address \in Addresses
        /\ mode = "PICKUP" => r.address = NoAddress
        /\ mode = "DELIVERY" /\ (versions[e].parent # None
                                 \/ versions[e].address # NoAddress) =>
             r.address = versions[e].address
    <2> HIDE DEF mode, e, c, r
    <2>1. CASE \/ versions[e].parent # None
               \/ versions[e].address # NoAddress
               \/ frozenMode[e] # "UNKNOWN"
      <3>1. r = ExactRecipient(e, mode)
        BY <1>6, <2>1
      <3> QED
        BY <1>3, <3>1, AddressAssumption DEF ExactRecipient
    <2>2. CASE ~ (\/ versions[e].parent # None
                  \/ versions[e].address # NoAddress
                  \/ frozenMode[e] # "UNKNOWN")
      <3>1. r = LiveRecipient(c, mode)
        BY <1>6, <2>2
      <3> QED
        BY <1>5, <2>2, <3>1, AddressAssumption DEF LiveRecipient, Customer
    <2> QED
      BY <2>1, <2>2
  <1> HIDE DEF mode
  <1> QED
    BY <1>1, <1>2, <1>7, <1>8

LEMMA PrepareKeeps ==
    ASSUME ConfirmInv, NEW o \in Orders, NEW x \in Versions, PrepareDocument(o, x)
    PROVE  ConfirmInv'
PROOF
  <1> DEFINE e == orders[o].effective
             d == NewDocument(o, RecipientOf(o))
             n == Len(documents)
  <1>1. /\ DocumentOf(e) = {} /\ Eligible(o, RecipientOf(o))
        /\ documents' = Append(documents, d)
        /\ UNCHANGED <<coreVars, customer, frozenMode, outbox>>
    BY DEF PrepareDocument, PrepareSnapshot
  <1>2. /\ d.state = "stored" /\ d.order = o /\ d.version = e
        /\ d.mode = RecipientOf(o).mode /\ d.address = RecipientOf(o).address
    BY DEF NewDocument
  <1>3. /\ e \in VersionsOf(o) /\ versions[e].confirmed
        /\ d.mode \in Modes /\ d.address \in Addresses
        /\ d.mode # "UNKNOWN"
        /\ frozenMode[e] # "UNKNOWN" => d.mode = frozenMode[e]
        /\ d.mode = "PICKUP" => d.address = NoAddress
        /\ d.mode = "DELIVERY" /\ (versions[e].parent # None
                                   \/ versions[e].address # NoAddress) =>
             d.address = versions[e].address
    BY <1>1, <1>2, ExactRecipients
  <1>4. d \in DocumentRow
    BY <1>3 DEF NewDocument, DocumentRow, VersionsOf
  <1> HIDE DEF d
  <1>5. /\ documents \in Seq(DocumentRow) /\ n \in Nat
        /\ documents' \in Seq(DocumentRow) /\ Len(documents') = n + 1
        /\ documents'[n + 1] = d /\ \A k \in 1..n : documents'[k] = documents[k]
    BY <1>1, <1>4, AppendProperties DEF ConfirmInv, MailTypes
  <1>6. /\ versions' = versions /\ orders' = orders /\ frozenMode' = frozenMode
        /\ customer' = customer /\ outbox' = outbox
    BY <1>1 DEF coreVars
  <1>7. StoredDocuments' = StoredDocuments \cup {n + 1} /\ Messages' = Messages
    BY <1>2, <1>5, <1>6 DEF StoredDocuments, Messages
  <1>8. /\ \A k : StandOf(k)' = versions[documents'[k].version].number
        /\ \A k \in StoredDocuments : /\ k \in 1..n /\ documents'[k] = documents[k]
                                     /\ StandOf(k)' = StandOf(k) /\ StandOf(k) \in Nat
    <2>1. \A k : StandOf(k)' = versions[documents'[k].version].number
      BY <1>6 DEF StandOf
    <2>2. \A k \in StoredDocuments : k \in 1..n /\ documents'[k] = documents[k]
      BY <1>5 DEF StoredDocuments
    <2>3. \A k \in StoredDocuments : StandOf(k) \in Nat
      BY Rows
    <2> QED
      BY <2>1, <2>2, <2>3 DEF StandOf
  <1>9. CoreInv'
    BY <1>1, NextKeepsInv DEF ConfirmInv
  <1>10. MailTypes'
    BY <1>5, <1>6 DEF ConfirmInv, MailTypes
  <1>11. /\ \A v \in Versions : Stored(v)' => ContextIsWhole(v)'
         /\ \A p \in Orders : Exists(p)' => orders'[p].inquiry # None
    BY <1>6 DEF ConfirmInv, ContextIsWhole, Stored, Exists
  <1>12. CustomerAndKitchenAgree'
    <2>1. \A k \in 1..(n + 1) : documents'[k].state = "stored" =>
            LET r == documents'[k]
                v == r.version
            IN  /\ Owned(r.order, v)
                /\ versions[v].confirmed
                /\ r.mode # "UNKNOWN"
                /\ frozenMode[v] # "UNKNOWN" => r.mode = frozenMode[v]
                /\ r.mode = "PICKUP" => r.address = NoAddress
                /\ r.mode = "DELIVERY" /\ (versions[v].parent # None
                                           \/ versions[v].address # NoAddress) =>
                       r.address = versions[v].address
      <3> SUFFICES ASSUME NEW k \in 1..(n + 1), documents'[k].state = "stored"
                   PROVE  LET r == documents'[k]
                              v == r.version
                          IN  /\ Owned(r.order, v)
                              /\ versions[v].confirmed
                              /\ r.mode # "UNKNOWN"
                              /\ frozenMode[v] # "UNKNOWN" => r.mode = frozenMode[v]
                              /\ r.mode = "PICKUP" => r.address = NoAddress
                              /\ r.mode = "DELIVERY" /\ (versions[v].parent # None
                                                         \/ versions[v].address # NoAddress) =>
                                     r.address = versions[v].address
        OBVIOUS
      <3>1. CASE k = n + 1
        BY <1>2, <1>3, <1>5, <3>1 DEF VersionsOf
      <3>2. CASE k \in 1..n
        BY <1>5, <3>2 DEF ConfirmInv, CustomerAndKitchenAgree
      <3> QED
        BY <1>5, <3>1, <3>2
    <2> QED
      BY <1>5, <1>6, <2>1 DEF CustomerAndKitchenAgree, Owned, Stored
  <1>13. DocumentsFollowTheStands'
    <2>1. ASSUME NEW k \in StoredDocuments, documents[k].order = o
          PROVE  StandOf(k) < versions[e].number
      <3>1. documents[k].version # e
        BY <1>1 DEF DocumentOf, StoredDocuments
      <3> QED
        BY <2>1, <3>1, OtherDocumentsAreOlder
    <2>2. e # None /\ versions[e].number \in Nat
      BY <1>1, <1>3, Rows DEF Eligible, VersionsOf
    <2>3. ASSUME NEW k \in StoredDocuments'
          PROVE  /\ orders[documents'[k].order].effective # None
                 /\ StandOf(k)' <= versions[orders[documents'[k].order].effective].number
      <3>1. CASE k \in StoredDocuments
        BY <1>8, <3>1 DEF ConfirmInv, DocumentsFollowTheStands
      <3>2. CASE k = n + 1
        BY <1>2, <1>5, <1>8, <2>2, <3>2
      <3> QED
        BY <1>7, <3>1, <3>2
    <2>4. ASSUME NEW k \in StoredDocuments', NEW l \in StoredDocuments',
                 k < l, documents'[k].order = documents'[l].order
          PROVE  StandOf(k)' < StandOf(l)'
      <3>1. k \in StoredDocuments /\ (l \in StoredDocuments \/ l = n + 1)
        BY <1>5, <1>7, <1>8, <2>4
      <3>2. CASE l \in StoredDocuments
        BY <1>8, <2>4, <3>1, <3>2 DEF ConfirmInv, DocumentsFollowTheStands
      <3>3. CASE l = n + 1
        <4>1. documents[k].order = o
          BY <1>2, <1>5, <1>8, <2>4, <3>1, <3>3
        <4> QED
          BY <1>2, <1>5, <1>8, <2>1, <3>1, <3>3, <4>1
      <3> QED
        BY <3>1, <3>2, <3>3
    <2> QED
      BY <1>6, <2>3, <2>4 DEF DocumentsFollowTheStands
  <1>14. MessagesFollowTheStands'
    <2>1. \A m \in Messages : outbox[m] \in StoredDocuments
      BY DEF ConfirmInv, MessagesFollowTheStands
    <2> QED
      BY <1>6, <1>7, <1>8, <2>1 DEF ConfirmInv, MessagesFollowTheStands
  <1> QED
    BY <1>9, <1>10, <1>11, <1>12, <1>13, <1>14 DEF ConfirmInv

LEMMA SendMailKeeps ==
    ASSUME ConfirmInv, NEW o \in Orders, NEW x \in Versions, NEW k \in 1..Len(documents),
           SendDocument(o, x, k)
    PROVE  ConfirmInv'
PROOF
  <1> DEFINE e == orders[o].effective
             n == Len(outbox)
  <1>1. /\ k \in DocumentsOf(o) /\ ~ Sent(k) /\ Sendable(o, k)
        /\ outbox' = Append(outbox, k)
        /\ UNCHANGED <<coreVars, customer, frozenMode, documents>>
    BY DEF SendDocument, SendToOutbox
  <1>2. /\ k \in StoredDocuments /\ documents[k].order = o /\ documents[k].version = e
        /\ k \in Nat /\ k # 0
    BY <1>1 DEF DocumentsOf, StoredDocuments, Sendable
  <1>3. /\ outbox \in Seq(Nat) /\ n \in Nat
        /\ outbox' \in Seq(Nat) /\ Len(outbox') = n + 1
        /\ outbox'[n + 1] = k /\ \A m \in 1..n : outbox'[m] = outbox[m]
    BY <1>1, <1>2, AppendProperties DEF ConfirmInv, MailTypes
  <1>4. /\ versions' = versions /\ orders' = orders /\ frozenMode' = frozenMode
        /\ customer' = customer /\ documents' = documents
    BY <1>1 DEF coreVars
  <1>5. /\ StoredDocuments' = StoredDocuments /\ Messages' = Messages \cup {n + 1}
        /\ \A m \in Messages : m \in 1..n /\ outbox'[m] = outbox[m]
        /\ \A l \in StoredDocuments : StandOf(l)' = StandOf(l)
    BY <1>2, <1>3, <1>4 DEF StoredDocuments, Messages, StandOf
  <1>6. CoreInv'
    BY <1>1, NextKeepsInv DEF ConfirmInv
  <1>7. MailTypes'
    <2>1. ASSUME NEW m \in 1..(n + 1)  PROVE outbox'[m] <= Len(documents)
      <3>1. CASE m = n + 1
        BY <1>3, <3>1
      <3>2. CASE m \in 1..n
        BY <1>3, <3>2 DEF ConfirmInv, MailTypes
      <3> QED
        BY <1>3, <3>1, <3>2
    <2> QED
      BY <1>3, <1>4, <2>1 DEF ConfirmInv, MailTypes
  <1>8. /\ \A v \in Versions : Stored(v)' => ContextIsWhole(v)'
        /\ \A p \in Orders : Exists(p)' => orders'[p].inquiry # None
        /\ CustomerAndKitchenAgree'
    BY <1>4 DEF ConfirmInv, ContextIsWhole, CustomerAndKitchenAgree, Stored, Owned, Exists
  <1>9. DocumentsFollowTheStands'
    BY <1>4, <1>5 DEF ConfirmInv, DocumentsFollowTheStands
  <1>10. ASSUME NEW m \in Messages, documents[outbox[m]].order = o
         PROVE  StandOf(outbox[m]) < StandOf(k)
    <2>1. outbox[m] \in StoredDocuments /\ outbox[m] # k
      BY <1>1 DEF Sent, ConfirmInv, MessagesFollowTheStands
    <2>2. documents[outbox[m]].version # e
      BY <1>2, <2>1, OneDocumentPerVersion
    <2> QED
      BY <1>2, <1>10, <2>1, <2>2, OtherDocumentsAreOlder DEF StandOf
  <1>11. MessagesFollowTheStands'
    <2>1. \A m \in Messages : outbox[m] \in StoredDocuments
      BY DEF ConfirmInv, MessagesFollowTheStands
    <2>2. \A m \in Messages' : outbox'[m] \in StoredDocuments
      BY <1>2, <1>3, <1>5, <2>1
    <2>3. ASSUME NEW l \in Messages', NEW m \in Messages',
                 l < m, documents[outbox'[l]].order = documents[outbox'[m]].order
          PROVE  StandOf(outbox'[l]) < StandOf(outbox'[m])
      <3>1. l \in Messages /\ (m \in Messages \/ m = n + 1)
        BY <1>3, <1>5, <2>3
      <3>2. CASE m \in Messages
        BY <1>5, <2>3, <3>1, <3>2 DEF ConfirmInv, MessagesFollowTheStands
      <3>3. CASE m = n + 1
        BY <1>2, <1>3, <1>5, <1>10, <2>3, <3>1, <3>3
      <3> QED
        BY <3>1, <3>2, <3>3
    <2>4. \A l \in StoredDocuments : StandOf(l)' = StandOf(l)
      BY <1>5
    <2> QED
      BY <1>4, <1>5, <2>2, <2>3 DEF MessagesFollowTheStands, StandOf
  <1> QED
    BY <1>6, <1>7, <1>8, <1>9, <1>11 DEF ConfirmInv

\* The deletion takes the documents and the messages of one order and no others.
LEMMA PurgeKeeps ==
    ASSUME ConfirmInv, NEW o \in Orders, Purge(o)
    PROVE  ConfirmInv'
PROOF
  <1> DEFINE n == Len(documents)
             N == Len(outbox)
             gone == [NoVersion EXCEPT !.state = "purged"]
  <1>1. /\ PurgeOrder(o)
        /\ documents' = [k \in DOMAIN documents |->
                           IF documents[k].order = o
                           THEN [documents[k] EXCEPT !.state = "purged"] ELSE documents[k]]
        /\ outbox' = [m \in DOMAIN outbox |->
                        IF outbox[m] \in DocumentsOf(o) THEN 0 ELSE outbox[m]]
        /\ customer' = customer /\ frozenMode' = frozenMode
    BY DEF Purge
  <1>2. /\ documents \in Seq(DocumentRow) /\ n \in Nat /\ DOMAIN documents = 1..n
        /\ outbox \in Seq(Nat) /\ N \in Nat /\ DOMAIN outbox = 1..N
    BY DEF ConfirmInv, MailTypes
  <1>3. \A k \in 1..n : [documents[k] EXCEPT !.state = "purged"] \in DocumentRow
                        /\ [documents[k] EXCEPT !.state = "purged"].state = "purged"
    <2>1. ASSUME NEW d \in DocumentRow
          PROVE  /\ [d EXCEPT !.state = "purged"] \in DocumentRow
                 /\ [d EXCEPT !.state = "purged"].state = "purged"
      BY DEF DocumentRow
    <2>2. \A k \in 1..n : documents[k] \in DocumentRow
      BY <1>2
    <2> QED
      BY <2>1, <2>2
  <1>4. /\ documents' \in [1..n -> DocumentRow] /\ outbox' \in [1..N -> Nat]
    BY <1>1, <1>2, <1>3
  <1>5. /\ documents' \in Seq(DocumentRow) /\ Len(documents') = n
        /\ outbox' \in Seq(Nat) /\ Len(outbox') = N
    BY <1>2, <1>4, FunctionIsSequence
  <1>6. /\ \A k \in 1..n : /\ documents[k].order = o => documents'[k].state = "purged"
                           /\ documents[k].order # o => documents'[k] = documents[k]
        /\ \A m \in 1..N : outbox'[m] = IF outbox[m] \in DocumentsOf(o) THEN 0 ELSE outbox[m]
    BY <1>1, <1>2, <1>3
  <1>7. /\ StoredDocuments' = {k \in StoredDocuments : documents[k].order # o}
        /\ DocumentsOf(o) = {k \in StoredDocuments : documents[k].order = o}
    BY <1>5, <1>6 DEF StoredDocuments, DocumentsOf
  <1>8. Messages' = {m \in Messages : documents[outbox[m]].order # o}
    <2>1. \A m \in Messages : outbox[m] \in StoredDocuments
      BY DEF ConfirmInv, MessagesFollowTheStands
    <2>2. \A m \in 1..N : outbox'[m] # 0 <=> outbox[m] # 0 /\ outbox[m] \notin DocumentsOf(o)
      BY <1>6
    <2>3. Messages' = {m \in 1..N : outbox'[m] # 0} /\ Messages = {m \in 1..N : outbox[m] # 0}
      BY <1>5 DEF Messages
    <2> QED
      BY <1>7, <2>1, <2>2, <2>3
  <1>9. /\ \A w \in Versions : ~ Owned(o, w) => versions'[w] = versions[w]
        /\ \A w \in Versions : Owned(o, w) => ~ Stored(w)'
        /\ \A p \in Orders : p # o => orders'[p] = orders[p]
        /\ ~ Exists(o)'
    BY <1>1, Rows DEF PurgeOrder, NoVersion, NoOrder, Stored, Exists
  <1>10. CoreInv'
    <2>1. [Next]_coreVars
      BY <1>1 DEF Next, OfficeNext
    <2> QED
      BY <2>1, NextKeepsInv DEF ConfirmInv
  <1>11. MailTypes'
    <2>1. \A m \in 1..N : outbox'[m] <= n
      BY <1>2, <1>6 DEF ConfirmInv, MailTypes
    <2> QED
      BY <1>1, <1>5, <2>1 DEF ConfirmInv, MailTypes
  <1>12. /\ \A v \in Versions : Stored(v)' => ContextIsWhole(v)'
         /\ \A p \in Orders : Exists(p)' => orders'[p].inquiry # None
    BY <1>1, <1>9 DEF ConfirmInv, ContextIsWhole, Stored, Exists
  <1>13. \A k \in StoredDocuments' :
           /\ k \in StoredDocuments /\ k \in 1..n /\ documents'[k] = documents[k]
           /\ documents[k].order # o /\ documents[k].order \in Orders
           /\ versions'[documents[k].version] = versions[documents[k].version]
    <2> SUFFICES ASSUME NEW k \in StoredDocuments'
                 PROVE  /\ k \in StoredDocuments /\ k \in 1..n /\ documents'[k] = documents[k]
                        /\ documents[k].order # o /\ documents[k].order \in Orders
                        /\ versions'[documents[k].version] = versions[documents[k].version]
      OBVIOUS
    <2>1. k \in StoredDocuments /\ documents[k].order # o /\ k \in 1..n
      BY <1>7 DEF StoredDocuments
    <2>2. /\ documents[k].version \in Versions /\ documents[k].order \in Orders
          /\ versions[documents[k].version].order = documents[k].order
      BY <2>1, Rows
    <2> QED
      BY <1>6, <1>9, <2>1, <2>2 DEF Owned
  <1>14. \A k \in StoredDocuments' : StandOf(k)' = StandOf(k)
    BY <1>13 DEF StandOf
  <1>15. CustomerAndKitchenAgree'
    <2> SUFFICES \A k \in 1..n : documents'[k].state = "stored" =>
                   LET d == documents'[k]
                       v == d.version
                   IN  /\ versions'[v].state = "stored" /\ versions'[v].order = d.order
                       /\ versions'[v].confirmed
                       /\ d.mode # "UNKNOWN"
                       /\ frozenMode'[v] # "UNKNOWN" => d.mode = frozenMode'[v]
                       /\ d.mode = "PICKUP" => d.address = NoAddress
                       /\ d.mode = "DELIVERY" /\ (versions'[v].parent # None
                                                  \/ versions'[v].address # NoAddress) =>
                              d.address = versions'[v].address
      BY <1>5 DEF CustomerAndKitchenAgree, Owned, Stored
    <2> SUFFICES ASSUME NEW k \in 1..n, documents'[k].state = "stored"
                 PROVE  LET d == documents'[k]
                            v == d.version
                        IN  /\ versions'[v].state = "stored" /\ versions'[v].order = d.order
                            /\ versions'[v].confirmed
                            /\ d.mode # "UNKNOWN"
                            /\ frozenMode[v] # "UNKNOWN" => d.mode = frozenMode[v]
                            /\ d.mode = "PICKUP" => d.address = NoAddress
                            /\ d.mode = "DELIVERY" /\ (versions'[v].parent # None
                                                       \/ versions'[v].address # NoAddress) =>
                                   d.address = versions'[v].address
      BY <1>1
    <2>1. k \in StoredDocuments'
      BY <1>5 DEF StoredDocuments
    <2>2. /\ documents[k].state = "stored" /\ documents'[k] = documents[k]
          /\ versions'[documents[k].version] = versions[documents[k].version]
      BY <1>13, <2>1 DEF StoredDocuments
    <2> QED
      BY <2>2 DEF ConfirmInv, CustomerAndKitchenAgree, Owned, Stored
  <1>16. DocumentsFollowTheStands'
    <2>1. ASSUME NEW k \in StoredDocuments'
          PROVE  /\ orders'[documents'[k].order].effective # None
                 /\ StandOf(k)' <= versions'[orders'[documents'[k].order].effective].number
      <3> DEFINE p == documents[k].order
                 e == orders[p].effective
      <3>1. e # None /\ StandOf(k) <= versions[e].number
        BY <1>13 DEF ConfirmInv, DocumentsFollowTheStands
      <3>2. p \in Orders /\ p # o /\ e \in Versions /\ Owned(p, e)
        BY <1>13, <3>1, Rows
      <3>3. orders'[p] = orders[p] /\ versions'[e] = versions[e]
        BY <1>9, <3>2 DEF Owned
      <3>4. documents'[k].order = p /\ StandOf(k)' = StandOf(k)
        BY <1>13, <1>14
      <3> QED
        BY <3>1, <3>3, <3>4
    <2>2. ASSUME NEW k \in StoredDocuments', NEW l \in StoredDocuments',
                 k < l, documents'[k].order = documents'[l].order
          PROVE  StandOf(k)' < StandOf(l)'
      BY <1>13, <1>14, <2>2 DEF ConfirmInv, DocumentsFollowTheStands
    <2> QED
      BY <2>1, <2>2 DEF DocumentsFollowTheStands
  <1>17. MessagesFollowTheStands'
    <2>1. \A m \in Messages' : /\ m \in Messages /\ outbox'[m] = outbox[m]
                               /\ outbox[m] \in StoredDocuments'
      <3> SUFFICES ASSUME NEW m \in Messages'
                   PROVE  /\ m \in Messages /\ outbox'[m] = outbox[m]
                          /\ outbox[m] \in StoredDocuments'
        OBVIOUS
      <3>1. m \in Messages /\ documents[outbox[m]].order # o /\ m \in 1..N
        BY <1>8 DEF Messages
      <3>2. outbox[m] \in StoredDocuments
        BY <3>1 DEF ConfirmInv, MessagesFollowTheStands
      <3> QED
        BY <1>6, <1>7, <3>1, <3>2
    <2>2. ASSUME NEW l \in Messages', NEW m \in Messages', l < m,
                 documents'[outbox[l]].order = documents'[outbox[m]].order
          PROVE  StandOf(outbox[l]) < StandOf(outbox[m])
      <3>1. documents[outbox[l]].order = documents[outbox[m]].order
        BY <1>13, <2>1, <2>2
      <3> QED
        BY <2>1, <2>2, <3>1 DEF ConfirmInv, MessagesFollowTheStands
    <2>3. \A m \in Messages' :
            versions'[documents'[outbox'[m]].version].number = StandOf(outbox[m])
      BY <1>13, <2>1 DEF StandOf
    <2> QED
      BY <2>1, <2>2, <2>3 DEF MessagesFollowTheStands, StandOf
  <1> QED
    BY <1>10, <1>11, <1>12, <1>15, <1>16, <1>17 DEF ConfirmInv

-----------------------------------------------------------------------------
(* The invariant, and what the runs check. *)

\* A database may begin with one order from before the contexts knew a mode.
OldOrder(o, v, i, f, a) ==
    /\ orders = [p \in Orders |->
          IF p = o THEN [NoOrder EXCEPT !.state = "active", !.inquiry = i]
                   ELSE NoOrder]
    /\ versions = [w \in Versions |->
          IF w = v THEN [NoVersion EXCEPT !.state = "stored", !.order = o,
                           !.number = 1, !.facts = f, !.address = a]
                   ELSE NoVersion]

LEMMA OldOrderIsSound ==
    ASSUME NEW o \in Orders, NEW v \in Versions, NEW i \in Inquiries, NEW f \in Facts,
           NEW a \in Addresses,
           OldOrder(o, v, i, f, a),
           pauses = [p \in Orders |-> <<>>]
    PROVE  /\ CoreInv
           /\ \A w \in Versions : Stored(w) => versions[w].address \in Addresses
           /\ \A p \in Orders : Exists(p) => orders[p].inquiry # None
PROOF
  <1> DEFINE root == [NoOrder EXCEPT !.state = "active", !.inquiry = i]
             first == [NoVersion EXCEPT !.state = "stored", !.order = o,
                         !.number = 1, !.facts = f, !.address = a]
  <1>1. /\ root \in OrderRow /\ NoOrder \in OrderRow
        /\ root.state = "active" /\ root.candidate = None /\ root.effective = None
        /\ root.inquiry = i
        /\ NoOrder.state = "unborn" /\ NoOrder.candidate = None /\ NoOrder.effective = None
    BY DEF NoOrder, OrderRow, Optional
  <1>2. \A d \in VersionRow :
           [d EXCEPT !.state = "stored", !.order = o,
                     !.number = 1, !.facts = f, !.address = a] \in VersionRow
    BY DEF VersionRow, Optional
  <1>3. /\ first \in VersionRow /\ NoVersion \in VersionRow
        /\ first.state = "stored" /\ first.order = o /\ first.number = 1
        /\ first.parent = None /\ first.address = a
        /\ NoVersion.state = "unborn"
    <2>1. NoVersion \in VersionRow
      BY DEF NoVersion, VersionRow, Optional
    <2>2. first \in VersionRow
      BY <1>2, <2>1
    <2> QED
      BY <2>1, <2>2 DEF NoVersion
  <1> HIDE DEF root, first
  <1>4. /\ orders[o] = root /\ versions[v] = first
        /\ \A p \in Orders : p # o => orders[p] = NoOrder
        /\ \A w \in Versions : w # v => versions[w] = NoVersion
        /\ orders \in [Orders -> OrderRow] /\ versions \in [Versions -> VersionRow]
    BY <1>1, <1>3 DEF root, first, OldOrder
  <1>5. TypeOK
    <2>1. <<>> \in Seq(PauseEvent)
      OBVIOUS
    <2> QED
      BY <1>4, <2>1 DEF TypeOK
  <1>6. /\ VersionsOf(o) = {v} /\ \A p \in Orders : p # o => VersionsOf(p) = {}
        /\ \A w \in Versions : Stored(w) => w = v
    BY <1>3, <1>4 DEF VersionsOf, Owned, Stored
  <1>7. NumbersOf(o) = 1..1 /\ \A p \in Orders : p # o => NumbersOf(p) = 1..0
    BY <1>3, <1>4, <1>6 DEF NumbersOf
  <1>8. LatestNumber(o) = 1 /\ \A p \in Orders : p # o => LatestNumber(p) = 0
    <2>1. (CHOOSE m \in (1..1) \cup {0} : IsMaxOf(m, (1..1) \cup {0})) = 1
      BY MaxOfInterval
    <2>2. (CHOOSE m \in (1..0) \cup {0} : IsMaxOf(m, (1..0) \cup {0})) = 0
      BY MaxOfInterval
    <2> QED
      BY <1>7, <2>1, <2>2 DEF LatestNumber
  <1>9. \A p \in Orders : Gapless(p)
    <2>1. ASSUME NEW p \in Orders  PROVE Gapless(p)
      <3>1. CASE p = o
        <4>1. LatestNumber(p) \in Nat /\ NumbersOf(p) = 1..LatestNumber(p)
          BY <1>7, <1>8, <3>1
        <4>2. \A w, u \in VersionsOf(p) : w = u
          BY <1>6, <3>1
        <4> QED
          BY <4>1, <4>2 DEF Gapless
      <3>2. CASE p # o
        <4>1. NumbersOf(p) = 1..0
          BY <1>7, <3>2
        <4>2. LatestNumber(p) = 0
          BY <1>8, <3>2
        <4>3. VersionsOf(p) = {}
          BY <1>6, <3>2
        <4> QED
          BY <4>1, <4>2, <4>3 DEF Gapless
      <3> QED
        BY <3>1, <3>2
    <2> QED
      BY <2>1
  <1>10. \A p \in Orders : /\ Exists(p) => p = o
                           /\ orders[p].candidate = None /\ orders[p].effective = None
    BY <1>1, <1>4 DEF Exists
  <1>11. VersionsHaveOwners /\ PointersAreOwned /\ EffectiveIsPrinted /\ LineageStaysInOrder
    BY <1>1, <1>3, <1>4, <1>6, <1>10
    DEF VersionsHaveOwners, PointersAreOwned, EffectiveIsPrinted, LineageStaysInOrder, Exists
  <1>12. NewestIsPointedAt
    BY <1>8, <1>10 DEF NewestIsPointedAt
  <1>13. CoreInv
    BY <1>5, <1>8, <1>9, <1>10, <1>11, <1>12 DEF CoreInv
  <1>14. \A p \in Orders : Exists(p) => orders[p].inquiry # None
    BY <1>1, <1>4, <1>10, NoneAssumption
  <1> QED
    BY <1>3, <1>4, <1>6, <1>13, <1>14

LEMMA ConfirmInitInv == ConfirmInit => ConfirmInv
PROOF
  <1> SUFFICES ASSUME ConfirmInit  PROVE ConfirmInv
    OBVIOUS
  <1>1. /\ documents = <<>> /\ outbox = <<>>
        /\ customer \in [Inquiries -> Customer]
        /\ frozenMode = [v \in Versions |-> "UNKNOWN"]
    BY DEF ConfirmInit
  <1>2. /\ CoreInv
        /\ \A w \in Versions : Stored(w) => versions[w].address \in Addresses
        /\ \A p \in Orders : Exists(p) => orders[p].inquiry # None
    <2>1. CASE orders = [o \in Orders |-> NoOrder] /\ versions = [v \in Versions |-> NoVersion]
      <3>1. Init
        BY <2>1 DEF ConfirmInit, Init
      <3>2. /\ \A w \in Versions : ~ Stored(w)
            /\ \A p \in Orders : ~ Exists(p)
        BY <2>1 DEF Stored, NoVersion, Exists, NoOrder
      <3> QED
        BY <3>1, <3>2, InitInv
    <2>2. CASE \E o \in Orders, v \in Versions, i \in Inquiries, f \in Facts, a \in Addresses :
                 OldOrder(o, v, i, f, a)
      <3>1. PICK o \in Orders, v \in Versions, i \in Inquiries, f \in Facts, a \in Addresses :
                 OldOrder(o, v, i, f, a)
        BY <2>2
      <3>2. pauses = [p \in Orders |-> <<>>]
        BY DEF ConfirmInit
      <3> QED
        BY <3>1, <3>2, OldOrderIsSound
    <2> QED
      BY <2>1, <2>2 DEF ConfirmInit, OldOrder
  <1>3. \A v \in Versions : Stored(v) => ContextIsWhole(v)
    BY <1>1, <1>2 DEF ContextIsWhole
  <1>4. MailTypes
    BY <1>1 DEF MailTypes, Modes
  <1>5. StoredDocuments = {} /\ Messages = {} /\ Len(documents) = 0
    BY <1>1 DEF StoredDocuments, Messages
  <1>6. CustomerAndKitchenAgree /\ DocumentsFollowTheStands /\ MessagesFollowTheStands
    BY <1>5 DEF CustomerAndKitchenAgree, DocumentsFollowTheStands, MessagesFollowTheStands
  <1> QED
    BY <1>2, <1>3, <1>4, <1>6 DEF ConfirmInv

LEMMA ConfirmInvariant == ConfirmSpec => []ConfirmInv
PROOF
  <1>1. ConfirmInv /\ [ConfirmNext]_confirmVars => ConfirmInv'
    <2> SUFFICES ASSUME ConfirmInv, [ConfirmNext]_confirmVars  PROVE ConfirmInv'
      OBVIOUS
    <2>1. CASE UNCHANGED confirmVars
      <3>1. CoreInv'
        BY <2>1, NextKeepsInv DEF ConfirmInv, confirmVars
      <3>2. /\ MailTypes'
            /\ \A v \in Versions : Stored(v)' => ContextIsWhole(v)'
            /\ \A o \in Orders : Exists(o)' => orders'[o].inquiry # None
            /\ CustomerAndKitchenAgree'
            /\ DocumentsFollowTheStands'
            /\ MessagesFollowTheStands'
        BY <2>1 DEF ConfirmInv, MailTypes, ContextIsWhole, CustomerAndKitchenAgree,
                    DocumentsFollowTheStands, MessagesFollowTheStands, StoredDocuments,
                    StandOf, Messages, Stored, Owned, Exists, coreVars, confirmVars
      <3> QED
        BY <3>1, <3>2 DEF ConfirmInv
    <2>2. CASE ConfirmNext
      BY <2>2, ConvertKeeps, ReviseKeeps, OperateKeeps, PrepareKeeps, SendMailKeeps, PurgeKeeps,
         CustomerKeeps DEF ConfirmNext
    <2> QED
      BY <2>1, <2>2
  <1> QED
    BY <1>1, ConfirmInitInv, PTL DEF ConfirmSpec

\* Several documents of one version do not exist, so a set of them has at most one.
LEMMA AtMostOne ==
    ASSUME NEW n \in Nat, NEW S \in SUBSET (1..n), \A k, l \in S : k = l
    PROVE  Cardinality(S) <= 1
PROOF
  <1>1. CASE S = {}
    BY <1>1, FS_EmptySet
  <1>2. CASE S # {}
    <2>1. PICK k \in S : TRUE
      BY <1>2
    <2>2. S = {k}
      BY <2>1
    <2>3. Cardinality({k}) = 1
      BY FS_Singleton
    <2> QED
      BY <2>2, <2>3
  <1> QED
    BY <1>1, <1>2

\* MailFollowsTheOrder for any number of orders, versions, documents and messages:
\* neither the order of prints and changes, nor what becomes of the inquiry, lets the
\* customer have another stand than the kitchen, or the same one twice.
THEOREM CustomersMailFollowsTheOrder == ConfirmSpec => []MailFollowsTheOrder
PROOF
  <1>1. ConfirmInv => MailFollowsTheOrder
    <2> SUFFICES ASSUME ConfirmInv  PROVE MailFollowsTheOrder
      OBVIOUS
    <2>1. ConfirmTypeOK
      <3>1. outbox \in Seq(0..Len(documents))
        <4>1. outbox \in [1..Len(outbox) -> 0..Len(documents)] /\ Len(outbox) \in Nat
          BY DEF ConfirmInv, MailTypes
        <4> QED
          BY <4>1, FunctionIsSequence
      <3> QED
        BY <3>1 DEF ConfirmInv, CoreInv, MailTypes, ConfirmTypeOK
    <2>2. \A n \in Messages : n \in Nat /\ outbox[n] \in StoredDocuments
      BY DEF ConfirmInv, MessagesFollowTheStands, Messages
    <2>3. NothingConfirmedTwice
      <3>1. ASSUME NEW v \in Versions  PROVE Cardinality(DocumentOf(v)) <= 1
        <4>1. DocumentOf(v) \in SUBSET (1..Len(documents)) /\ Len(documents) \in Nat
          BY DEF DocumentOf, ConfirmInv, MailTypes
        <4>2. \A k, l \in DocumentOf(v) : k = l
          BY OneDocumentPerVersion DEF DocumentOf, StoredDocuments
        <4> QED
          BY <4>1, <4>2, AtMostOne
      <3>2. ASSUME NEW m \in Messages, NEW n \in Messages, outbox[m] = outbox[n]
            PROVE  m = n
        <4>1. StandOf(outbox[m]) \in Nat
          BY <2>2, Rows
        <4>2. ~ (m < n) /\ ~ (n < m)
          BY <3>2, <4>1 DEF ConfirmInv, MessagesFollowTheStands
        <4> QED
          BY <2>2, <4>2
      <3> QED
        BY <3>1, <3>2 DEF NothingConfirmedTwice
    <2>4. SendsFollowTheStands
      <3>1. \A n \in Messages :
              versions[documents[outbox[n]].version].order = documents[outbox[n]].order
        BY <2>2, Rows
      <3> QED
        BY <3>1 DEF SendsFollowTheStands, ConfirmInv, MessagesFollowTheStands, StandOf
    <2>5. PurgeLeavesNoMail
      <3>1. \A k \in StoredDocuments : Exists(documents[k].order)
        <4>1. \A k \in StoredDocuments :
                /\ documents[k].version \in Versions
                /\ Owned(documents[k].order, documents[k].version)
          BY Rows
        <4> QED
          BY <4>1 DEF ConfirmInv, CoreInv, VersionsHaveOwners, Owned
      <3> QED
        BY <2>2, <3>1 DEF PurgeLeavesNoMail, StoredDocuments
    <2> QED
      BY <2>1, <2>3, <2>4, <2>5 DEF MailFollowsTheOrder, ConfirmInv
  <1> QED
    BY <1>1, ConfirmInvariant, PTL

\* What the panel offers to freeze is what the Core freezes, or the mode was changed.
LEMMA PreviewsAreDocuments == ConfirmInv => PreviewIsTheDocument
PROOF
  <1> SUFFICES ASSUME ConfirmInv,
                      NEW o \in Orders,
                      OffersDocument(o)
               PROVE  LET v == orders[o].effective
                          r == RecipientOf(o)
                      IN  IF frozenMode[v] \in {"UNKNOWN", CustomerOf(o).mode}
                          THEN Eligible(o, r) /\ r = PreviewedOf(o)
                          ELSE /\ r.mode = frozenMode[v]
                               /\ \/ Eligible(o, r)
                                  \/ r.mode = "DELIVERY" /\ versions[v].address = NoAddress
    BY DEF PreviewIsTheDocument
  <1> DEFINE e == orders[o].effective
             c == CustomerOf(o)
             told == versions[e].parent # None \/ versions[e].address # NoAddress
  <1>1. Eligible(o, PreviewedOf(o)) /\ e # None
    BY DEF OffersDocument, Eligible
  <1>2. e \in Versions /\ Stored(e) /\ ContextIsWhole(e) /\ frozenMode[e] \in Modes
    <2>1. e \in Versions /\ Owned(o, e)
      BY <1>1, Rows
    <2> QED
      BY <2>1 DEF Owned, Stored, ConfirmInv, MailTypes
  <1>3. ASSUME frozenMode[e] \in {"UNKNOWN", c.mode}
        PROVE  Eligible(o, RecipientOf(o)) /\ RecipientOf(o) = PreviewedOf(o)
    <2>1. (IF e # None /\ frozenMode[e] # "UNKNOWN" THEN frozenMode[e] ELSE c.mode) = c.mode
      BY <1>3
    <2>2. /\ RecipientOf(o) = IF told \/ frozenMode[e] # "UNKNOWN"
                              THEN ExactRecipient(e, c.mode) ELSE LiveRecipient(c, c.mode)
          /\ PreviewedOf(o) = IF told THEN ExactRecipient(e, c.mode)
                                      ELSE LiveRecipient(c, c.mode)
      BY <1>1, <2>1 DEF RecipientOf, PreviewedOf
    <2>3. ASSUME ~ told, frozenMode[e] # "UNKNOWN"
          PROVE  ExactRecipient(e, c.mode) = LiveRecipient(c, c.mode)
      <3>1. frozenMode[e] = "PICKUP"
        BY <1>2, <2>3 DEF ContextIsWhole, Modes
      <3>2. c.mode = "PICKUP"
        BY <1>3, <3>1
      <3> QED
        BY <3>2 DEF ExactRecipient, LiveRecipient
    <2>4. RecipientOf(o) = PreviewedOf(o)
      BY <2>2, <2>3
    <2> QED
      BY <1>1, <2>4
  <1>4. ASSUME frozenMode[e] \notin {"UNKNOWN", c.mode}
        PROVE  /\ RecipientOf(o).mode = frozenMode[e]
               /\ \/ Eligible(o, RecipientOf(o))
                  \/ RecipientOf(o).mode = "DELIVERY" /\ versions[e].address = NoAddress
    <2>1. RecipientOf(o) = ExactRecipient(e, frozenMode[e])
      BY <1>1, <1>4 DEF RecipientOf
    <2>2. /\ RecipientOf(o).mode = frozenMode[e] /\ frozenMode[e] # "UNKNOWN"
          /\ frozenMode[e] = "DELIVERY" => RecipientOf(o).address = versions[e].address
      BY <1>4, <2>1 DEF ExactRecipient
    <2> QED
      BY <1>1, <2>2 DEF Eligible
  <1> QED
    BY <1>3, <1>4

\* The latest document is that of the effective stand, if it has one.
LEMMA LatestOfTheStand ==
    ASSUME ConfirmInv, NEW o \in Orders, orders[o].effective # None,
           NEW k \in StoredDocuments, documents[k].version = orders[o].effective
    PROVE  k \in DocumentsOf(o) /\ LatestDocument(o) = k
PROOF
  <1>1. k \in 1..Len(documents) /\ documents[k].order = o /\ k \in DocumentsOf(o)
    <2>1. /\ Owned(o, orders[o].effective)
          /\ Owned(documents[k].order, documents[k].version)
      BY Rows
    <2>2. documents[k].order = o
      BY <2>1 DEF Owned
    <2> QED
      BY <2>2 DEF StoredDocuments, DocumentsOf
  <1>2. ASSUME NEW l \in DocumentsOf(o)  PROVE l <= k
    <2>1. l \in StoredDocuments /\ documents[l].order = o /\ l \in Nat /\ k \in Nat
      BY <1>1 DEF DocumentsOf, StoredDocuments
    <2>2. /\ StandOf(l) <= StandOf(k)
          /\ StandOf(l) \in Nat /\ StandOf(k) \in Nat
      BY <1>1, <2>1, Rows DEF ConfirmInv, DocumentsFollowTheStands, StandOf
    <2>3. ~ (k < l)
      BY <1>1, <2>1, <2>2 DEF ConfirmInv, DocumentsFollowTheStands
    <2> QED
      BY <2>1, <2>3
  <1>3. DocumentsOf(o) \in SUBSET Nat
    BY DEF DocumentsOf
  <1>4. \A j \in DocumentsOf(o) : (\A l \in DocumentsOf(o) : l <= j) => j = k
    BY <1>1, <1>2, <1>3
  <1>5. (CHOOSE j \in DocumentsOf(o) : \A l \in DocumentsOf(o) : l <= j) = k
    <2> HIDE DEF DocumentsOf
    <2> QED
      BY <1>1, <1>2, <1>4
  <1> QED
    BY <1>1, <1>5 DEF LatestDocument

LEMMA LatestIsShown == ConfirmInv => LatestIsTheStands
PROOF
  <1> SUFFICES ASSUME ConfirmInv, NEW o \in Orders, orders[o].effective # None,
                      NEW k \in DocumentOf(orders[o].effective)
               PROVE  documents[LatestDocument(o)].version = orders[o].effective
    BY DEF LatestIsTheStands
  <1>1. k \in StoredDocuments /\ documents[k].version = orders[o].effective
    BY DEF DocumentOf, StoredDocuments
  <1> QED
    BY <1>1, LatestOfTheStand

\* Whatever the Core would send is what the panel offers to send.
LEMMA SendableIsOffered == ConfirmInv => WhatCanBeSentIsOffered
PROOF
  <1> SUFFICES ASSUME ConfirmInv,
                      NEW o \in Orders, NEW k \in 1..Len(documents),
                      k \in DocumentsOf(o), ~ Sent(k), Sendable(o, k)
               PROVE  k \in OffersSend(o)
    BY DEF WhatCanBeSentIsOffered
  <1>1. /\ k \in StoredDocuments
        /\ documents[k].version = orders[o].effective
        /\ orders[o].effective # None /\ ActivePause(o) = 0
    BY DEF DocumentsOf, StoredDocuments, Sendable, Ready
  <1>2. LatestDocument(o) = k
    BY <1>1, LatestOfTheStand
  <1> QED
    BY <1>1, <1>2 DEF OffersSend

\* PageFollowsTheDocuments for any number of orders, versions and documents: the order
\* page, which decides from its own reads, previews the document the Core freezes unless
\* the mode of delivery was changed since, reads the document of the effective stand
\* whenever there is one, and so leaves out nothing the Core would send.
THEOREM OrderPageFollowsTheDocuments == ConfirmSpec => []PageFollowsTheDocuments
PROOF
  <1>1. ConfirmInv => PageFollowsTheDocuments
    BY PreviewsAreDocuments, LatestIsShown, SendableIsOffered DEF PageFollowsTheDocuments
  <1> QED
    BY <1>1, ConfirmInvariant, PTL

(****************************************************************************)
(* The contacts, for any number of profiles and aliases.                     *)
(****************************************************************************)

\* merged_into_id followed n steps, from what g says of n - 1.
StepOf(m, g, n) ==
    [q \in Profiles |-> IF n = 0 \/ q \notin DOMAIN m \/ m[q] = NoProfile
                        THEN q ELSE g[n - 1][m[q]]]

IsChain(m, g, k) == g = [n \in 0..k |-> StepOf(m, g, n)]

Chain(m, k) == CHOOSE g : IsChain(m, g, k)

LEMMA RootIsChained ==
    \A p : RootOf(p) = Chain(mergedInto, Cardinality(StoredProfiles))
                            [Cardinality(StoredProfiles)][p]
BY DEF RootOf, Followed, Chain, IsChain, StepOf, StoredProfiles

LEMMA RootIsChainedAfter ==
    \A p : RootOf(p)' = Chain(mergedInto', Cardinality(StoredProfiles)')
                            [Cardinality(StoredProfiles)'][p]
BY DEF RootOf, Followed, Chain, IsChain, StepOf, StoredProfiles

LEMMA ChainExists == ASSUME NEW m, NEW k \in Nat PROVE \E g : IsChain(m, g, k)
<1> DEFINE T == {n \in Nat : ~ \E g : IsChain(m, g, n)}
<1>1. SUFFICES ASSUME T # {} PROVE FALSE
    OBVIOUS
<1>2. PICK n \in T : \A j \in T : n <= j
    BY <1>1, LeastExists, T \subseteq Nat
<1>3. n \in Nat /\ ~ \E g : IsChain(m, g, n)
    OBVIOUS
<1>4. CASE n = 0
    <2> DEFINE h == [i \in 0..0 |-> [q \in Profiles |-> q]]
    <2>1. \A i \in 0..0 : StepOf(m, h, i) = [q \in Profiles |-> q]
        BY DEF StepOf
    <2>2. IsChain(m, h, 0)
        BY <2>1 DEF IsChain
    <2> QED
        BY <2>2, <1>3, <1>4
<1>5. CASE n # 0
    <2>1. n - 1 \in Nat /\ n - 1 \notin T
        BY <1>2, <1>3, <1>5
    <2>2. PICK g : IsChain(m, g, n - 1)
        BY <2>1
    <2> DEFINE h == [i \in 0..n |-> IF i = n THEN StepOf(m, g, n) ELSE g[i]]
    <2>3. \A i \in 0..n : i # 0 => i - 1 \in 0..n /\ i - 1 # n /\ h[i - 1] = g[i - 1]
        BY <1>3
    <2>4. \A i \in 0..n : StepOf(m, h, i) = StepOf(m, g, i)
        <3> HIDE DEF h
        <3> QED
            BY <2>3 DEF StepOf
    <2>5. \A i \in 0..n : i # n => g[i] = StepOf(m, g, i)
        BY <2>2, <1>3 DEF IsChain
    <2>6. ASSUME NEW i \in 0..n PROVE h[i] = StepOf(m, g, i)
        <3>1. h[i] = IF i = n THEN StepOf(m, g, n) ELSE g[i]
            OBVIOUS
        <3> HIDE DEF h
        <3>2. CASE i = n
            BY <3>1, <3>2
        <3>3. CASE i # n
            BY <2>5, <3>1, <3>3
        <3> QED
            BY <3>2, <3>3
    <2>7. \A i \in 0..n : h[i] = StepOf(m, h, i)
        BY <2>4, <2>6
    <2>8. h = [i \in 0..n |-> h[i]]
        OBVIOUS
    <2>9. h = [i \in 0..n |-> StepOf(m, h, i)]
        <3> HIDE DEF h
        <3> QED
            BY <2>7, <2>8
    <2> QED
        BY <2>9, <1>3 DEF IsChain
<1> QED
    BY <1>4, <1>5

LEMMA ChainSteps ==
    ASSUME NEW m, NEW k \in Nat, NEW n \in 0..k, NEW q \in Profiles
    PROVE  Chain(m, k)[n][q] = IF n = 0 \/ q \notin DOMAIN m \/ m[q] = NoProfile
                               THEN q ELSE Chain(m, k)[n - 1][m[q]]
<1>1. IsChain(m, Chain(m, k), k)
    BY ChainExists DEF Chain
<1>2. PICK g : g = Chain(m, k)
    OBVIOUS
<1>3. g = [i \in 0..k |-> StepOf(m, g, i)]
    BY <1>1, <1>2 DEF IsChain
<1>4. g[n] = StepOf(m, g, n)
    BY <1>3
<1> QED
    BY <1>2, <1>4 DEF StepOf

\* Every profile goes into an older one that is stored: the descent ends.
Descends(m) ==
    \A q \in DOMAIN m : m[q] # NoProfile => m[q] \in DOMAIN m /\ m[q] < q

Younger(S, q) == Cardinality({r \in S : r < q})

LEMMA RanksDescend ==
    ASSUME NEW S, IsFiniteSet(S), S \subseteq Nat, NEW q \in S
    PROVE  /\ Younger(S, q) \in Nat
           /\ Cardinality(S) \in Nat
           /\ Younger(S, q) < Cardinality(S)
           /\ \A r \in S : r < q => Younger(S, r) < Younger(S, q)
<1> DEFINE B(r) == {s \in S : s < r}
<1>1. \A r \in S : /\ IsFiniteSet(B(r))
                   /\ Cardinality(B(r)) \in Nat
                   /\ Cardinality(B(r)) <= Cardinality(S)
                   /\ Cardinality(B(r)) = Cardinality(S) => B(r) = S
    BY FS_Subset, FS_CardinalityType
<1>2. Cardinality(S) \in Nat
    BY FS_CardinalityType
<1>3. q \notin B(q)
    OBVIOUS
<1>4. Younger(S, q) < Cardinality(S)
    BY <1>1, <1>2, <1>3 DEF Younger
<1>5. ASSUME NEW r \in S, r < q PROVE Younger(S, r) < Younger(S, q)
    <2>1. B(r) \subseteq B(q) /\ r \in B(q) /\ r \notin B(r)
        <3>1. \A s \in S : s \in Nat
            OBVIOUS
        <3>2. \A s \in S : s < r => s < q
            BY <1>5, <3>1
        <3>3. ~ (r < r)
            BY <3>1
        <3> QED
            BY <1>5, <3>2, <3>3
    <2>2. IsFiniteSet(B(q)) /\ Cardinality(B(q)) \in Nat /\ Cardinality(B(r)) \in Nat
        BY <1>1
    <2> HIDE DEF B
    <2>3. /\ Cardinality(B(r)) <= Cardinality(B(q))
          /\ Cardinality(B(r)) = Cardinality(B(q)) => B(r) = B(q)
        BY <2>1, <2>2, FS_Subset
    <2>4. Cardinality(B(r)) < Cardinality(B(q))
        BY <2>1, <2>2, <2>3
    <2> QED
        BY <2>4 DEF Younger, B
<1> QED
    BY <1>1, <1>2, <1>4, <1>5 DEF Younger

\* What is found at the end of the chain, from every profile.
LEMMA ChainEnds ==
    ASSUME NEW m, IsFiniteSet(DOMAIN m), DOMAIN m \subseteq Profiles, Descends(m),
           NEW c, c = Cardinality(DOMAIN m)
    PROVE  \A q \in DOMAIN m :
             /\ Chain(m, c)[c][q] \in DOMAIN m
             /\ m[Chain(m, c)[c][q]] = NoProfile
             /\ Chain(m, c)[c][q] = IF m[q] = NoProfile THEN q ELSE Chain(m, c)[c][m[q]]
<1> DEFINE S == DOMAIN m
           F == Chain(m, c)
           Settled(q) == \A n \in 0..c : n >= Younger(S, q) =>
                            /\ F[n][q] \in S
                            /\ m[F[n][q]] = NoProfile
                            /\ F[n][q] = F[c][q]
           Goes(q) == F[c][q] = IF m[q] = NoProfile THEN q ELSE F[c][m[q]]
           T == {q \in S : ~ (Settled(q) /\ Goes(q))}
<1>1. S \subseteq Nat /\ Profiles \subseteq Nat
    BY ProfilesAreOrdered
<1>2. c \in Nat
    BY FS_CardinalityType
<1>3. \A n \in 0..c, q \in S :
        F[n][q] = IF n = 0 \/ m[q] = NoProfile THEN q ELSE F[n - 1][m[q]]
    <2> SUFFICES ASSUME NEW n \in 0..c, NEW q \in S
                 PROVE  F[n][q] = IF n = 0 \/ m[q] = NoProfile THEN q ELSE F[n - 1][m[q]]
        OBVIOUS
    <2>1. q \in Profiles
        OBVIOUS
    <2> QED
        BY <1>2, <2>1, ChainSteps
<1>4. \A q \in S : /\ Younger(S, q) \in Nat
                   /\ Younger(S, q) < c
                   /\ \A r \in S : r < q => Younger(S, r) < Younger(S, q)
    <2> HIDE DEF S
    <2> QED
        BY <1>1, RanksDescend, IsFiniteSet(S), c = Cardinality(S) DEF S
<1>5. SUFFICES T = {}
    <2>1. \A q \in S : Settled(q) /\ Goes(q) /\ c >= Younger(S, q)
        BY <1>2, <1>4, <1>5
    <2> QED
        BY <1>2, <2>1
<1>6. SUFFICES ASSUME T # {} PROVE FALSE
    OBVIOUS
<1>7. PICK q \in T : \A r \in T : q <= r
    BY <1>1, <1>6, LeastExists, T \subseteq Nat
<1>8. q \in S /\ ~ (Settled(q) /\ Goes(q)) /\ q \in Nat
    BY <1>1
<1>9. CASE m[q] = NoProfile
    <2>1. \A n \in 0..c : F[n][q] = q
        BY <1>3, <1>8, <1>9
    <2> QED
        BY <1>2, <1>8, <1>9, <2>1
<1>10. CASE m[q] # NoProfile
    <2>1. PICK r : r = m[q]
        OBVIOUS
    <2>2. r \in S /\ r < q /\ r \in Nat
        BY <1>1, <1>8, <1>10, <2>1 DEF Descends
    <2>3. Settled(r) /\ Goes(r)
        <3>1. ~ (q <= r)
            BY <1>8, <2>2
        <3> QED
            BY <1>7, <2>2, <3>1
    <2>4. /\ Younger(S, q) \in Nat /\ Younger(S, r) \in Nat
          /\ Younger(S, r) < Younger(S, q) /\ Younger(S, q) < c
        BY <1>4, <1>8, <2>2
    <2>5. \A n \in 0..c : n # 0 => F[n][q] = F[n - 1][r]
        BY <1>3, <1>8, <1>10, <2>1
    <2>6. \A n \in 0..c : n >= Younger(S, r) =>
              F[n][r] \in S /\ m[F[n][r]] = NoProfile /\ F[n][r] = F[c][r]
        BY <2>3
    <2> HIDE DEF F, S
    <2>7. \A n \in 0..c : n >= Younger(S, q) =>
              n # 0 /\ n - 1 \in 0..c /\ n - 1 >= Younger(S, r)
        BY <1>2, <2>4
    <2>8. \A n \in 0..c : n >= Younger(S, q) =>
              F[n][q] \in S /\ m[F[n][q]] = NoProfile /\ F[n][q] = F[c][r]
        BY <2>5, <2>6, <2>7
    <2>9. F[c][q] = F[c][r]
        BY <1>2, <2>4, <2>8
    <2> QED
        BY <1>8, <1>10, <2>1, <2>8, <2>9
<1> QED
    BY <1>9, <1>10

End(m, q) == Chain(m, Cardinality(DOMAIN m))[Cardinality(DOMAIN m)][q]

Forest(m) == IsFiniteSet(DOMAIN m) /\ DOMAIN m \subseteq Profiles /\ Descends(m)

LEMMA EndIsEnd ==
    ASSUME NEW m, Forest(m), NEW q \in DOMAIN m
    PROVE  /\ End(m, q) \in DOMAIN m
           /\ m[End(m, q)] = NoProfile
           /\ End(m, q) = IF m[q] = NoProfile THEN q ELSE End(m, m[q])
BY ChainEnds DEF End, Forest

\* When profiles that are not merged go into one that is not merged either, who
\* ended at one of them ends there, and everybody else where they did.
LEMMA MergeMoves ==
    ASSUME NEW m, NEW n, Forest(m), Forest(n), DOMAIN m \subseteq DOMAIN n,
           NEW L, L \subseteq DOMAIN m, NEW r \in DOMAIN n, r \notin L, n[r] = NoProfile,
           \A l \in L : m[l] = NoProfile,
           \A q \in DOMAIN m : n[q] = IF q \in L THEN r ELSE m[q]
    PROVE  \A q \in DOMAIN m : End(n, q) = IF End(m, q) \in L THEN r ELSE End(m, q)
<1> DEFINE Moved(q) == End(n, q) = IF End(m, q) \in L THEN r ELSE End(m, q)
           T == {q \in DOMAIN m : ~ Moved(q)}
<1>1. DOMAIN m \subseteq Nat
    BY ProfilesAreOrdered DEF Forest
<1>2. r # NoProfile
    BY ProfilesAreOrdered DEF Forest
<1>3. SUFFICES ASSUME T # {} PROVE FALSE
    OBVIOUS
<1>4. PICK q \in T : \A p \in T : q <= p
    <2>1. T \subseteq Nat
        BY <1>1
    <2> HIDE DEF T
    <2> QED
        BY <1>3, <2>1, LeastExists
<1>5. q \in DOMAIN m /\ q \in DOMAIN n /\ q \in Nat /\ ~ Moved(q)
    BY <1>1, <1>4
<1>6. End(m, q) = IF m[q] = NoProfile THEN q ELSE End(m, m[q])
    BY <1>5, EndIsEnd
<1>7. End(n, q) = IF n[q] = NoProfile THEN q ELSE End(n, n[q])
    BY <1>5, EndIsEnd
<1>8. End(n, r) = r
    BY EndIsEnd
<1>9. n[q] = IF q \in L THEN r ELSE m[q]
    BY <1>5
<1>10. CASE m[q] = NoProfile
    BY <1>2, <1>5, <1>6, <1>7, <1>8, <1>9, <1>10
<1>11. CASE m[q] # NoProfile
    <2>1. q \notin L
        BY <1>11
    <2>2. m[q] \in DOMAIN m /\ m[q] < q /\ m[q] \in Nat
        BY <1>1, <1>5, <1>11 DEF Forest, Descends
    <2>3. Moved(m[q])
        <3>1. ~ (q <= m[q])
            BY <1>5, <2>2
        <3> QED
            BY <1>4, <2>2, <3>1
    <2> QED
        BY <1>5, <1>6, <1>7, <1>9, <1>11, <2>1, <2>3
<1> QED
    BY <1>10, <1>11

LEMMA RootIsEnd == \A p : RootOf(p) = End(mergedInto, p)
BY RootIsChained DEF End, StoredProfiles

LEMMA RootIsEndAfter == \A p : RootOf(p)' = End(mergedInto', p)
BY RootIsChainedAfter DEF End, StoredProfiles

LEMMA FoundAreEnds ==
    \A as : Found(as) = {End(mergedInto, owner[a]) : a \in {b \in as : owner[b] # NoProfile}}
BY RootIsEnd DEF Found

LEMMA TogetherEnds ==
    \A a, b : Together(a, b) <=> /\ owner[a] # NoProfile /\ owner[b] # NoProfile
                                 /\ End(mergedInto, owner[a]) = End(mergedInto, owner[b])
BY RootIsEnd DEF Together

LEMMA TogetherEndsAfter ==
    \A a, b : Together(a, b)' <=> /\ owner'[a] # NoProfile /\ owner'[b] # NoProfile
                                  /\ End(mergedInto', owner'[a]) = End(mergedInto', owner'[b])
BY DEF Together, RootOf, Followed, End, Chain, IsChain, StepOf, StoredProfiles

\* What a page holds of the contact it writes: the profile the others go into is
\* stored and older than each of them.
LosersAreYounger ==
    ensuring # NotEnsuring =>
        /\ ensuring.left # {}
        /\ ~ ensuring.create => ensuring.root \in StoredProfiles
        /\ \A p \in ensuring.losers : ~ ensuring.create /\ ensuring.root < p

\* As long as the Core did not write since, what the page has read still is so.
PageIsCurrent ==
    ensuring # NotEnsuring /\ ~ overtaken =>
        /\ ensuring.create => \A a \in ensuring.left : owner[a] = NoProfile
        /\ ~ ensuring.create =>
             /\ \A p \in ensuring.losers \cup {ensuring.root} : mergedInto[p] = NoProfile
             /\ \A a \in ensuring.left : owner[a] # NoProfile =>
                    End(mergedInto, owner[a]) \in ensuring.losers \cup {ensuring.root}

ContactInv == ContactTypeOK /\ Forest(mergedInto) /\ LosersAreYounger /\ PageIsCurrent

\* The old contact of every alias that was in one, followed where it goes.
StaysTogether == \A a, b \in Aliases : Together(a, b) /\ ~ overtaken => Together(a, b)'

LEMMA InitContact == ContactInit => ContactInv
<1> SUFFICES ASSUME ContactInit PROVE ContactInv
    OBVIOUS
<1>1. StoredProfiles = {} /\ DOMAIN mergedInto = {}
    BY DEF ContactInit, StoredProfiles
<1>2. ContactTypeOK
    BY <1>1 DEF ContactInit, ContactTypeOK, NotEnsuring
<1>3. Forest(mergedInto)
    BY <1>1, FS_EmptySet DEF Forest, Descends
<1>4. LosersAreYounger /\ PageIsCurrent
    BY DEF ContactInit, LosersAreYounger, PageIsCurrent
<1> QED
    BY <1>2, <1>3, <1>4 DEF ContactInv

LEMMA RootsFound ==
    ASSUME ContactTypeOK, Forest(mergedInto), NEW as \in SUBSET Aliases
    PROVE  /\ Found(as) \subseteq StoredProfiles
           /\ \A p \in Found(as) : mergedInto[p] = NoProfile
           /\ Found(as) # {} => /\ Winner(as) \in Found(as)
                                /\ \A p \in Found(as) \ {Winner(as)} : Winner(as) < p
<1>1. \A a \in as : owner[a] \in StoredProfiles \cup {NoProfile}
    BY DEF ContactTypeOK
<1>2. \A a \in as : owner[a] # NoProfile =>
          /\ End(mergedInto, owner[a]) \in StoredProfiles
          /\ mergedInto[End(mergedInto, owner[a])] = NoProfile
    BY <1>1, EndIsEnd DEF StoredProfiles
<1>3. /\ Found(as) \subseteq StoredProfiles
      /\ \A p \in Found(as) : mergedInto[p] = NoProfile
    BY <1>2, FoundAreEnds
<1>4. ASSUME Found(as) # {}
      PROVE  /\ Winner(as) \in Found(as)
             /\ \A p \in Found(as) \ {Winner(as)} : Winner(as) < p
    <2>1. PICK S : S = Found(as)
        OBVIOUS
    <2>2. S \subseteq Nat
        BY <1>3, <2>1, ProfilesAreOrdered DEF ContactTypeOK
    <2>3. \E x \in S : \A y \in S : x <= y
        BY <1>4, <2>1, <2>2, LeastExists
    <2>4. Min(S) \in S /\ \A y \in S : Min(S) <= y
        BY <2>3 DEF Min
    <2>5. PICK w : w = Min(S)
        OBVIOUS
    <2>6. ASSUME NEW y \in S, y # w PROVE w < y
        <3>1. w \in Nat /\ y \in Nat /\ w <= y
            BY <2>2, <2>4, <2>5, <2>6
        <3> QED
            BY <2>6, <3>1
    <2>7. w = Winner(as)
        BY <2>1, <2>5 DEF Winner
    <2> QED
        BY <2>1, <2>4, <2>5, <2>6, <2>7
<1> QED
    BY <1>3, <1>4

\* Nothing is merged and no alias moves.
LEMMA ContactsRest ==
    ASSUME UNCHANGED <<mergedInto, owner>> PROVE StaysTogether
BY TogetherEnds, TogetherEndsAfter DEF StaysTogether

LEMMA StartKeeps ==
    ASSUME ContactInv, NEW as \in (SUBSET Aliases) \ {{}}, StartEnsure(as)
    PROVE  ContactInv' /\ StaysTogether
<1> USE DEF ContactInv
<1>1. UNCHANGED <<mergedInto, owner, overtaken>>
    BY DEF StartEnsure
<1>2. as \in SUBSET Aliases /\ as # {}
    OBVIOUS
<1>3. /\ Found(as) \subseteq StoredProfiles
      /\ \A p \in Found(as) : mergedInto[p] = NoProfile
      /\ Found(as) # {} => /\ Winner(as) \in Found(as)
                           /\ \A p \in Found(as) \ {Winner(as)} : Winner(as) < p
    BY <1>2, RootsFound
<1>4. \A a \in as : owner[a] # NoProfile => End(mergedInto, owner[a]) \in Found(as)
    BY FoundAreEnds
<1>5. CASE Found(as) = {}
    <2>1. ensuring' = [root |-> NoProfile, losers |-> {}, left |-> as, create |-> TRUE]
        BY <1>5 DEF StartEnsure
    <2>2. ContactTypeOK'
        BY <1>1, <1>2, <2>1 DEF ContactTypeOK, StoredProfiles
    <2>3. LosersAreYounger'
        BY <1>2, <2>1 DEF LosersAreYounger
    <2>4. PageIsCurrent'
        BY <1>1, <1>4, <1>5, <2>1 DEF PageIsCurrent
    <2> QED
        BY <1>1, <2>2, <2>3, <2>4, ContactsRest
<1>6. CASE Found(as) # {}
    <2>1. ensuring' = [root |-> Winner(as), losers |-> Found(as) \ {Winner(as)},
                       left |-> as, create |-> FALSE]
        BY <1>6 DEF StartEnsure
    <2>2. ContactTypeOK'
        BY <1>1, <1>2, <1>3, <1>6, <2>1 DEF ContactTypeOK, StoredProfiles
    <2>3. LosersAreYounger'
        BY <1>1, <1>2, <1>3, <1>6, <2>1 DEF LosersAreYounger, StoredProfiles
    <2>4. PageIsCurrent'
        BY <1>1, <1>3, <1>4, <1>6, <2>1 DEF PageIsCurrent
    <2> QED
        BY <1>1, <2>2, <2>3, <2>4, ContactsRest
<1> QED
    BY <1>5, <1>6

LEMMA CreateKeeps ==
    ASSUME ContactInv, CreateProfile PROVE ContactInv' /\ StaysTogether
<1> USE DEF ContactInv
<1>1. PICK p \in Profiles \ StoredProfiles :
        /\ mergedInto' = [q \in StoredProfiles \cup {p} |->
                            IF q = p THEN NoProfile ELSE mergedInto[q]]
        /\ ensuring' = [ensuring EXCEPT !.root = p, !.create = FALSE]
    BY DEF CreateProfile
<1>2. ensuring.create /\ UNCHANGED <<owner, overtaken>>
    BY DEF CreateProfile
<1>3. PICK page : page = ensuring
    OBVIOUS
<1>4. /\ page # NotEnsuring /\ page.create /\ page.left # {} /\ page.losers = {}
      /\ page.left \in SUBSET Aliases
    <2>1. page # NotEnsuring
        BY <1>2, <1>3 DEF NotEnsuring
    <2> QED
        BY <1>2, <1>3, <2>1 DEF LosersAreYounger, ContactTypeOK
<1>5. ensuring' = [root |-> p, losers |-> {}, left |-> page.left, create |-> FALSE]
    BY <1>1, <1>3, <1>4 DEF ContactTypeOK
<1>6. /\ StoredProfiles' = StoredProfiles \cup {p} /\ DOMAIN mergedInto' = DOMAIN mergedInto \cup {p}
      /\ mergedInto'[p] = NoProfile
      /\ \A q \in StoredProfiles : mergedInto'[q] = mergedInto[q]
    BY <1>1 DEF StoredProfiles
<1>7. ContactTypeOK'
    BY <1>2, <1>4, <1>5, <1>6 DEF ContactTypeOK
<1>8. Forest(mergedInto')
    <2>1. IsFiniteSet(DOMAIN mergedInto')
        BY <1>6, FS_AddElement DEF Forest
    <2>2. Descends(mergedInto')
        BY <1>6 DEF Forest, Descends, StoredProfiles
    <2> QED
        BY <1>6, <2>1, <2>2 DEF Forest
<1>9. LosersAreYounger'
    BY <1>4, <1>5, <1>6 DEF LosersAreYounger
<1>10. PageIsCurrent'
    BY <1>2, <1>3, <1>4, <1>5, <1>6 DEF PageIsCurrent
<1>11. \A q \in StoredProfiles : End(mergedInto', q) = End(mergedInto, q)
    <2>1. PICK L : L = {}
        OBVIOUS
    <2>2. /\ DOMAIN mergedInto \subseteq DOMAIN mergedInto' /\ p \in DOMAIN mergedInto'
          /\ L \subseteq DOMAIN mergedInto /\ p \notin L
          /\ \A l \in L : mergedInto[l] = NoProfile
          /\ \A q \in DOMAIN mergedInto :
               mergedInto'[q] = IF q \in L THEN p ELSE mergedInto[q]
        BY <1>6, <2>1 DEF StoredProfiles
    <2>3. \A q \in DOMAIN mergedInto :
            End(mergedInto', q) = IF End(mergedInto, q) \in L THEN p ELSE End(mergedInto, q)
        BY <1>6, <1>8, <2>2, MergeMoves
    <2> QED
        BY <2>1, <2>3 DEF StoredProfiles
<1>12. StaysTogether
    BY <1>2, <1>11, TogetherEnds, TogetherEndsAfter DEF StaysTogether, ContactTypeOK
<1> QED
    BY <1>7, <1>8, <1>9, <1>10, <1>12

LEMMA MergeKeeps ==
    ASSUME ContactInv, NEW p \in Profiles, MarkMerged(p)
    PROVE  ContactInv' /\ StaysTogether
<1> USE DEF ContactInv
<1>1. /\ p \in ensuring.losers
      /\ mergedInto' = [mergedInto EXCEPT ![p] = ensuring.root]
      /\ ensuring' = [ensuring EXCEPT !.losers = @ \ {p}]
      /\ UNCHANGED <<owner, overtaken>>
    BY DEF MarkMerged
<1>2. PICK page : page = ensuring
    OBVIOUS
<1>3. /\ page # NotEnsuring /\ ~ page.create /\ page.left # {} /\ page.root < p
      /\ page.root \in StoredProfiles /\ page.losers \in SUBSET StoredProfiles
      /\ page.left \in SUBSET Aliases /\ p \in StoredProfiles
      /\ \A l \in page.losers : page.root < l
    <2>1. page # NotEnsuring
        BY <1>1, <1>2 DEF NotEnsuring
    <2> QED
        BY <1>1, <1>2, <2>1 DEF LosersAreYounger, ContactTypeOK
<1>4. ensuring' = [root |-> page.root, losers |-> page.losers \ {p}, left |-> page.left,
                   create |-> FALSE]
    BY <1>1, <1>2, <1>3 DEF ContactTypeOK
<1>5. /\ StoredProfiles' = StoredProfiles /\ DOMAIN mergedInto' = DOMAIN mergedInto
      /\ \A q \in StoredProfiles : mergedInto'[q] = IF q = p THEN page.root ELSE mergedInto[q]
    BY <1>1, <1>2 DEF StoredProfiles
<1>6. ContactTypeOK'
    BY <1>1, <1>3, <1>4, <1>5 DEF ContactTypeOK
<1>7. Forest(mergedInto')
    <2>1. Descends(mergedInto')
        BY <1>3, <1>5 DEF Forest, Descends, StoredProfiles
    <2> QED
        BY <1>5, <2>1 DEF Forest
<1>8. LosersAreYounger'
    BY <1>3, <1>4, <1>5 DEF LosersAreYounger
<1>9. ASSUME ~ overtaken
      PROVE  /\ \A l \in page.losers \cup {page.root} : mergedInto[l] = NoProfile
             /\ \A a \in page.left : owner[a] # NoProfile =>
                    End(mergedInto, owner[a]) \in page.losers \cup {page.root}
    BY <1>2, <1>3, <1>9 DEF PageIsCurrent
<1>10. page.root # p
    <2>1. page.root \in Nat
        BY <1>3, ProfilesAreOrdered DEF ContactTypeOK
    <2> QED
        BY <1>3, <2>1
<1>11. ASSUME ~ overtaken
       PROVE  \A q \in StoredProfiles :
                End(mergedInto', q) = IF End(mergedInto, q) = p THEN page.root
                                      ELSE End(mergedInto, q)
    <2>1. PICK L : L = {p}
        OBVIOUS
    <2>2. /\ page.root \in DOMAIN mergedInto' /\ page.root \notin L
          /\ L \subseteq DOMAIN mergedInto
          /\ \A l \in L : mergedInto[l] = NoProfile
          /\ \A q \in DOMAIN mergedInto :
               mergedInto'[q] = IF q \in L THEN page.root ELSE mergedInto[q]
        BY <1>1, <1>2, <1>3, <1>5, <1>9, <1>10, <1>11, <2>1 DEF StoredProfiles
    <2>3. mergedInto'[page.root] = NoProfile
        BY <1>3, <1>5, <1>9, <1>10, <1>11
    <2>4. DOMAIN mergedInto \subseteq DOMAIN mergedInto'
        BY <1>5
    <2>5. \A q \in DOMAIN mergedInto :
            End(mergedInto', q) = IF End(mergedInto, q) \in L THEN page.root
                                  ELSE End(mergedInto, q)
        BY <1>7, <2>2, <2>3, <2>4, MergeMoves
    <2> QED
        BY <2>1, <2>5 DEF StoredProfiles
<1>12. PageIsCurrent'
    <2> SUFFICES ASSUME ~ overtaken
                 PROVE  /\ \A l \in (page.losers \ {p}) \cup {page.root} :
                              mergedInto'[l] = NoProfile
                        /\ \A a \in page.left : owner[a] # NoProfile =>
                              End(mergedInto', owner[a])
                                \in (page.losers \ {p}) \cup {page.root}
        <3>1. ensuring'.losers = page.losers \ {p} /\ ensuring'.root = page.root
              /\ ensuring'.left = page.left /\ ~ ensuring'.create
            BY <1>4
        <3>2. overtaken' = overtaken /\ owner' = owner
            BY <1>1
        <3> QED
            BY <3>1, <3>2 DEF PageIsCurrent
    <2>1. \A l \in (page.losers \ {p}) \cup {page.root} : mergedInto'[l] = NoProfile
        BY <1>3, <1>5, <1>9, <1>10
    <2>2. \A a \in page.left : owner[a] # NoProfile => owner[a] \in StoredProfiles
        BY <1>3 DEF ContactTypeOK
    <2>3. \A a \in page.left : owner[a] # NoProfile =>
              End(mergedInto', owner[a]) \in (page.losers \ {p}) \cup {page.root}
        BY <1>9, <1>11, <2>2
    <2> QED
        BY <2>1, <2>3
<1>13. StaysTogether
    BY <1>1, <1>11, TogetherEnds, TogetherEndsAfter DEF StaysTogether, ContactTypeOK
<1> QED
    BY <1>6, <1>7, <1>8, <1>12, <1>13

LEMMA UpsertKeeps ==
    ASSUME ContactInv, NEW a \in Aliases, UpsertAlias(a)
    PROVE  ContactInv' /\ StaysTogether
<1> USE DEF ContactInv
<1>1. /\ ensuring.losers = {} /\ ~ ensuring.create /\ a \in ensuring.left
      /\ owner' = [owner EXCEPT ![a] = ensuring.root]
      /\ overtaken' = (overtaken /\ ensuring.left # {a})
      /\ UNCHANGED mergedInto
    BY DEF UpsertAlias, WriteAlias
<1>2. PICK page : page = ensuring
    OBVIOUS
<1>3. /\ page # NotEnsuring /\ page.root \in StoredProfiles /\ page.left \in SUBSET Aliases
    <2>1. page # NotEnsuring
        BY <1>1, <1>2 DEF NotEnsuring
    <2> QED
        BY <1>1, <1>2, <2>1 DEF LosersAreYounger, ContactTypeOK
<1>4. \A b \in Aliases : owner'[b] = IF b = a THEN page.root ELSE owner[b]
    BY <1>1, <1>2 DEF ContactTypeOK
<1>5. \/ ensuring' = NotEnsuring
      \/ /\ page.left # {a}
         /\ ensuring' = [root |-> page.root, losers |-> {}, left |-> page.left \ {a},
                         create |-> FALSE]
    <2>1. CASE page.left = {a}
        BY <1>2, <2>1 DEF UpsertAlias, WriteAlias
    <2>2. CASE page.left # {a}
        <3>1. ensuring' = [page EXCEPT !.left = page.left \ {a}]
            BY <1>2, <2>2 DEF UpsertAlias, WriteAlias
        <3> QED
            BY <1>1, <1>2, <2>2, <3>1 DEF ContactTypeOK
    <2> QED
        BY <2>1, <2>2
<1>6. owner' \in [Aliases -> StoredProfiles \cup {NoProfile}]
    BY <1>1, <1>2, <1>3 DEF ContactTypeOK
<1>7. StoredProfiles' = StoredProfiles /\ Forest(mergedInto')
    BY <1>1 DEF StoredProfiles
<1>8. ContactTypeOK'
    <2>1. ensuring' \in [root : StoredProfiles \cup {NoProfile}, losers : SUBSET StoredProfiles,
                         left : SUBSET Aliases, create : BOOLEAN]
        <3>1. CASE ensuring' = NotEnsuring
            BY <3>1 DEF NotEnsuring
        <3>2. CASE ensuring' = [root |-> page.root, losers |-> {}, left |-> page.left \ {a},
                                create |-> FALSE]
            BY <1>3, <3>2
        <3> QED
            BY <1>5, <3>1, <3>2
    <2> QED
        BY <1>1, <1>6, <1>7, <2>1 DEF ContactTypeOK
<1>9. LosersAreYounger'
    <2>1. CASE ensuring' = NotEnsuring
        BY <2>1 DEF LosersAreYounger, NotEnsuring
    <2>2. CASE ensuring' # NotEnsuring
        BY <1>1, <1>2, <1>3, <1>5, <1>7, <2>2 DEF LosersAreYounger
    <2> QED
        BY <2>1, <2>2
<1>10. ASSUME ~ overtaken
       PROVE  /\ mergedInto[page.root] = NoProfile
              /\ \A b \in page.left : owner[b] # NoProfile =>
                     End(mergedInto, owner[b]) = page.root
    <2>1. /\ \A p \in ensuring.losers \cup {ensuring.root} : mergedInto[p] = NoProfile
          /\ \A b \in ensuring.left : owner[b] # NoProfile =>
                 End(mergedInto, owner[b]) \in ensuring.losers \cup {ensuring.root}
        BY <1>1, <1>2, <1>3, <1>10 DEF PageIsCurrent
    <2> QED
        BY <1>1, <1>2, <2>1
<1>11. PageIsCurrent'
    <2>1. CASE ensuring' = NotEnsuring
        BY <2>1 DEF PageIsCurrent, NotEnsuring
    <2>2. CASE ensuring' # NotEnsuring
        <3>1. /\ ensuring'.losers = {} /\ ensuring'.root = page.root
              /\ ensuring'.left = page.left \ {a} /\ ~ ensuring'.create
              /\ page.left # {a}
            BY <1>5, <2>2
        <3>2. mergedInto' = mergedInto /\ (~ overtaken' => ~ overtaken)
            BY <1>1, <1>2, <3>1, Zenon
        <3>3. \A b \in page.left \ {a} : owner'[b] = owner[b]
            BY <1>3, <1>4
        <3>4. ~ overtaken =>
                  \A b \in page.left \ {a} : owner'[b] # NoProfile =>
                      End(mergedInto', owner'[b]) \in {page.root}
            BY <1>10, <3>2, <3>3
        <3> QED
            BY <1>10, <3>1, <3>2, <3>4 DEF PageIsCurrent
    <2> QED
        BY <2>1, <2>2
<1>12. StaysTogether
    <2> SUFFICES ASSUME NEW b \in Aliases, NEW c \in Aliases, Together(b, c), ~ overtaken
                 PROVE  Together(b, c)'
        BY DEF StaysTogether
    <2>1. page.root # NoProfile
        BY <1>3, ProfilesAreOrdered DEF ContactTypeOK
    <2>2. End(mergedInto, page.root) = page.root
        BY <1>3, <1>10, EndIsEnd DEF StoredProfiles
    <2>3. \A d \in Aliases : owner[d] # NoProfile =>
              owner'[d] # NoProfile /\ End(mergedInto', owner'[d]) = End(mergedInto, owner[d])
        BY <1>1, <1>2, <1>4, <1>10, <2>1, <2>2
    <2> QED
        BY <2>3, TogetherEnds, TogetherEndsAfter
<1> QED
    BY <1>7, <1>8, <1>9, <1>11, <1>12

LEMMA BreakOffKeeps ==
    ASSUME ContactInv, PageBreaksOff PROVE ContactInv' /\ StaysTogether
<1> USE DEF ContactInv
<1>1. ensuring' = NotEnsuring /\ overtaken' = FALSE /\ UNCHANGED <<mergedInto, owner>>
    BY DEF PageBreaksOff
<1>2. ContactTypeOK'
    BY <1>1 DEF ContactTypeOK, StoredProfiles, NotEnsuring
<1>3. LosersAreYounger' /\ PageIsCurrent'
    BY <1>1 DEF LosersAreYounger, PageIsCurrent, NotEnsuring
<1> QED
    BY <1>1, <1>2, <1>3, ContactsRest

LEMMA EnsureForTaskKeeps ==
    ASSUME ContactInv, NEW as \in (SUBSET Aliases) \ {{}}, EnsureForTask(as)
    PROVE  ContactInv' /\ StaysTogether
<1> USE DEF ContactInv
<1>2. PICK root \in IF Found(as) = {} THEN Profiles \ StoredProfiles ELSE {Winner(as)} :
        /\ mergedInto' = [q \in StoredProfiles \cup {root} |->
                            IF q \in Found(as) \ {root} THEN root
                            ELSE IF q \in StoredProfiles THEN mergedInto[q]
                            ELSE NoProfile]
        /\ owner' = [a \in Aliases |-> IF a \in as THEN root ELSE owner[a]]
    BY Zenon DEF EnsureForTask
<1>3. overtaken' = (overtaken \/ ensuring # NotEnsuring) /\ UNCHANGED ensuring
    BY DEF EnsureForTask
<1>4. /\ Found(as) \subseteq StoredProfiles
      /\ \A p \in Found(as) : mergedInto[p] = NoProfile
      /\ Found(as) # {} => /\ Winner(as) \in Found(as)
                       /\ \A p \in Found(as) \ {Winner(as)} : Winner(as) < p
    BY RootsFound
<1>5. PICK L : L = Found(as) \ {root}
    OBVIOUS
<1>6. /\ root \in Profiles /\ root \notin L /\ L \subseteq StoredProfiles
      /\ \A l \in L : mergedInto[l] = NoProfile /\ root < l /\ root \in StoredProfiles
      /\ root \in StoredProfiles => mergedInto[root] = NoProfile
    <2>1. CASE Found(as) = {}
        BY <1>2, <1>5, <2>1
    <2>2. CASE Found(as) # {}
        <3>1. root = Winner(as)
            BY <1>2, <2>2
        <3> QED
            BY <1>4, <1>5, <2>2, <3>1 DEF ContactTypeOK
    <2> QED
        BY <2>1, <2>2
<1>7. /\ StoredProfiles' = StoredProfiles \cup {root}
      /\ DOMAIN mergedInto' = DOMAIN mergedInto \cup {root}
    BY <1>2 DEF StoredProfiles
<1>8. \A q \in StoredProfiles : mergedInto'[q] = IF q \in L THEN root ELSE mergedInto[q]
    BY <1>2, <1>5
<1>9. mergedInto'[root] = NoProfile
    BY <1>2, <1>5, <1>6
<1>10. Forest(mergedInto')
    <2>1. IsFiniteSet(DOMAIN mergedInto')
        BY <1>7, FS_AddElement DEF Forest
    <2>2. ASSUME NEW q \in DOMAIN mergedInto', mergedInto'[q] # NoProfile
          PROVE  mergedInto'[q] \in DOMAIN mergedInto' /\ mergedInto'[q] < q
        <3>1. q \in DOMAIN mergedInto /\ q \in StoredProfiles
            BY <1>7, <1>9, <2>2 DEF StoredProfiles
        <3> QED
            BY <1>6, <1>7, <1>8, <2>2, <3>1 DEF Forest, Descends
    <2> QED
        BY <1>6, <1>7, <2>1, <2>2 DEF Forest, Descends
<1>11. ContactTypeOK'
    <2>1. StoredProfiles' \subseteq Profiles
        BY <1>6, <1>7 DEF ContactTypeOK
    <2>2. \A q \in StoredProfiles' : mergedInto'[q] \in StoredProfiles' \cup {NoProfile}
        BY <1>7, <1>8, <1>9 DEF ContactTypeOK
    <2>3. owner' \in [Aliases -> StoredProfiles' \cup {NoProfile}]
        BY <1>2, <1>7 DEF ContactTypeOK
    <2>4. ensuring' \in [root : StoredProfiles' \cup {NoProfile}, losers : SUBSET StoredProfiles',
                         left : SUBSET Aliases, create : BOOLEAN]
        <3>1. StoredProfiles \subseteq StoredProfiles'
            BY <1>7
        <3>2. ensuring' \in [root : StoredProfiles \cup {NoProfile}, losers : SUBSET StoredProfiles,
                             left : SUBSET Aliases, create : BOOLEAN]
            BY <1>3 DEF ContactTypeOK
        <3> QED
            BY <3>1, <3>2
    <2>5. overtaken' \in BOOLEAN
        BY <1>3 DEF ContactTypeOK
    <2> QED
        BY <2>1, <2>2, <2>3, <2>4, <2>5 DEF ContactTypeOK
<1>12. LosersAreYounger'
    BY <1>3, <1>7 DEF LosersAreYounger
<1>13. PageIsCurrent'
    BY <1>3 DEF PageIsCurrent
<1>14. \A q \in StoredProfiles :
          End(mergedInto', q) = IF End(mergedInto, q) \in L THEN root ELSE End(mergedInto, q)
    <2>1. /\ DOMAIN mergedInto \subseteq DOMAIN mergedInto' /\ root \in DOMAIN mergedInto'
          /\ L \subseteq DOMAIN mergedInto
          /\ \A l \in L : mergedInto[l] = NoProfile
          /\ \A q \in DOMAIN mergedInto :
               mergedInto'[q] = IF q \in L THEN root ELSE mergedInto[q]
        BY <1>6, <1>7, <1>8 DEF StoredProfiles
    <2>2. \A q \in DOMAIN mergedInto :
            End(mergedInto', q) = IF End(mergedInto, q) \in L THEN root ELSE End(mergedInto, q)
        BY <1>6, <1>9, <1>10, <2>1, MergeMoves
    <2> QED
        BY <2>2 DEF StoredProfiles
<1>15. StaysTogether
    <2>1. root # NoProfile /\ End(mergedInto', root) = root
        BY <1>6, <1>7, <1>9, <1>10, EndIsEnd, ProfilesAreOrdered
    <2>2. \A a \in Aliases : owner[a] # NoProfile =>
              /\ owner'[a] # NoProfile
              /\ End(mergedInto', owner'[a]) = IF End(mergedInto, owner[a]) \in L THEN root
                                               ELSE End(mergedInto, owner[a])
        <3> SUFFICES ASSUME NEW a \in Aliases, owner[a] # NoProfile
                     PROVE  /\ owner'[a] # NoProfile
                            /\ End(mergedInto', owner'[a]) =
                                 IF End(mergedInto, owner[a]) \in L THEN root
                                 ELSE End(mergedInto, owner[a])
            OBVIOUS
        <3>1. owner[a] \in StoredProfiles
            BY DEF ContactTypeOK
        <3>2. CASE a \in as
            <4>1. owner'[a] = root
                BY <1>2, <3>2
            <4>2. End(mergedInto, owner[a]) \in Found(as)
                BY <3>2, FoundAreEnds
            <4> QED
                BY <1>5, <2>1, <4>1, <4>2
        <3>3. CASE a \notin as
            <4>1. owner'[a] = owner[a]
                BY <1>2, <3>3
            <4> QED
                BY <1>14, <3>1, <4>1
        <3> QED
            BY <3>2, <3>3
    <2> QED
        BY <2>2, TogetherEnds, TogetherEndsAfter DEF StaysTogether
<1> QED
    BY <1>10, <1>11, <1>12, <1>13, <1>15

LEMMA ContactNextKeeps ==
    ContactInv /\ [ContactNext]_contactVars => ContactInv' /\ StaysTogether
<1> SUFFICES ASSUME ContactInv, [ContactNext]_contactVars PROVE ContactInv' /\ StaysTogether
    OBVIOUS
<1>1. CASE UNCHANGED contactVars
    <2>1. UNCHANGED <<mergedInto, owner, ensuring, overtaken>>
        BY <1>1 DEF contactVars
    <2>2. ContactInv'
        BY <2>1 DEF ContactInv, ContactTypeOK, StoredProfiles, LosersAreYounger, PageIsCurrent
    <2> QED
        BY <2>1, <2>2, ContactsRest
<1>2. ASSUME NEW as \in (SUBSET Aliases) \ {{}}, StartEnsure(as)
      PROVE ContactInv' /\ StaysTogether
    BY <1>2, StartKeeps
<1>3. ASSUME NEW as \in (SUBSET Aliases) \ {{}}, EnsureForTask(as)
      PROVE ContactInv' /\ StaysTogether
    BY <1>3, EnsureForTaskKeeps
<1>4. CASE CreateProfile
    BY <1>4, CreateKeeps
<1>5. ASSUME NEW p \in Profiles, MarkMerged(p) PROVE ContactInv' /\ StaysTogether
    BY <1>5, MergeKeeps
<1>6. ASSUME NEW a \in Aliases, UpsertAlias(a) PROVE ContactInv' /\ StaysTogether
    BY <1>6, UpsertKeeps
<1>7. CASE PageBreaksOff
    BY <1>7, BreakOffKeeps
<1> QED
    BY <1>1, <1>2, <1>3, <1>4, <1>5, <1>6, <1>7 DEF ContactNext

LEMMA ForestEnds == ContactInv => ContactTypeOK /\ MergesEnd
<1> SUFFICES ASSUME ContactInv PROVE ContactTypeOK /\ MergesEnd
    OBVIOUS
<1>1. \A p \in StoredProfiles : /\ End(mergedInto, p) \in StoredProfiles
                                /\ mergedInto[End(mergedInto, p)] = NoProfile
    BY EndIsEnd DEF ContactInv, StoredProfiles
<1> QED
    BY <1>1, RootIsEnd DEF ContactInv, MergesEnd

\* Whatever pages and the Core merge in whichever order, and wherever a page
\* breaks off: every profile ends at one that is not merged, and aliases that once
\* led to the same contact go on to do so, unless the Core wrote between the reads
\* and the writes of a page (ContactProfileService._ensure).
THEOREM AContactStaysOneTree == ContactSpec => ContactIsOneTree
<1>1. ContactInit => ContactInv
    BY InitContact
<1>2. ContactInv /\ [ContactNext]_contactVars => ContactInv' /\ StaysTogether
    BY ContactNextKeeps
<1>3. ContactInv => ContactTypeOK /\ MergesEnd
    BY ForestEnds
<1>4. StaysTogether =>
        [\A a, b \in Aliases : Together(a, b) /\ ~ overtaken => Together(a, b)']_contactVars
    BY DEF StaysTogether
<1>5. ContactSpec => [](ContactTypeOK /\ MergesEnd)
    BY <1>1, <1>2, <1>3, PTL DEF ContactSpec
<1>6. ContactSpec => ContactsStayTogether
    BY <1>1, <1>2, <1>4, PTL DEF ContactSpec, ContactsStayTogether
<1> QED
    BY <1>5, <1>6 DEF ContactIsOneTree

(****************************************************************************)
(* The charges of an offer, for any names, amounts and number of lines.     *)
(****************************************************************************)

\* The numbers of the entries of a list with one value.
At(s, x) == {i \in DOMAIN s : s[i] = x}

SameCounts(s, t, x) ==
    /\ IsFiniteSet(At(s, x)) /\ IsFiniteSet(At(t, x))
    /\ Cardinality(At(s, x)) = Cardinality(At(t, x))

LEMMA BagsAreCounts ==
    ASSUME NEW s, NEW t, \A x : SameCounts(s, t, x)
    PROVE  ToBag(s) = ToBag(t)
<1>1. ASSUME NEW x PROVE Cardinality(At(s, x)) = Cardinality(At(t, x))
    BY DEF SameCounts
<1>2. ASSUME NEW x PROVE At(s, x) = {} <=> At(t, x) = {}
    <2>1. IsFiniteSet(At(s, x)) /\ IsFiniteSet(At(t, x))
        BY DEF SameCounts
    <2> QED
        BY <1>1, <2>1, FS_EmptySet
<1>3. Range(s) = Range(t)
    BY <1>2 DEF Range, At
<1> QED
    BY <1>1, <1>3 DEF ToBag, At

LEMMA CountsOfBags ==
    ASSUME NEW s, NEW t, ToBag(s) = ToBag(t), NEW x
    PROVE  /\ Cardinality(At(s, x)) = Cardinality(At(t, x))
           /\ At(s, x) = {} <=> At(t, x) = {}
<1>1. Range(s) = Range(t)
    BY DEF ToBag
<1>2. \A y \in Range(s) : Cardinality(At(s, y)) = Cardinality(At(t, y))
    <2> DEFINE f == ToBag(s)  g == ToBag(t)
    <2>1. ASSUME NEW y \in Range(s) PROVE f[y] = Cardinality(At(s, y))
        BY DEF ToBag, At
    <2>2. ASSUME NEW y \in Range(s) PROVE g[y] = Cardinality(At(t, y))
        BY <1>1 DEF ToBag, At
    <2> QED
        BY <2>1, <2>2
<1>3. x \notin Range(s) => At(s, x) = {}
    BY DEF Range, At
<1>4. x \notin Range(t) => At(t, x) = {}
    BY DEF Range, At
<1>5. x \in Range(s) => At(s, x) # {}
    BY DEF Range, At
<1>6. x \in Range(t) => At(t, x) # {}
    BY DEF Range, At
<1> QED
    BY <1>1, <1>2, <1>3, <1>4, <1>5, <1>6

LEMMA ListAfterList ==
    ASSUME NEW S, NEW s \in Seq(S), NEW t \in Seq(S),
           NEW u, u = s \o t
    PROVE  /\ u \in Seq(S)
           /\ Len(u) = Len(s) + Len(t)
           /\ \A i \in 1..Len(s) : u[i] = s[i]
           /\ \A i \in 1..Len(t) : u[Len(s) + i] = t[i]
<1>1. Len(s) \in Nat /\ Len(t) \in Nat
    OBVIOUS
<1>2. /\ s \o t \in Seq(S) /\ Len(s \o t) = Len(s) + Len(t)
      /\ \A i \in 1..Len(s) + Len(t) :
            (s \o t)[i] = IF i <= Len(s) THEN s[i] ELSE t[i - Len(s)]
    BY ConcatProperties
<1>3. ASSUME NEW i \in 1..Len(s) PROVE (s \o t)[i] = s[i]
    <2>1. i \in 1..Len(s) + Len(t) /\ i <= Len(s)
        BY <1>1
    <2> QED
        BY <1>2, <2>1
<1>4. ASSUME NEW i \in 1..Len(t) PROVE (s \o t)[Len(s) + i] = t[i]
    <2>1. Len(s) + i \in 1..Len(s) + Len(t) /\ ~ (Len(s) + i <= Len(s)) /\ (Len(s) + i) - Len(s) = i
        BY <1>1
    <2> QED
        BY <1>2, <2>1
<1> QED
    BY <1>2, <1>3, <1>4


\* What can be put in: charges of known kinds that add up to amounts.
Declarations ==
    [delivery : Nat, lines : Seq(DishwareLines), flat : BOOLEAN, flatUnit : Nat,
     buffet : BOOLEAN, buffetUnit : Nat, sameDay : BOOLEAN, returnFee : Nat]

ChargePositions ==
    [kind : {"delivery", "dishware", "buffet_fee", "fee"},
     mode : {"total", "per_person"}, name : LineNames \cup {PickupName, "other"},
     quantity : {1, 2}, unit : Nat, net : Nat]

IsPut(d, guests, ps) ==
    /\ d \in Declarations /\ guests \in Nat /\ ps \in Seq(ChargePositions)
    /\ \A i \in DOMAIN ps : ComparedAs(ps[i]) = "return" => ps[i].quantity = 1

SeenList(ps) == [i \in Compared(ps) |-> ChargeSeen(ps[i])]
OfKind(s, k) == {i \in DOMAIN s : s[i].kind = k}

\* The entries of a kind agree: there is none in either list, or one and the same.
KindAgrees(s, t, k) ==
    \/ OfKind(s, k) = {} /\ OfKind(t, k) = {}
    \/ \E i, j : OfKind(s, k) = {i} /\ OfKind(t, k) = {j} /\ s[i] = t[j]

LEMMA AgreeingKindsAreCounted ==
    ASSUME NEW s, NEW t, NEW k, KindAgrees(s, t, k), NEW x, x.kind = k
    PROVE  SameCounts(s, t, x)
<1>0. /\ \A u : IsFiniteSet({u})
      /\ IsFiniteSet({})
    BY FS_Singleton, FS_EmptySet
<1>1. At(s, x) \subseteq OfKind(s, k) /\ At(t, x) \subseteq OfKind(t, k)
    BY DEF At, OfKind
<1>2. CASE OfKind(s, k) = {} /\ OfKind(t, k) = {}
    <2>1. At(s, x) = {} /\ At(t, x) = {}
        BY <1>1, <1>2
    <2> QED
        BY <1>0, <2>1 DEF SameCounts
<1>3. ASSUME NEW i, NEW j, OfKind(s, k) = {i}, OfKind(t, k) = {j}, s[i] = t[j]
      PROVE  SameCounts(s, t, x)
    <2>1. i \in DOMAIN s /\ j \in DOMAIN t
        BY <1>3 DEF OfKind
    <2>2. CASE s[i] = x
        <3>1. At(s, x) = {i} /\ At(t, x) = {j}
            BY <1>1, <1>3, <2>1, <2>2 DEF At
        <3> QED
            <4>1. Cardinality({i}) = Cardinality({j})
                BY FS_Singleton
            <4> QED
                BY <1>0, <3>1, <4>1 DEF SameCounts
    <2>3. CASE s[i] # x
        <3>1. At(s, x) = {} /\ At(t, x) = {}
            BY <1>1, <1>3, <2>3 DEF At
        <3> QED
            BY <1>0, <3>1 DEF SameCounts
    <2> QED
        BY <2>2, <2>3
<1> QED
    BY <1>2, <1>3 DEF KindAgrees

LEMMA CountedKindsAgree ==
    ASSUME NEW s, NEW t, ToBag(s) = ToBag(t), NEW k,
           OfKind(t, k) = {} \/ \E j : OfKind(t, k) = {j},
           \A x : IsFiniteSet(At(s, x))
    PROVE  KindAgrees(s, t, k)
<1>1. \A x : At(s, x) = {} <=> At(t, x) = {}
    BY CountsOfBags
<1>2. ASSUME NEW i \in OfKind(s, k)
      PROVE  \E j \in OfKind(t, k) : t[j] = s[i]
    <2>1. i \in At(s, s[i])
        BY DEF OfKind, At
    <2>2. PICK j : j \in At(t, s[i])
        BY <1>1, <2>1
    <2> QED
        BY <2>2 DEF At, OfKind
<1>3. CASE OfKind(t, k) = {}
    BY <1>2, <1>3 DEF KindAgrees
<1>4. ASSUME NEW j, OfKind(t, k) = {j} PROVE KindAgrees(s, t, k)
    <2>1. j \in DOMAIN t /\ t[j].kind = k
        BY <1>4 DEF OfKind
    <2>2. At(t, t[j]) = {j}
        <3>1. At(t, t[j]) \subseteq OfKind(t, k)
            BY <2>1 DEF At, OfKind
        <3>2. j \in At(t, t[j])
            BY <2>1 DEF At
        <3> QED
            BY <1>4, <3>1, <3>2
    <2>3. Cardinality(At(s, t[j])) = 1
        <3>1. Cardinality(At(t, t[j])) = 1
            BY <2>2, FS_Singleton
        <3>2. \A x : Cardinality(At(s, x)) = Cardinality(At(t, x))
            BY CountsOfBags
        <3> QED
            BY <3>1, <3>2
    <2>4. PICK i : At(s, t[j]) = {i}
        BY <2>3, FS_Singleton
    <2>5. i \in DOMAIN s /\ s[i] = t[j]
        BY <2>4 DEF At
    <2>6. OfKind(s, k) \subseteq At(s, t[j])
        BY <1>2, <1>4 DEF At, OfKind
    <2>7. OfKind(s, k) = {i}
        BY <2>1, <2>4, <2>5, <2>6 DEF OfKind
    <2> QED
        BY <1>4, <2>5, <2>7 DEF KindAgrees
<1> QED
    BY <1>3, <1>4

\* The entries of a declared list, with the number of lines and that of each part.
EntriesAre(D, d, guests, N, F, B, R) ==
    /\ N = Len(d.lines)
    /\ F = (IF d.flat THEN 1 ELSE 0)
    /\ B = (IF d.buffet THEN 1 ELSE 0)
    /\ R = (IF d.sameDay THEN 1 ELSE 0)
    /\ DOMAIN D = 1..(1 + N + F + B + R)
    /\ D[1] = DeliveryCharge(d)
    /\ \A n \in 1..N : D[1 + n] = DishwareCharge(d.lines[n])
    /\ F = 1 => D[2 + N] = FlatCharge(d, guests)
    /\ B = 1 => D[2 + N + F] = BuffetCharge(d, guests)
    /\ R = 1 => D[2 + N + F + B] = ReturnCharge(d)

LEMMA DeclaredEntries ==
    ASSUME NEW d \in Declarations, NEW guests \in Nat, NEW D, D = DeclaredList(d, guests)
    PROVE  \E N, F, B, R : EntriesAre(D, d, guests, N, F, B, R)
<1>0. PICK N, F, B, R : /\ N = Len(d.lines)
                        /\ F = (IF d.flat THEN 1 ELSE 0)
                        /\ B = (IF d.buffet THEN 1 ELSE 0)
                        /\ R = (IF d.sameDay THEN 1 ELSE 0)
    OBVIOUS
<1>1. PICK a, x0, y0, z0, q :
        /\ a = DeliveryCharge(d)
        /\ x0 = FlatCharge(d, guests)
        /\ y0 = BuffetCharge(d, guests)
        /\ z0 = ReturnCharge(d)
        /\ q = [n \in 1..Len(d.lines) |-> DishwareCharge(d.lines[n])]
    OBVIOUS
<1>2. PICK x, y, z : /\ x = (IF d.flat THEN <<x0>> ELSE <<>>)
                     /\ y = (IF d.buffet THEN <<y0>> ELSE <<>>)
                     /\ z = (IF d.sameDay THEN <<z0>> ELSE <<>>)
    OBVIOUS
<1>3. D = <<a>> \o q \o x \o y \o z
    BY <1>1, <1>2 DEF DeclaredList
<1>4. N \in Nat
    BY <1>0 DEF Declarations
<1>5. PICK S : S = {a, x0, y0, z0} \cup {DishwareCharge(d.lines[n]) : n \in 1..N}
    OBVIOUS
<1>6. a \in S /\ x0 \in S /\ y0 \in S /\ z0 \in S /\ q \in [1..N -> S]
    BY <1>0, <1>1, <1>5
<1>7. /\ x \in Seq(S) /\ Len(x) = F /\ (F = 1 => x[1] = x0)
      /\ y \in Seq(S) /\ Len(y) = B /\ (B = 1 => y[1] = y0)
      /\ z \in Seq(S) /\ Len(z) = R /\ (R = 1 => z[1] = z0)
    BY <1>0, <1>2, <1>6
<1>8. Len(x) \in 0..1 /\ Len(y) \in 0..1 /\ Len(z) \in 0..1
    BY <1>0, <1>7
<1>9. PICK w : w = <<a>>
    OBVIOUS
<1>10. w \in Seq(S) /\ Len(w) = 1 /\ w[1] = a /\ D = w \o q \o x \o y \o z
    BY <1>3, <1>6, <1>9
<1>11. q \in Seq(S) /\ Len(q) = N
    BY <1>4, <1>6
<1>12. PICK L1 : L1 = w \o q
    OBVIOUS
<1>13. /\ L1 \in Seq(S) /\ Len(L1) = 1 + N /\ \A i \in 1..1 : L1[i] = w[i]
       /\ \A n \in 1..N : L1[1 + n] = q[n]
    <2>1. w \in Seq(S) /\ q \in Seq(S) /\ L1 = w \o q
        BY <1>10, <1>11, <1>12
    <2>2. /\ L1 \in Seq(S) /\ Len(L1) = Len(w) + Len(q)
          /\ \A i \in 1..Len(w) : L1[i] = w[i]
          /\ \A i \in 1..Len(q) : L1[Len(w) + i] = q[i]
        BY ONLY <2>1, ListAfterList
    <2> QED
        BY <1>10, <1>11, <2>2
<1>14. PICK L2 : L2 = L1 \o x
    OBVIOUS
<1>15. /\ L2 \in Seq(S) /\ Len(L2) = (1 + N) + Len(x)
       /\ \A i \in 1..(1 + N) : L2[i] = L1[i]
       /\ \A i \in 1..Len(x) : L2[(1 + N) + i] = x[i]
    <2>1. L1 \in Seq(S) /\ x \in Seq(S) /\ L2 = L1 \o x
        BY <1>7, <1>13, <1>14
    <2>2. /\ L2 \in Seq(S) /\ Len(L2) = Len(L1) + Len(x)
          /\ \A i \in 1..Len(L1) : L2[i] = L1[i]
          /\ \A i \in 1..Len(x) : L2[Len(L1) + i] = x[i]
        BY ONLY <2>1, ListAfterList
    <2> QED
        BY <1>13, <1>14, <2>2
<1>16. PICK L3 : L3 = L2 \o y
    OBVIOUS
<1>17. /\ L3 \in Seq(S) /\ Len(L3) = ((1 + N) + Len(x)) + Len(y)
       /\ \A i \in 1..((1 + N) + Len(x)) : L3[i] = L2[i]
       /\ \A i \in 1..Len(y) : L3[((1 + N) + Len(x)) + i] = y[i]
    <2>1. L2 \in Seq(S) /\ y \in Seq(S) /\ L3 = L2 \o y
        BY <1>7, <1>15, <1>16
    <2>2. /\ L3 \in Seq(S) /\ Len(L3) = Len(L2) + Len(y)
          /\ \A i \in 1..Len(L2) : L3[i] = L2[i]
          /\ \A i \in 1..Len(y) : L3[Len(L2) + i] = y[i]
        BY ONLY <2>1, ListAfterList
    <2> QED
        BY <1>15, <1>16, <2>2
<1>18. D = L3 \o z
    BY <1>10, <1>12, <1>14, <1>16
<1>19. /\ D \in Seq(S) /\ Len(D) = (((1 + N) + Len(x)) + Len(y)) + Len(z)
       /\ \A i \in 1..(((1 + N) + Len(x)) + Len(y)) : D[i] = L3[i]
       /\ \A i \in 1..Len(z) : D[(((1 + N) + Len(x)) + Len(y)) + i] = z[i]
    <2>1. L3 \in Seq(S) /\ z \in Seq(S) /\ D = L3 \o z
        BY <1>7, <1>17, <1>18
    <2>2. /\ D \in Seq(S) /\ Len(D) = Len(L3) + Len(z)
          /\ \A i \in 1..Len(L3) : D[i] = L3[i]
          /\ \A i \in 1..Len(z) : D[Len(L3) + i] = z[i]
        BY ONLY <2>1, ListAfterList
    <2> QED
        BY <1>17, <1>18, <2>2
<1>20. DOMAIN D = 1..(1 + N + Len(x) + Len(y) + Len(z))
    BY <1>19
<1>21. ASSUME NEW i \in 1..(1 + N) PROVE D[i] = L1[i]
    <2>1. i \in 1..((1 + N) + Len(x)) /\ i \in 1..(((1 + N) + Len(x)) + Len(y))
        BY <1>4, <1>8
    <2> QED
        BY <1>15, <1>17, <1>19, <2>1
<1>22. ASSUME NEW n \in 1..N PROVE D[1 + n] = q[n]
    <2>1. 1 + n \in 1..(1 + N)
        BY <1>4
    <2> QED
        BY <1>13, <1>21, <2>1
<1>23. D[1] = w[1]
    BY <1>4, <1>13, <1>21
<1>24. ASSUME Len(x) = 1 PROVE D[2 + N] = x[1]
    <2>1. /\ 2 + N \in 1..((1 + N) + Len(x)) /\ 2 + N \in 1..(((1 + N) + Len(x)) + Len(y))
          /\ 2 + N = (1 + N) + 1 /\ 1 \in 1..Len(x)
        BY <1>4, <1>8, <1>24
    <2> QED
        BY <1>15, <1>17, <1>19, <2>1
<1>25. ASSUME Len(y) = 1 PROVE D[2 + N + Len(x)] = y[1]
    <2>1. /\ 2 + N + Len(x) \in 1..(((1 + N) + Len(x)) + Len(y))
          /\ 2 + N + Len(x) = ((1 + N) + Len(x)) + 1 /\ 1 \in 1..Len(y)
        BY <1>4, <1>8, <1>25
    <2> QED
        BY <1>17, <1>19, <2>1
<1>26. ASSUME Len(z) = 1 PROVE D[2 + N + Len(x) + Len(y)] = z[1]
    <2>1. /\ 2 + N + Len(x) + Len(y) = (((1 + N) + Len(x)) + Len(y)) + 1 /\ 1 \in 1..Len(z)
        BY <1>4, <1>8, <1>26
    <2> QED
        BY <1>19, <2>1
<1>27. \A n \in 1..N : q[n] = DishwareCharge(d.lines[n])
    BY <1>0, <1>1
<1>28. EntriesAre(D, d, guests, N, F, B, R)
    BY <1>0, <1>1, <1>7, <1>10, <1>20, <1>22, <1>23, <1>24, <1>25, <1>26, <1>27 DEF EntriesAre
<1> QED
    BY <1>28

ChargeKinds == {"delivery", "dishware", "flat", "buffet_fee", "return"}

LEMMA DeclaredKinds ==
    ASSUME NEW d \in Declarations, NEW guests \in Nat, NEW D, D = DeclaredList(d, guests)
    PROVE  /\ IsFiniteSet(DOMAIN D)
           /\ \A j \in DOMAIN D : D[j].kind \in ChargeKinds
           /\ OfKind(D, "delivery") = {1} /\ D[1] = DeliveryCharge(d)
           /\ OfKind(D, "dishware") = {1 + n : n \in 1..Len(d.lines)}
           /\ \A n \in 1..Len(d.lines) : D[1 + n] = DishwareCharge(d.lines[n])
           /\ IF d.flat THEN \E j : /\ OfKind(D, "flat") = {j}
                                    /\ D[j] = FlatCharge(d, guests)
                        ELSE OfKind(D, "flat") = {}
           /\ IF d.buffet THEN \E j : /\ OfKind(D, "buffet_fee") = {j}
                                      /\ D[j] = BuffetCharge(d, guests)
                          ELSE OfKind(D, "buffet_fee") = {}
           /\ IF d.sameDay THEN \E j : /\ OfKind(D, "return") = {j}
                                       /\ D[j] = ReturnCharge(d)
                           ELSE OfKind(D, "return") = {}
<1>0. PICK N, F, B, R : EntriesAre(D, d, guests, N, F, B, R)
    BY DeclaredEntries
<1>1. /\ N = Len(d.lines)
      /\ F = (IF d.flat THEN 1 ELSE 0)
      /\ B = (IF d.buffet THEN 1 ELSE 0)
      /\ R = (IF d.sameDay THEN 1 ELSE 0)
    BY <1>0 DEF EntriesAre
<1>2. /\ DOMAIN D = 1..(1 + N + F + B + R)
      /\ D[1] = DeliveryCharge(d)
      /\ \A n \in 1..N : D[1 + n] = DishwareCharge(d.lines[n])
      /\ F = 1 => D[2 + N] = FlatCharge(d, guests)
      /\ B = 1 => D[2 + N + F] = BuffetCharge(d, guests)
      /\ R = 1 => D[2 + N + F + B] = ReturnCharge(d)
    BY <1>0 DEF EntriesAre
<1>3. /\ N \in Nat /\ F \in 0..1 /\ B \in 0..1 /\ R \in 0..1
      /\ d.flat <=> F = 1
      /\ d.buffet <=> B = 1
      /\ d.sameDay <=> R = 1
    BY <1>1 DEF Declarations
<1>4. \A j \in DOMAIN D : \/ j = 1
                          \/ \E n \in 1..N : j = 1 + n
                          \/ F = 1 /\ j = 2 + N
                          \/ B = 1 /\ j = 2 + N + F
                          \/ R = 1 /\ j = 2 + N + F + B
    <2>1. ASSUME NEW j \in 1..(1 + N + F + B + R), j # 1, ~ (j - 1 \in 1..N),
                 ~ (F = 1 /\ j = 2 + N), ~ (B = 1 /\ j = 2 + N + F)
          PROVE  R = 1 /\ j = 2 + N + F + B
        BY <1>3, <2>1
    <2>2. \A j \in 1..(1 + N + F + B + R) : j - 1 \in 1..N => j = 1 + (j - 1)
        BY <1>3
    <2> QED
        BY <1>2, <2>1, <2>2
<1>5. /\ 1 \in DOMAIN D
      /\ \A n \in 1..N : 1 + n \in DOMAIN D
      /\ F = 1 => 2 + N \in DOMAIN D
      /\ B = 1 => 2 + N + F \in DOMAIN D
      /\ R = 1 => 2 + N + F + B \in DOMAIN D
    <2>1. /\ 1 \in 1..(1 + N + F + B + R)
          /\ \A n \in 1..N : 1 + n \in 1..(1 + N + F + B + R)
        BY <1>3
    <2>2. /\ F = 1 => 2 + N \in 1..(1 + N + F + B + R)
          /\ B = 1 => 2 + N + F \in 1..(1 + N + F + B + R)
          /\ R = 1 => 2 + N + F + B \in 1..(1 + N + F + B + R)
        BY <1>3
    <2> QED
        BY <1>2, <2>1, <2>2
<1>6. /\ D[1].kind = "delivery"
      /\ \A n \in 1..N : D[1 + n].kind = "dishware"
      /\ F = 1 => D[2 + N].kind = "flat"
      /\ B = 1 => D[2 + N + F].kind = "buffet_fee"
      /\ R = 1 => D[2 + N + F + B].kind = "return"
    <2>1. /\ DeliveryCharge(d).kind = "delivery" /\ FlatCharge(d, guests).kind = "flat"
          /\ BuffetCharge(d, guests).kind = "buffet_fee" /\ ReturnCharge(d).kind = "return"
        BY DEF Charge, DeliveryCharge, FlatCharge, BuffetCharge, ReturnCharge
    <2>2. \A l : DishwareCharge(l).kind = "dishware"
        BY DEF Charge, DishwareCharge
    <2> QED
        <3>1. D[1].kind = "delivery"
            BY <1>2, <2>1
        <3>2. \A n \in 1..N : D[1 + n].kind = "dishware"
            BY <1>2, <2>2
        <3>3. F = 1 => D[2 + N].kind = "flat"
            BY <1>2, <2>1
        <3>4. B = 1 => D[2 + N + F].kind = "buffet_fee"
            BY <1>2, <2>1
        <3>5. R = 1 => D[2 + N + F + B].kind = "return"
            BY <1>2, <2>1
        <3> QED
            BY <3>1, <3>2, <3>3, <3>4, <3>5
<1>7. IsFiniteSet(DOMAIN D)
    <2>1. PICK b : b = 1 + N + F + B + R
        OBVIOUS
    <2>2. b \in Int /\ 1 \in Int
        BY <1>3, <2>1
    <2>3. IsFiniteSet(1..b)
        BY <2>2, FS_Interval
    <2> QED
        BY <1>2, <2>1, <2>3
<1>8. \A j \in DOMAIN D : D[j].kind \in ChargeKinds
    BY <1>4, <1>6 DEF ChargeKinds
<1>9. OfKind(D, "delivery") = {1}
    BY <1>4, <1>5, <1>6 DEF OfKind
<1>10. OfKind(D, "dishware") = {1 + n : n \in 1..N}
    BY <1>4, <1>5, <1>6 DEF OfKind
<1>11. OfKind(D, "flat") = IF F = 1 THEN {2 + N} ELSE {}
    BY <1>4, <1>5, <1>6 DEF OfKind
<1>12. OfKind(D, "buffet_fee") = IF B = 1 THEN {2 + N + F} ELSE {}
    BY <1>4, <1>5, <1>6 DEF OfKind
<1>13. OfKind(D, "return") = IF R = 1 THEN {2 + N + F + B} ELSE {}
    BY <1>4, <1>5, <1>6 DEF OfKind
<1> QED
    BY <1>1, <1>2, <1>3, <1>7, <1>8, <1>9, <1>10, <1>11, <1>12, <1>13

LEMMA SeenKinds ==
    ASSUME NEW ps \in Seq(ChargePositions), NEW V, V = SeenList(ps)
    PROVE  /\ IsFiniteSet(DOMAIN V) /\ DOMAIN V = Compared(ps)
           /\ \A i \in DOMAIN V : /\ ps[i] \in ChargePositions
                                  /\ V[i] = ChargeSeen(ps[i])
                                  /\ V[i].kind \in ChargeKinds
           /\ \A k \in ComparedKinds : IndicesOf(k, ps) \subseteq DOMAIN V
           /\ \A k \in {"delivery", "buffet_fee", "return"} : OfKind(V, k) = IndicesOf(k, ps)
           /\ OfKind(V, "dishware") = {i \in IndicesOf("dishware", ps) : ps[i].mode = "total"}
           /\ OfKind(V, "flat") = {i \in IndicesOf("dishware", ps) : ps[i].mode = "per_person"}
<1>1. DOMAIN V = Compared(ps) /\ \A i \in DOMAIN V : V[i] = ChargeSeen(ps[i])
    BY DEF SeenList
<1>2. IsFiniteSet(DOMAIN V)
    <2>1. IsFiniteSet(DOMAIN ps)
        BY FS_Interval
    <2>2. Compared(ps) \subseteq DOMAIN ps
        BY DEF Compared
    <2> QED
        BY <1>1, <2>1, <2>2, FS_Subset
<1>3. \A i \in DOMAIN V : ps[i] \in ChargePositions /\ ComparedAs(ps[i]) \in ComparedKinds
    BY <1>1 DEF Compared
<1>4. ASSUME NEW i \in DOMAIN V
      PROVE  IF ComparedAs(ps[i]) = "dishware"
             THEN V[i].kind = IF ps[i].mode = "total" THEN "dishware" ELSE "flat"
             ELSE V[i].kind = ComparedAs(ps[i])
    <2>2. ps[i].mode = "total" => ps[i].mode # "per_person"
        OBVIOUS
    <2>3. ps[i].mode \in {"total", "per_person"}
        BY <1>3 DEF ChargePositions
    <2> QED
        <3>1. CASE ComparedAs(ps[i]) # "dishware"
            <4>1. V[i] = Charge(ComparedAs(ps[i]), "any", 1, 0, ps[i].net)
                BY <1>1, <3>1 DEF ChargeSeen
            <4>2. V[i].kind = ComparedAs(ps[i])
                BY ONLY <4>1 DEF Charge
            <4> QED
                BY <3>1, <4>2
        <3>2. CASE ComparedAs(ps[i]) = "dishware" /\ ps[i].mode = "per_person"
            <4>1. V[i] = Charge("flat", "any", ps[i].quantity, ps[i].unit, ps[i].net)
                BY <1>1, <3>2 DEF ChargeSeen
            <4>2. V[i].kind = "flat"
                BY ONLY <4>1 DEF Charge
            <4> QED
                BY <2>2, <3>2, <4>2
        <3>3. CASE ComparedAs(ps[i]) = "dishware" /\ ps[i].mode = "total"
            <4>1. V[i] = Charge("dishware", ps[i].name, ps[i].quantity, ps[i].unit, ps[i].net)
                BY <1>1, <2>2, <3>3 DEF ChargeSeen
            <4> QED
                BY <3>3, <4>1 DEF Charge
        <3> QED
            BY <2>3, <3>1, <3>2, <3>3
<1>5. /\ \A i \in DOMAIN V : /\ ComparedAs(ps[i]) \in {"delivery", "dishware", "buffet_fee", "return"}
                             /\ ps[i].mode \in {"total", "per_person"}
      /\ \A k \in ComparedKinds : IndicesOf(k, ps) \subseteq DOMAIN V
      /\ {"delivery", "dishware", "buffet_fee", "return"} \subseteq ComparedKinds
      /\ DOMAIN V \subseteq DOMAIN ps
    BY <1>1, <1>3 DEF ChargePositions, ComparedKinds, IndicesOf, Compared
<1>6. \A i \in DOMAIN V : V[i].kind \in ChargeKinds
    BY <1>4, <1>5 DEF ChargeKinds
<1>7. \A k \in {"delivery", "buffet_fee", "return"} : OfKind(V, k) = IndicesOf(k, ps)
    BY <1>4, <1>5 DEF OfKind, IndicesOf
<1>8. OfKind(V, "dishware") = {i \in IndicesOf("dishware", ps) : ps[i].mode = "total"}
    BY <1>4, <1>5 DEF OfKind, IndicesOf
<1>9. OfKind(V, "flat") = {i \in IndicesOf("dishware", ps) : ps[i].mode = "per_person"}
    BY <1>4, <1>5 DEF OfKind, IndicesOf
<1> QED
    BY <1>1, <1>2, <1>3, <1>5, <1>6, <1>7, <1>8, <1>9

LEMMA OneWithIsOne ==
    ASSUME NEW ps \in Seq(ChargePositions), NEW kind, NEW net
    PROVE  OneWith(kind, net, ps) <=>
             \E i : IndicesOf(kind, ps) = {i} /\ ps[i].net = net
<1>1. IsFiniteSet(DOMAIN ps)
    BY FS_Interval
<1>2. IndicesOf(kind, ps) \subseteq DOMAIN ps
    BY DEF IndicesOf
<1>3. IsFiniteSet(IndicesOf(kind, ps))
    BY <1>1, <1>2, FS_Subset
<1>4. Cardinality(IndicesOf(kind, ps)) = 1 <=> \E i : IndicesOf(kind, ps) = {i}
    BY <1>3, FS_Singleton
<1> QED
    BY <1>4, Zenon DEF OneWith

LEMMA DeliveryIsCompared ==
    ASSUME NEW d, NEW guests, NEW ps, IsPut(d, guests, ps), NEW V, V = SeenList(ps),
           NEW D, D = DeclaredList(d, guests)
    PROVE  KindAgrees(V, D, "delivery") <=> DeliveryAgrees(d, ps)
<1>1. ps \in Seq(ChargePositions) /\ d \in Declarations /\ guests \in Nat
    BY DEF IsPut
<1>2. OfKind(V, "delivery") = IndicesOf("delivery", ps)
    BY <1>1, SeenKinds
<1>3. OfKind(D, "delivery") = {1} /\ D[1] = DeliveryCharge(d)
    BY <1>1, DeclaredKinds
<1>4. ASSUME NEW i \in IndicesOf("delivery", ps)
      PROVE  V[i] = D[1] <=> ps[i].net = d.delivery
    <2>1. i \in DOMAIN V /\ i \in DOMAIN ps /\ ComparedAs(ps[i]) = "delivery"
        BY <1>2 DEF IndicesOf, OfKind
    <2>2. V[i] = ChargeSeen(ps[i])
        BY <1>1, <2>1, SeenKinds
    <2>3. V[i] = Charge("delivery", "any", 1, 0, ps[i].net)
        BY <2>1, <2>2 DEF ChargeSeen
    <2> QED
        BY <1>3, <2>3 DEF Charge, DeliveryCharge
<1>5. DeliveryAgrees(d, ps) <=>
        \E i : IndicesOf("delivery", ps) = {i} /\ ps[i].net = d.delivery
    BY <1>1, OneWithIsOne DEF DeliveryAgrees
<1> QED
    BY <1>2, <1>3, <1>4, <1>5 DEF KindAgrees

LEMMA BuffetIsCompared ==
    ASSUME NEW d, NEW guests, NEW ps, IsPut(d, guests, ps), NEW V, V = SeenList(ps),
           NEW D, D = DeclaredList(d, guests)
    PROVE  BuffetAgrees(d, ps, guests) <=>
             KindAgrees(V, D, "buffet_fee") /\ (d.buffet => guests # NoGuests)
<1>1. /\ ps \in Seq(ChargePositions) /\ d \in Declarations /\ guests \in Nat
      /\ d.buffet \in BOOLEAN
    BY DEF IsPut, Declarations
<1>2. OfKind(V, "buffet_fee") = IndicesOf("buffet_fee", ps)
    BY <1>1, SeenKinds
<1>3. IF d.buffet THEN \E j : OfKind(D, "buffet_fee") = {j} /\ D[j] = BuffetCharge(d, guests)
                  ELSE OfKind(D, "buffet_fee") = {}
    BY <1>1, DeclaredKinds
<1>4. ASSUME NEW i \in IndicesOf("buffet_fee", ps)
      PROVE  V[i] = BuffetCharge(d, guests) <=> ps[i].net = guests * d.buffetUnit
    <2>1. i \in DOMAIN V /\ i \in DOMAIN ps /\ ComparedAs(ps[i]) = "buffet_fee"
        BY <1>2 DEF IndicesOf, OfKind
    <2>2. V[i] = ChargeSeen(ps[i])
        BY <1>1, <2>1, SeenKinds
    <2>3. V[i] = Charge("buffet_fee", "any", 1, 0, ps[i].net)
        BY <2>1, <2>2 DEF ChargeSeen
    <2> QED
        BY <2>3 DEF Charge, BuffetCharge
<1>5. OneWith("buffet_fee", guests * d.buffetUnit, ps) <=>
        \E i : IndicesOf("buffet_fee", ps) = {i} /\ ps[i].net = guests * d.buffetUnit
    BY <1>1, OneWithIsOne
<1>6. CASE d.buffet
    <2>1. PICK j : OfKind(D, "buffet_fee") = {j} /\ D[j] = BuffetCharge(d, guests)
        BY <1>3, <1>6
    <2>2. KindAgrees(V, D, "buffet_fee") <=>
            \E i : IndicesOf("buffet_fee", ps) = {i} /\ V[i] = BuffetCharge(d, guests)
        BY <1>2, <2>1 DEF KindAgrees
    <2> QED
        BY <1>4, <1>5, <1>6, <2>2 DEF BuffetAgrees
<1>7. CASE ~ d.buffet
    <2>1. KindAgrees(V, D, "buffet_fee") <=> IndicesOf("buffet_fee", ps) = {}
        BY <1>2, <1>3, <1>7 DEF KindAgrees
    <2> QED
        BY <1>7, <2>1 DEF BuffetAgrees, NoneOf
<1> QED
    BY <1>1, <1>6, <1>7

\* Of the pickup on the same day the amount per piece is compared as well, which the
\* amount implies when the position is a total of one piece that adds up.
LEMMA ReturnIsCompared ==
    ASSUME NEW d, NEW guests, NEW ps, IsPut(d, guests, ps), NEW V, V = SeenList(ps),
           NEW D, D = DeclaredList(d, guests),
           \A i \in DOMAIN ps : PositionAdds(ps[i], guests)
    PROVE  ReturnAgrees(d, ps) <=>
             /\ KindAgrees(V, D, "return")
             /\ \A i \in IndicesOf("return", ps) : ps[i].mode = "total"
<1>1. /\ ps \in Seq(ChargePositions) /\ d \in Declarations /\ guests \in Nat
      /\ d.sameDay \in BOOLEAN
    BY DEF IsPut, Declarations
<1>2. OfKind(V, "return") = IndicesOf("return", ps)
    BY <1>1, SeenKinds
<1>3. IF d.sameDay THEN \E j : OfKind(D, "return") = {j} /\ D[j] = ReturnCharge(d)
                   ELSE OfKind(D, "return") = {}
    BY <1>1, DeclaredKinds
<1>4. ASSUME NEW i \in IndicesOf("return", ps)
      PROVE  /\ V[i] = ReturnCharge(d) <=> ps[i].net = d.returnFee
             /\ ps[i].quantity = 1
             /\ ps[i].mode = "total" => ps[i].net = ps[i].unit
    <2>1. i \in DOMAIN V /\ i \in DOMAIN ps /\ ComparedAs(ps[i]) = "return"
        BY <1>2 DEF IndicesOf, OfKind
    <2>2. V[i] = ChargeSeen(ps[i]) /\ ps[i] \in ChargePositions
        BY <1>1, <2>1, SeenKinds
    <2>3. V[i] = Charge("return", "any", 1, 0, ps[i].net)
        BY <2>1, <2>2 DEF ChargeSeen
    <2>4. ps[i].quantity = 1 /\ ps[i].unit \in Nat
        BY <2>1, <2>2 DEF IsPut, ChargePositions
    <2>5. ps[i].mode = "total" => Heads(guests, ps[i].mode) = 1
        BY DEF Heads
    <2>6. ps[i].mode = "total" => ps[i].net = ps[i].unit * 1 * 1
        BY <2>1, <2>4, <2>5 DEF PositionAdds
    <2>7. V[i] = ReturnCharge(d) <=> ps[i].net = d.returnFee
        BY <2>3 DEF Charge, ReturnCharge
    <2> QED
        BY <2>4, <2>6, <2>7
<1>5. OneWith("return", d.returnFee, ps) <=>
        \E i : IndicesOf("return", ps) = {i} /\ ps[i].net = d.returnFee
    BY <1>1, OneWithIsOne
<1>6. CASE d.sameDay
    <2>1. PICK j : OfKind(D, "return") = {j} /\ D[j] = ReturnCharge(d)
        BY <1>3, <1>6
    <2>2. KindAgrees(V, D, "return") <=>
            \E i : IndicesOf("return", ps) = {i} /\ V[i] = ReturnCharge(d)
        BY <1>2, <2>1 DEF KindAgrees
    <2> QED
        BY <1>4, <1>5, <1>6, <2>2 DEF ReturnAgrees
<1>7. CASE ~ d.sameDay
    <2>1. KindAgrees(V, D, "return") <=> IndicesOf("return", ps) = {}
        BY <1>2, <1>3, <1>7 DEF KindAgrees
    <2> QED
        BY <1>7, <2>1 DEF ReturnAgrees, NoneOf
<1> QED
    BY <1>1, <1>6, <1>7

\* What a flat rate for dishware is compared with.
FlatAgrees(d, ps, guests) ==
    LET flat == {i \in IndicesOf("dishware", ps) : ps[i].mode = "per_person"}
    IN  IF d.flat
        THEN /\ guests # NoGuests
             /\ Cardinality(flat) = 1
             /\ \A i \in flat : ps[i].quantity = 1 /\ ps[i].unit = d.flatUnit
        ELSE flat = {}

LEMMA FlatIsCompared ==
    ASSUME NEW d, NEW guests, NEW ps, IsPut(d, guests, ps), NEW V, V = SeenList(ps),
           NEW D, D = DeclaredList(d, guests),
           \A i \in DOMAIN ps : PositionAdds(ps[i], guests)
    PROVE  FlatAgrees(d, ps, guests) <=>
             KindAgrees(V, D, "flat") /\ (d.flat => guests # NoGuests)
<1>1. /\ ps \in Seq(ChargePositions) /\ d \in Declarations /\ guests \in Nat
      /\ d.flat \in BOOLEAN /\ d.flatUnit \in Nat
    BY DEF IsPut, Declarations
<1>2. PICK flat : flat = {i \in IndicesOf("dishware", ps) : ps[i].mode = "per_person"}
    OBVIOUS
<1>3. OfKind(V, "flat") = flat
    BY <1>1, <1>2, SeenKinds
<1>4. IF d.flat THEN \E j : OfKind(D, "flat") = {j} /\ D[j] = FlatCharge(d, guests)
                ELSE OfKind(D, "flat") = {}
    BY <1>1, DeclaredKinds
<1>5. ASSUME NEW i \in flat
      PROVE  V[i] = FlatCharge(d, guests) <=> ps[i].quantity = 1 /\ ps[i].unit = d.flatUnit
    <2>1. i \in DOMAIN V /\ i \in DOMAIN ps /\ ComparedAs(ps[i]) = "dishware" /\ ps[i].mode = "per_person"
        BY <1>2, <1>3 DEF IndicesOf, OfKind
    <2>2. V[i] = ChargeSeen(ps[i]) /\ ps[i] \in ChargePositions
        BY <1>1, <2>1, SeenKinds
    <2>3. V[i] = Charge("flat", "any", ps[i].quantity, ps[i].unit, ps[i].net)
        BY <2>1, <2>2 DEF ChargeSeen
    <2>4. V[i] = FlatCharge(d, guests) <=> /\ ps[i].quantity = 1 /\ ps[i].unit = d.flatUnit
                                           /\ ps[i].net = guests * d.flatUnit
        BY <2>3 DEF Charge, FlatCharge
    <2>5. Heads(guests, ps[i].mode) = guests
        BY <2>1 DEF Heads
    <2>6. ps[i].net = ps[i].unit * ps[i].quantity * guests
        BY <2>1, <2>5 DEF PositionAdds
    <2>7. d.flatUnit * 1 * guests = guests * d.flatUnit
        BY <1>1
    <2> QED
        BY <2>4, <2>6, <2>7
<1>6. Cardinality(flat) = 1 <=> \E i : flat = {i}
    <2>1. IsFiniteSet(DOMAIN ps)
        BY <1>1, FS_Interval
    <2>2. flat \subseteq DOMAIN ps
        BY <1>2 DEF IndicesOf
    <2>3. IsFiniteSet(flat)
        BY <2>1, <2>2, FS_Subset
    <2> QED
        BY <2>3, FS_Singleton
<1>7. CASE d.flat
    <2>1. PICK j : OfKind(D, "flat") = {j} /\ D[j] = FlatCharge(d, guests)
        BY <1>4, <1>7
    <2>2. KindAgrees(V, D, "flat") <=> \E i : flat = {i} /\ V[i] = FlatCharge(d, guests)
        BY <1>3, <2>1 DEF KindAgrees
    <2> QED
        BY <1>2, <1>5, <1>6, <1>7, <2>2 DEF FlatAgrees
<1>8. CASE ~ d.flat
    <2>1. KindAgrees(V, D, "flat") <=> flat = {}
        BY <1>3, <1>4, <1>8 DEF KindAgrees
    <2> QED
        BY <1>2, <1>8, <2>1 DEF FlatAgrees
<1> QED
    BY <1>1, <1>7, <1>8

\* The sets LinesTake leaves, one after the other: what is left when n lines have
\* taken theirs.
TakeStep(lines, ps, g, n) ==
    IF n = 0 THEN {i \in IndicesOf("dishware", ps) : ps[i].mode = "total"}
    ELSE LET hits == {i \in g[n - 1] \ NoMatch : Fits(ps[i], lines[n])}
         IN  IF g[n - 1] = NoMatch \/ Cardinality(hits) # 1 THEN NoMatch
             ELSE g[n - 1] \ hits

IsTaking(lines, ps, g, k) == g = [n \in 0..k |-> TakeStep(lines, ps, g, n)]
Taking(lines, ps) == CHOOSE g : IsTaking(lines, ps, g, Len(lines))

LEMMA LinesTakeIsTaking ==
    ASSUME NEW lines, NEW ps
    PROVE  LinesTake(lines, ps) = Taking(lines, ps)[Len(lines)]
BY DEF LinesTake, Taking, IsTaking, TakeStep

LEMMA TakingExists ==
    ASSUME NEW lines, NEW ps, NEW k \in Nat PROVE \E g : IsTaking(lines, ps, g, k)
<1> DEFINE T == {n \in Nat : ~ \E g : IsTaking(lines, ps, g, n)}
<1>1. SUFFICES ASSUME T # {} PROVE FALSE
    OBVIOUS
<1>2. PICK n \in T : \A j \in T : n <= j
    BY <1>1, LeastExists, T \subseteq Nat
<1>3. n \in Nat /\ ~ \E g : IsTaking(lines, ps, g, n)
    OBVIOUS
<1>4. CASE n = 0
    <2>1. PICK first : first = {i \in IndicesOf("dishware", ps) : ps[i].mode = "total"}
        OBVIOUS
    <2> DEFINE h == [i \in 0..0 |-> first]
    <2>2. \A i \in 0..0 : TakeStep(lines, ps, h, i) = first
        BY <2>1 DEF TakeStep
    <2>3. IsTaking(lines, ps, h, 0)
        BY <2>2 DEF IsTaking
    <2> QED
        BY <2>3, <1>3, <1>4
<1>5. CASE n # 0
    <2>1. n - 1 \in Nat /\ n - 1 \notin T
        BY <1>2, <1>3, <1>5
    <2>2. PICK g : IsTaking(lines, ps, g, n - 1)
        BY <2>1
    <2> DEFINE h == [i \in 0..n |-> IF i = n THEN TakeStep(lines, ps, g, n) ELSE g[i]]
    <2>3. \A i \in 0..n : i # 0 => i - 1 \in 0..n /\ i - 1 # n /\ h[i - 1] = g[i - 1]
        BY <1>3
    <2>4. \A i \in 0..n : TakeStep(lines, ps, h, i) = TakeStep(lines, ps, g, i)
        <3> HIDE DEF h
        <3> QED
            BY <2>3 DEF TakeStep
    <2>5. \A i \in 0..n : i # n => g[i] = TakeStep(lines, ps, g, i)
        BY <2>2, <1>3 DEF IsTaking
    <2>6. ASSUME NEW i \in 0..n PROVE h[i] = TakeStep(lines, ps, g, i)
        <3>1. h[i] = IF i = n THEN TakeStep(lines, ps, g, n) ELSE g[i]
            OBVIOUS
        <3> HIDE DEF h
        <3>2. CASE i = n
            BY <3>1, <3>2
        <3>3. CASE i # n
            BY <2>5, <3>1, <3>3
        <3> QED
            BY <3>2, <3>3
    <2>7. \A i \in 0..n : h[i] = TakeStep(lines, ps, h, i)
        BY <2>4, <2>6
    <2>8. h = [i \in 0..n |-> h[i]]
        OBVIOUS
    <2>9. h = [i \in 0..n |-> TakeStep(lines, ps, h, i)]
        <3> HIDE DEF h
        <3> QED
            BY <2>7, <2>8
    <2> QED
        BY <2>9, <1>3 DEF IsTaking
<1> QED
    BY <1>4, <1>5

LEMMA TakingSteps ==
    ASSUME NEW lines \in Seq(DishwareLines), NEW ps, NEW n \in 0..Len(lines)
    PROVE  Taking(lines, ps)[n] = TakeStep(lines, ps, Taking(lines, ps), n)
<1>1. \E g : IsTaking(lines, ps, g, Len(lines))
    <2>1. Len(lines) \in Nat
        OBVIOUS
    <2> QED
        BY <2>1, TakingExists
<1>2. PICK g : g = Taking(lines, ps)
    OBVIOUS
<1>3. IsTaking(lines, ps, g, Len(lines))
    BY <1>1, <1>2 DEF Taking
<1>4. g[n] = TakeStep(lines, ps, g, n)
    BY <1>3 DEF IsTaking
<1> QED
    BY <1>2, <1>4

TotalDishware(ps) == {i \in IndicesOf("dishware", ps) : ps[i].mode = "total"}

\* When nothing is left, each line took a position of its own that fits it, and all
\* were taken.
LEMMA EachLineTookOne ==
    ASSUME NEW lines \in Seq(DishwareLines), NEW ps \in Seq(ChargePositions),
           LinesTake(lines, ps) = {}
    PROVE  \E m \in Bijection(1..Len(lines), TotalDishware(ps)) :
             \A n \in 1..Len(lines) : Fits(ps[m[n]], lines[n])
<1>1. PICK T, N : T = Taking(lines, ps) /\ N = Len(lines)
    OBVIOUS
<1>2. N \in Nat /\ T[N] = {} /\ \A n \in 0..N : T[n] = TakeStep(lines, ps, T, n)
    BY <1>1, LinesTakeIsTaking, TakingSteps
<1>3. T[0] = TotalDishware(ps)
    <2>1. 0 \in 0..N
        BY <1>2
    <2>2. T[0] = TakeStep(lines, ps, T, 0)
        BY <1>2, <2>1
    <2> QED
        BY <2>2 DEF TakeStep, TotalDishware
<1>4. IsFiniteSet(TotalDishware(ps)) /\ 0 \notin TotalDishware(ps)
    <2>1. IsFiniteSet(DOMAIN ps)
        BY FS_Interval
    <2>2. TotalDishware(ps) \subseteq DOMAIN ps /\ 0 \notin DOMAIN ps
        BY DEF TotalDishware, IndicesOf
    <2> QED
        BY <2>1, <2>2, FS_Subset
<1>5. ASSUME NEW n \in 1..N, T[n - 1] = NoMatch PROVE T[n] = NoMatch
    <2>1. n \in 0..N /\ n # 0
        OBVIOUS
    <2>2. T[n] = TakeStep(lines, ps, T, n)
        BY <1>2, <2>1
    <2> QED
        BY <1>5, <2>1, <2>2 DEF TakeStep
<1>6. ASSUME NEW a \in 0..N PROVE T[a] # NoMatch
    <2> DEFINE Out == {k \in Nat : k \in a..N /\ T[k] # NoMatch}
    <2>1. SUFFICES ASSUME T[a] = NoMatch PROVE FALSE
        OBVIOUS
    <2>2. N \in Out
        <3>1. N \in Nat /\ N \in a..N
            BY <1>2
        <3>2. T[N] # NoMatch
            BY <1>2 DEF NoMatch
        <3> QED
            BY <3>1, <3>2
    <2>3. PICK k \in Out : \A j \in Out : k <= j
        BY <2>2, LeastExists, Out \subseteq Nat
    <2>4. k \in Nat /\ k \in a..N /\ T[k] # NoMatch /\ k # a
        BY <2>1, <2>3
    <2>5. k - 1 \in a..N /\ k \in 1..N /\ k - 1 \in Nat /\ ~ (k <= k - 1)
        BY <1>2, <2>4
    <2>6. T[k - 1] = NoMatch
        BY <2>3, <2>5
    <2> QED
        BY <1>5, <2>4, <2>5, <2>6
<1>7. ASSUME NEW n \in 1..N
      PROVE  LET hits == {i \in T[n - 1] \ NoMatch : Fits(ps[i], lines[n])}
             IN  Cardinality(hits) = 1 /\ T[n] = T[n - 1] \ hits
    <2>1. n \in 0..N /\ n # 0 /\ n - 1 \in 0..N
        BY <1>2
    <2>2. T[n] = TakeStep(lines, ps, T, n) /\ T[n] # NoMatch /\ T[n - 1] # NoMatch
        BY <1>2, <1>6, <2>1
    <2> QED
        BY <2>1, <2>2 DEF TakeStep
<1>8. \A n \in 1..N : T[n] \subseteq T[n - 1]
    BY <1>7
<1>9. ASSUME NEW a \in 0..N, NEW b \in a..N PROVE T[b] \subseteq T[a]
    <2> DEFINE Bad == {k \in Nat : k \in a..N /\ ~ (T[k] \subseteq T[a])}
    <2>1. SUFFICES ASSUME Bad # {} PROVE FALSE
        BY <1>2
    <2>2. PICK k \in Bad : \A j \in Bad : k <= j
        BY <2>1, LeastExists, Bad \subseteq Nat
    <2>3. k \in Nat /\ k \in a..N /\ ~ (T[k] \subseteq T[a]) /\ k # a
        BY <2>2
    <2>4. k - 1 \in a..N /\ k \in 1..N /\ k - 1 \in Nat /\ ~ (k <= k - 1)
        BY <1>2, <2>3
    <2>5. T[k - 1] \subseteq T[a]
        BY <2>2, <2>4
    <2> QED
        BY <1>8, <2>3, <2>4, <2>5
<1>10. ASSUME NEW n \in 1..N
       PROVE  \E i : i \in T[n - 1] /\ Fits(ps[i], lines[n]) /\ T[n] = T[n - 1] \ {i}
    <2>1. PICK hits : /\ hits = {i \in T[n - 1] \ NoMatch : Fits(ps[i], lines[n])}
                      /\ Cardinality(hits) = 1 /\ T[n] = T[n - 1] \ hits
        BY <1>7
    <2>2. 0 \in 0..N /\ n - 1 \in 0..N
        BY <1>2
    <2>3. hits \subseteq TotalDishware(ps)
        BY <1>3, <1>9, <2>1, <2>2
    <2>4. IsFiniteSet(hits)
        BY <1>4, <2>3, FS_Subset
    <2>5. PICK i : hits = {i}
        BY <2>1, <2>4, FS_Singleton
    <2> QED
        BY <2>1, <2>5
<1> DEFINE m == [n \in 1..N |-> CHOOSE i : /\ i \in T[n - 1] /\ Fits(ps[i], lines[n])
                                           /\ T[n] = T[n - 1] \ {i}]
<1>11. \A n \in 1..N : /\ m[n] \in T[n - 1] /\ Fits(ps[m[n]], lines[n])
                       /\ T[n] = T[n - 1] \ {m[n]}
    BY <1>10
<1>12. m = [n \in 1..N |-> m[n]]
    OBVIOUS
<1> HIDE DEF m
<1>13. m \in [1..N -> TotalDishware(ps)]
    <2>1. \A n \in 1..N : n - 1 \in 0..N /\ 0 \in 0..N
        BY <1>2
    <2>2. \A n \in 1..N : m[n] \in TotalDishware(ps)
        BY <1>3, <1>9, <1>11, <2>1
    <2> QED
        BY <1>12, <2>2
<1>14. ASSUME NEW a \in 1..N, NEW b \in 1..N, a < b PROVE m[a] # m[b]
    <2>1. a \in 0..N /\ b - 1 \in a..N
        BY <1>2, <1>14
    <2>2. m[b] \in T[a]
        BY <1>9, <1>11, <2>1
    <2> QED
        BY <1>11, <2>2
<1>15. m \in Injection(1..N, TotalDishware(ps))
    <2>1. \A a, b \in 1..N : a = b \/ a < b \/ b < a
        BY <1>2
    <2>2. IsInjective(m)
        BY <1>13, <1>14, <2>1 DEF IsInjective
    <2> QED
        BY <1>13, <2>2 DEF Injection
<1>16. ASSUME NEW i \in TotalDishware(ps) PROVE \E n \in 1..N : m[n] = i
    <2> DEFINE Gone == {k \in Nat : k \in 0..N /\ i \notin T[k]}
    <2>1. N \in Gone
        BY <1>2
    <2>2. PICK k \in Gone : \A j \in Gone : k <= j
        BY <2>1, LeastExists, Gone \subseteq Nat
    <2>3. k \in Nat /\ k \in 0..N /\ i \notin T[k] /\ k # 0
        BY <1>3, <2>2
    <2>4. k \in 1..N /\ k - 1 \in Nat /\ k - 1 \in 0..N /\ ~ (k <= k - 1)
        BY <1>2, <2>3
    <2>5. i \in T[k - 1]
        BY <2>2, <2>4
    <2> QED
        BY <1>11, <2>3, <2>4, <2>5
<1>17. m \in Surjection(1..N, TotalDishware(ps))
    BY <1>13, <1>16 DEF Surjection
<1> QED
    BY <1>1, <1>11, <1>15, <1>17 DEF Bijection

\* Lines that each fit one position, all of them different ones and all there are,
\* leave nothing.
LEMMA LinesWithOneEachTakeAll ==
    ASSUME NEW lines \in Seq(DishwareLines), NEW ps \in Seq(ChargePositions), NEW m,
           m \in Injection(1..Len(lines), TotalDishware(ps)),
           \A i \in TotalDishware(ps) : \E n \in 1..Len(lines) : m[n] = i,
           \A n \in 1..Len(lines) :
              {i \in TotalDishware(ps) : Fits(ps[i], lines[n])} = {m[n]}
    PROVE  LinesTake(lines, ps) = {}
<1>1. PICK T, N, P : T = Taking(lines, ps) /\ N = Len(lines) /\ P = TotalDishware(ps)
    OBVIOUS
<1>2. N \in Nat /\ \A n \in 0..N : T[n] = TakeStep(lines, ps, T, n)
    BY <1>1, TakingSteps
<1>3. 0 \notin P
    BY <1>1 DEF TotalDishware, IndicesOf
<1>4. /\ m \in [1..N -> P] /\ \A a, b \in 1..N : m[a] = m[b] => a = b
      /\ \A i \in P : \E n \in 1..N : m[n] = i
      /\ \A n \in 1..N : {i \in P : Fits(ps[i], lines[n])} = {m[n]}
    BY <1>1 DEF Injection, IsInjective
<1> DEFINE Left(n) == P \ {m[j] : j \in 1..n}
           Bad == {n \in Nat : n \in 0..N /\ T[n] # Left(n)}
<1>5. T[0] = Left(0)
    <2>1. 0 \in 0..N
        BY <1>2
    <2>2. T[0] = TakeStep(lines, ps, T, 0)
        BY <1>2, <2>1
    <2>3. T[0] = P
        BY <1>1, <2>2 DEF TakeStep, TotalDishware
    <2>4. 1..0 = {}
        OBVIOUS
    <2> QED
        BY <2>3, <2>4
<1>6. ASSUME NEW n \in 1..N, T[n - 1] = Left(n - 1) PROVE T[n] = Left(n)
    <2>1. n \in 0..N /\ n # 0 /\ n \in Nat
        BY <1>2
    <2>2. T[n] = TakeStep(lines, ps, T, n)
        BY <1>2, <2>1
    <2>3. T[n - 1] \subseteq P /\ T[n - 1] # NoMatch /\ T[n - 1] \ NoMatch = T[n - 1]
        BY <1>3, <1>6 DEF NoMatch
    <2>4. m[n] \in P
        BY <1>4
    <2>5. \A j \in 1..(n - 1) : j \in 1..N /\ j # n
        BY <1>2
    <2>6. m[n] \in T[n - 1]
        BY <1>4, <1>6, <2>4, <2>5
    <2>7. PICK hits : hits = {i \in T[n - 1] \ NoMatch : Fits(ps[i], lines[n])}
        OBVIOUS
    <2>8. hits = {m[n]}
        BY <1>4, <2>3, <2>6, <2>7
    <2>9. Cardinality(hits) = 1
        BY <2>8, FS_Singleton
    <2>10. T[n] = T[n - 1] \ {m[n]}
        BY <2>1, <2>2, <2>3, <2>7, <2>8, <2>9 DEF TakeStep
    <2>11. 1..n = 1..(n - 1) \cup {n}
        BY <2>1
    <2> QED
        BY <1>6, <2>10, <2>11
<1> HIDE DEF Left
<1>7. Bad = {}
    <2>1. SUFFICES ASSUME Bad # {} PROVE FALSE
        OBVIOUS
    <2>2. PICK n \in Bad : \A j \in Bad : n <= j
        BY <2>1, LeastExists, Bad \subseteq Nat
    <2>3. n \in Nat /\ n \in 0..N /\ T[n] # Left(n) /\ n # 0
        BY <1>5, <2>2
    <2>4. n \in 1..N /\ n - 1 \in Nat /\ n - 1 \in 0..N /\ ~ (n <= n - 1)
        BY <1>2, <2>3
    <2>5. T[n - 1] = Left(n - 1)
        BY <2>2, <2>4
    <2> QED
        BY <1>6, <2>3, <2>4, <2>5
<1>8. T[N] = Left(N)
    <2>1. N \in Nat /\ N \in 0..N
        BY <1>2
    <2> QED
        BY <1>7, <2>1
<1>9. Left(N) = {}
    BY <1>4 DEF Left
<1> QED
    BY <1>1, <1>8, <1>9, LinesTakeIsTaking

LEMMA DishwareEntry ==
    ASSUME NEW d, NEW guests, NEW ps, IsPut(d, guests, ps), NEW V, V = SeenList(ps)
    PROVE  /\ OfKind(V, "dishware") = TotalDishware(ps)
           /\ \A i \in TotalDishware(ps), n \in 1..Len(d.lines) :
                V[i] = DishwareCharge(d.lines[n]) <=> Fits(ps[i], d.lines[n])
<1>1. ps \in Seq(ChargePositions) /\ d.lines \in Seq(DishwareLines)
    BY DEF IsPut, Declarations
<1>2. OfKind(V, "dishware") = TotalDishware(ps)
    BY <1>1, SeenKinds DEF TotalDishware
<1>3. ASSUME NEW i \in TotalDishware(ps), NEW n \in 1..Len(d.lines)
      PROVE  V[i] = DishwareCharge(d.lines[n]) <=> Fits(ps[i], d.lines[n])
    <2>1. i \in DOMAIN V /\ i \in DOMAIN ps /\ ComparedAs(ps[i]) = "dishware" /\ ps[i].mode # "per_person"
        BY <1>2 DEF TotalDishware, IndicesOf, OfKind
    <2>2. V[i] = ChargeSeen(ps[i])
        BY <1>1, <2>1, SeenKinds
    <2>3. V[i] = Charge("dishware", ps[i].name, ps[i].quantity, ps[i].unit, ps[i].net)
        BY <2>1, <2>2 DEF ChargeSeen
    <2> QED
        BY <2>3 DEF Charge, DishwareCharge, Fits
<1> QED
    BY <1>2, <1>3

LEMMA TakenLinesAreCounted ==
    ASSUME NEW d, NEW guests, NEW ps, IsPut(d, guests, ps), NEW V, V = SeenList(ps),
           NEW D, D = DeclaredList(d, guests), LinesTake(d.lines, ps) = {},
           NEW x, x.kind = "dishware"
    PROVE  SameCounts(V, D, x)
<1>1. /\ ps \in Seq(ChargePositions) /\ d \in Declarations /\ guests \in Nat
      /\ d.lines \in Seq(DishwareLines)
    BY DEF IsPut, Declarations
<1>2. PICK N, P : N = Len(d.lines) /\ P = TotalDishware(ps) /\ N \in Nat
    BY <1>1
<1>3. PICK m \in Bijection(1..N, P) : \A n \in 1..N : Fits(ps[m[n]], d.lines[n])
    BY <1>1, <1>2, EachLineTookOne
<1>4. /\ m \in [1..N -> P] /\ \A a, b \in 1..N : m[a] = m[b] => a = b
      /\ \A i \in P : \E n \in 1..N : m[n] = i
    BY <1>3 DEF Bijection, Injection, Surjection, IsInjective
<1>5. /\ OfKind(V, "dishware") = P
      /\ \A n \in 1..N : V[m[n]] = DishwareCharge(d.lines[n])
    BY <1>2, <1>3, <1>4, DishwareEntry
<1>6. /\ OfKind(D, "dishware") = {1 + n : n \in 1..N}
      /\ \A n \in 1..N : D[1 + n] = DishwareCharge(d.lines[n])
      /\ IsFiniteSet(DOMAIN D)
    BY <1>1, <1>2, DeclaredKinds
<1>7. At(V, x) \subseteq P /\ At(D, x) \subseteq {1 + n : n \in 1..N}
    BY <1>5, <1>6 DEF At, OfKind
<1>8. P \subseteq DOMAIN V /\ {1 + n : n \in 1..N} \subseteq DOMAIN D
    BY <1>5, <1>6 DEF OfKind
<1> DEFINE f == [j \in At(D, x) |-> m[j - 1]]
<1>9. ASSUME NEW j \in At(D, x)
      PROVE  j - 1 \in 1..N /\ D[j] = x /\ V[m[j - 1]] = x /\ m[j - 1] \in P
    <2>1. PICK n \in 1..N : j = 1 + n
        BY <1>7
    <2>2. j - 1 = n
        BY <2>1
    <2>3. D[j] = x
        BY DEF At
    <2> QED
        BY <1>4, <1>5, <1>6, <2>1, <2>2, <2>3
<1>10. \A j \in At(D, x) : f[j] = m[j - 1] /\ f[j] \in At(V, x)
    BY <1>8, <1>9 DEF At
<1>11. f \in [At(D, x) -> At(V, x)]
    BY <1>10
<1> HIDE DEF f
<1>12. \A a, b \in At(D, x) : f[a] = f[b] => a = b
    <2>1. ASSUME NEW a \in At(D, x), NEW b \in At(D, x), f[a] = f[b] PROVE a = b
        <3>1. a - 1 = b - 1
            BY <1>4, <1>9, <1>10, <2>1
        <3>2. a \in Int /\ b \in Int
            BY <1>7
        <3> QED
            BY <3>1, <3>2
    <2> QED
        BY <2>1
<1>13. ASSUME NEW i \in At(V, x) PROVE \E j \in At(D, x) : f[j] = i
    <2>1. PICK n \in 1..N : m[n] = i
        BY <1>4, <1>7
    <2>2. 1 + n \in DOMAIN D /\ D[1 + n] = x
        <3>1. V[i] = x
            BY DEF At
        <3> QED
            BY <1>5, <1>6, <1>8, <2>1, <3>1
    <2>3. 1 + n \in At(D, x) /\ (1 + n) - 1 = n
        BY <2>2 DEF At
    <2> QED
        BY <1>10, <2>1, <2>3
<1>14. f \in Bijection(At(D, x), At(V, x))
    BY <1>11, <1>12, <1>13 DEF Bijection, Injection, Surjection, IsInjective
<1>15. IsFiniteSet(At(D, x))
    <2>1. At(D, x) \subseteq DOMAIN D
        BY DEF At
    <2> QED
        BY <1>6, <2>1, FS_Subset
<1>16. ExistsBijection(At(D, x), At(V, x))
    BY <1>14 DEF ExistsBijection
<1> QED
    BY <1>15, <1>16, FS_Bijection DEF SameCounts

LEMMA CountedLinesAreTaken ==
    ASSUME NEW d, NEW guests, NEW ps, IsPut(d, guests, ps), NEW V, V = SeenList(ps),
           NEW D, D = DeclaredList(d, guests), ToBag(V) = ToBag(D), IsInjective(d.lines)
    PROVE  LinesTake(d.lines, ps) = {}
<1>1. /\ ps \in Seq(ChargePositions) /\ d \in Declarations /\ guests \in Nat
      /\ d.lines \in Seq(DishwareLines)
    BY DEF IsPut, Declarations
<1>2. PICK N, P : N = Len(d.lines) /\ P = TotalDishware(ps) /\ N \in Nat
    BY <1>1
<1>3. /\ OfKind(V, "dishware") = P
      /\ \A i \in P, n \in 1..N : V[i] = DishwareCharge(d.lines[n]) <=> Fits(ps[i], d.lines[n])
    BY <1>2, DishwareEntry
<1>4. /\ OfKind(D, "dishware") = {1 + n : n \in 1..N}
      /\ \A n \in 1..N : D[1 + n] = DishwareCharge(d.lines[n])
    BY <1>1, <1>2, DeclaredKinds
<1>5. IsFiniteSet(DOMAIN V)
    BY <1>1, SeenKinds
<1>6. \A x : /\ Cardinality(At(V, x)) = Cardinality(At(D, x))
             /\ At(V, x) = {} <=> At(D, x) = {}
    BY CountsOfBags
<1>7. \A n \in 1..N : 1 + n \in DOMAIN D /\ D[1 + n].kind = "dishware"
    BY <1>4 DEF OfKind
<1>8. \A i \in P : i \in DOMAIN V /\ V[i].kind = "dishware"
    BY <1>3 DEF OfKind
<1>9. ASSUME NEW a \in 1..N, NEW b \in 1..N, D[1 + a] = D[1 + b] PROVE a = b
    <2>1. d.lines[a] \in DishwareLines /\ d.lines[b] \in DishwareLines
        BY <1>1, <1>2
    <2>2. DishwareCharge(d.lines[a]) = DishwareCharge(d.lines[b])
        BY <1>4, <1>9
    <2>3. /\ d.lines[a].name = d.lines[b].name /\ d.lines[a].quantity = d.lines[b].quantity
          /\ d.lines[a].unit = d.lines[b].unit
        BY <2>2 DEF DishwareCharge, Charge
    <2>4. d.lines[a] = d.lines[b]
        BY <2>1, <2>3 DEF DishwareLines
    <2>5. a \in DOMAIN d.lines /\ b \in DOMAIN d.lines
        BY <1>1, <1>2
    <2> QED
        BY <2>4, <2>5 DEF IsInjective
<1>10. ASSUME NEW n \in 1..N PROVE At(D, D[1 + n]) = {1 + n}
    <2>1. At(D, D[1 + n]) \subseteq {1 + k : k \in 1..N}
        BY <1>4, <1>7 DEF At, OfKind
    <2>2. ASSUME NEW j \in At(D, D[1 + n]) PROVE j = 1 + n
        <3>1. PICK k \in 1..N : j = 1 + k
            BY <2>1
        <3>2. D[1 + k] = D[1 + n]
            BY <3>1 DEF At
        <3> QED
            BY <1>9, <3>1, <3>2
    <2>3. 1 + n \in At(D, D[1 + n])
        BY <1>7 DEF At
    <2> QED
        BY <2>2, <2>3
<1>11. ASSUME NEW n \in 1..N
       PROVE  \E i : i \in P /\ {k \in P : Fits(ps[k], d.lines[n])} = {i}
    <2>1. Cardinality(At(V, D[1 + n])) = 1
        <3>1. Cardinality({1 + n}) = 1
            BY FS_Singleton
        <3> QED
            BY <1>6, <1>10, <3>1
    <2>2. At(V, D[1 + n]) \subseteq DOMAIN V
        BY DEF At
    <2>3. PICK i : At(V, D[1 + n]) = {i}
        BY <1>5, <2>1, <2>2, FS_Subset, FS_Singleton
    <2>4. At(V, D[1 + n]) = {k \in P : V[k] = D[1 + n]}
        BY <1>3, <1>7, <1>8 DEF At, OfKind
    <2>5. {k \in P : V[k] = D[1 + n]} = {k \in P : Fits(ps[k], d.lines[n])}
        BY <1>3, <1>4
    <2>6. i \in P
        BY <2>3, <2>4
    <2> QED
        BY <2>3, <2>4, <2>5, <2>6
<1> DEFINE m == [n \in 1..N |-> CHOOSE i : /\ i \in P
                                           /\ {k \in P : Fits(ps[k], d.lines[n])} = {i}]
<1>12. \A n \in 1..N : m[n] \in P /\ {k \in P : Fits(ps[k], d.lines[n])} = {m[n]}
    BY <1>11
<1>13. m = [n \in 1..N |-> m[n]]
    OBVIOUS
<1> HIDE DEF m
<1>14. m \in [1..N -> P]
    BY <1>12, <1>13
<1>15. \A n \in 1..N : V[m[n]] = D[1 + n]
    <2>1. \A n \in 1..N : Fits(ps[m[n]], d.lines[n])
        BY <1>12
    <2> QED
        BY <1>3, <1>4, <1>12, <2>1
<1>16. \A a, b \in 1..N : m[a] = m[b] => a = b
    BY <1>9, <1>15
<1>17. ASSUME NEW i \in P PROVE \E n \in 1..N : m[n] = i
    <2>1. i \in At(V, V[i])
        BY <1>8 DEF At
    <2>2. PICK j : j \in At(D, V[i])
        BY <1>6, <2>1
    <2>3. j \in OfKind(D, "dishware") /\ D[j] = V[i]
        BY <1>8, <2>2 DEF At, OfKind
    <2>4. PICK n \in 1..N : j = 1 + n
        BY <1>4, <2>3
    <2>5. V[i] = DishwareCharge(d.lines[n])
        BY <1>4, <2>3, <2>4
    <2>6. i \in {k \in P : Fits(ps[k], d.lines[n])}
        BY <1>3, <2>5
    <2> QED
        BY <1>12, <2>6
<1>18. m \in Injection(1..N, P)
    BY <1>14, <1>16 DEF Injection, IsInjective
<1> QED
    BY <1>1, <1>2, <1>12, <1>17, <1>18, LinesWithOneEachTakeAll

LEMMA AcceptedIsCounted ==
    ASSUME NEW d, NEW guests, NEW ps, IsPut(d, guests, ps), Accepts(d, ps, guests)
    PROVE  SeenCharges(ps) = DeclaredCharges(d, guests)
<1>1. PICK V, D : V = SeenList(ps) /\ D = DeclaredList(d, guests)
    OBVIOUS
<1>2. /\ ps \in Seq(ChargePositions) /\ d \in Declarations /\ guests \in Nat
    BY DEF IsPut
<1>3. /\ \A i \in DOMAIN ps : PositionAdds(ps[i], guests)
      /\ DeliveryAgrees(d, ps) /\ BuffetAgrees(d, ps, guests) /\ ReturnAgrees(d, ps)
      /\ LinesTake(d.lines, ps) = {} /\ FlatAgrees(d, ps, guests)
    BY DEF Accepts, DishwareAgrees, FlatAgrees
<1>4. /\ KindAgrees(V, D, "delivery") /\ KindAgrees(V, D, "buffet_fee")
      /\ KindAgrees(V, D, "return") /\ KindAgrees(V, D, "flat")
    <2>1. KindAgrees(V, D, "delivery")
        BY <1>1, <1>3, DeliveryIsCompared
    <2>2. KindAgrees(V, D, "buffet_fee")
        BY <1>1, <1>3, BuffetIsCompared
    <2>3. KindAgrees(V, D, "return")
        BY <1>1, <1>3, ReturnIsCompared
    <2>4. KindAgrees(V, D, "flat")
        BY <1>1, <1>3, FlatIsCompared
    <2> QED
        BY <2>1, <2>2, <2>3, <2>4
<1>5. /\ \A i \in DOMAIN V : V[i].kind \in ChargeKinds
      /\ \A j \in DOMAIN D : D[j].kind \in ChargeKinds
    BY <1>1, <1>2, SeenKinds, DeclaredKinds
<1>6. ASSUME NEW x PROVE SameCounts(V, D, x)
    <2>1. CASE x.kind \in {"delivery", "buffet_fee", "return", "flat"}
        BY <1>4, <2>1, AgreeingKindsAreCounted
    <2>2. CASE x.kind = "dishware"
        BY <1>1, <1>3, <2>2, TakenLinesAreCounted
    <2>3. CASE x.kind \notin ChargeKinds
        <3>1. At(V, x) = {} /\ At(D, x) = {}
            BY <1>5, <2>3 DEF At
        <3> QED
            BY <3>1, FS_EmptySet DEF SameCounts
    <2> QED
        BY <2>1, <2>2, <2>3 DEF ChargeKinds
<1>7. ToBag(V) = ToBag(D)
    BY <1>6, BagsAreCounts
<1> QED
    BY <1>1, <1>7 DEF SeenCharges, DeclaredCharges, SeenList

\* What OnlyTwinsAreRefused excuses.
Excused(d, guests, ps) ==
    \/ ~ IsInjective(d.lines)
    \/ \E p \in Range(ps) : ~ PositionAdds(p, guests) \/ (ComparedAs(p) = "return" /\ p.mode # "total")
    \/ guests = NoGuests /\ (d.flat \/ d.buffet)

LEMMA CountedIsAccepted ==
    ASSUME NEW d, NEW guests, NEW ps, IsPut(d, guests, ps), ~ Excused(d, guests, ps),
           SeenCharges(ps) = DeclaredCharges(d, guests)
    PROVE  Accepts(d, ps, guests)
<1>1. PICK V, D : V = SeenList(ps) /\ D = DeclaredList(d, guests)
    OBVIOUS
<1>2. /\ ps \in Seq(ChargePositions) /\ d \in Declarations /\ guests \in Nat
    BY DEF IsPut
<1>3. ToBag(V) = ToBag(D)
    BY <1>1 DEF SeenCharges, DeclaredCharges, SeenList
<1>4. /\ IsInjective(d.lines)
      /\ \A i \in DOMAIN ps : /\ PositionAdds(ps[i], guests)
                              /\ ComparedAs(ps[i]) = "return" => ps[i].mode = "total"
      /\ guests = NoGuests => ~ d.flat /\ ~ d.buffet
    BY DEF Excused, Range
<1>5. \A x : IsFiniteSet(At(V, x))
    <2>1. IsFiniteSet(DOMAIN V)
        BY <1>1, <1>2, SeenKinds
    <2>2. \A x : At(V, x) \subseteq DOMAIN V
        BY DEF At
    <2> QED
        BY <2>1, <2>2, FS_Subset
<1>6. /\ OfKind(D, "delivery") = {1}
      /\ OfKind(D, "flat") = {} \/ \E j : OfKind(D, "flat") = {j}
      /\ OfKind(D, "buffet_fee") = {} \/ \E j : OfKind(D, "buffet_fee") = {j}
      /\ OfKind(D, "return") = {} \/ \E j : OfKind(D, "return") = {j}
    <2>1. OfKind(D, "delivery") = {1}
        BY <1>1, <1>2, DeclaredKinds
    <2>2. IF d.flat THEN \E j : OfKind(D, "flat") = {j} /\ D[j] = FlatCharge(d, guests)
                    ELSE OfKind(D, "flat") = {}
        BY <1>1, <1>2, DeclaredKinds
    <2>3. IF d.buffet
          THEN \E j : OfKind(D, "buffet_fee") = {j} /\ D[j] = BuffetCharge(d, guests)
          ELSE OfKind(D, "buffet_fee") = {}
        BY <1>1, <1>2, DeclaredKinds
    <2>4. IF d.sameDay THEN \E j : OfKind(D, "return") = {j} /\ D[j] = ReturnCharge(d)
                       ELSE OfKind(D, "return") = {}
        BY <1>1, <1>2, DeclaredKinds
    <2>5. OfKind(D, "flat") = {} \/ \E j : OfKind(D, "flat") = {j}
        BY <2>2
    <2>6. OfKind(D, "buffet_fee") = {} \/ \E j : OfKind(D, "buffet_fee") = {j}
        BY <2>3
    <2>7. OfKind(D, "return") = {} \/ \E j : OfKind(D, "return") = {j}
        BY <2>4
    <2> QED
        BY <2>1, <2>5, <2>6, <2>7
<1>7. /\ KindAgrees(V, D, "delivery") /\ KindAgrees(V, D, "buffet_fee")
      /\ KindAgrees(V, D, "return") /\ KindAgrees(V, D, "flat")
    BY <1>3, <1>5, <1>6, CountedKindsAgree
<1>8. DeliveryAgrees(d, ps)
    BY <1>1, <1>7, DeliveryIsCompared
<1>9. BuffetAgrees(d, ps, guests)
    BY <1>1, <1>4, <1>7, BuffetIsCompared
<1>10. ReturnAgrees(d, ps)
    <2>1. \A i \in IndicesOf("return", ps) : ps[i].mode = "total"
        BY <1>4 DEF IndicesOf
    <2> QED
        BY <1>1, <1>4, <1>7, <2>1, ReturnIsCompared
<1>11. FlatAgrees(d, ps, guests)
    BY <1>1, <1>4, <1>7, FlatIsCompared
<1>12. LinesTake(d.lines, ps) = {}
    BY <1>1, <1>3, <1>4, CountedLinesAreTaken
<1> QED
    BY <1>4, <1>8, <1>9, <1>10, <1>11, <1>12 DEF Accepts, DishwareAgrees, FlatAgrees

\* The snapshot is one that can be put in, with the verdict it got.
OfferedIsPut ==
    offered # NotPut =>
        /\ IsPut(offered.declared, offered.guests, offered.positions)
        /\ offered.verdict =
             IF Accepts(offered.declared, offered.positions, offered.guests)
             THEN "accepted" ELSE "refused"

LEMMA VerdictIsRight == OfferedIsPut => ChargesAreDeclared
<1> SUFFICES ASSUME OfferedIsPut PROVE ChargesAreDeclared
    OBVIOUS
<1>1. CASE offered = NotPut
    BY <1>1 DEF NotPut, ChargesAreDeclared, AcceptedIsDeclared, OnlyTwinsAreRefused
<1>2. CASE offered # NotPut
    <2>1. PICK d, guests, ps : /\ d = offered.declared /\ guests = offered.guests
                               /\ ps = offered.positions
        OBVIOUS
    <2>2. /\ IsPut(d, guests, ps)
          /\ offered.verdict = IF Accepts(d, ps, guests) THEN "accepted" ELSE "refused"
        BY <1>2, <2>1 DEF OfferedIsPut
    <2>3. AcceptedIsDeclared
        BY <2>1, <2>2, AcceptedIsCounted DEF AcceptedIsDeclared
    <2>4. CASE Accepts(d, ps, guests)
        BY <2>2, <2>3, <2>4 DEF ChargesAreDeclared, OnlyTwinsAreRefused
    <2>5. CASE ~ Accepts(d, ps, guests)
        <3>1. Excused(d, guests, ps) \/ SeenCharges(ps) # DeclaredCharges(d, guests)
            BY <2>2, <2>5, CountedIsAccepted
        <3>2. OnlyTwinsAreRefused
            BY <2>1, <3>1 DEF OnlyTwinsAreRefused, Excused
        <3> QED
            BY <2>3, <3>2 DEF ChargesAreDeclared
    <2> QED
        BY <2>4, <2>5
<1> QED
    BY <1>1, <1>2

LEMMA DishwareIsPosition ==
    ASSUME NEW guests \in Nat
    PROVE  DishwarePositions(guests) \subseteq
             {p \in ChargePositions : ComparedAs(p) = "return" => p.quantity = 1}
<1> SUFFICES ASSUME NEW mode \in {"total", "per_person"}, NEW n \in LineNames,
                    NEW q \in {1, 2}, NEW u \in Units, NEW p,
                    p = Position("dishware", mode, n, q, u, u * q * Heads(guests, mode))
             PROVE  p \in ChargePositions /\ ComparedAs(p) # "return"
    BY DEF DishwarePositions
<1>1. u \in Nat /\ Heads(guests, mode) \in Nat
    BY ChargeBounds DEF Heads
<1>2. u * q \in Nat
    BY <1>1
<1>3. (u * q) * Heads(guests, mode) \in Nat
    BY <1>1, <1>2
<1>4. p \in ChargePositions /\ p.kind = "dishware"
    BY <1>1, <1>3 DEF Position, ChargePositions
<1> QED
    BY <1>4 DEF ComparedAs

LEMMA OtherIsPosition ==
    ASSUME NEW guests \in Nat
    PROVE  OtherPositions(guests) \subseteq
             {p \in ChargePositions : ComparedAs(p) = "return" => p.quantity = 1}
<1> SUFFICES ASSUME NEW kind \in {"delivery", "buffet_fee", "fee"},
                    NEW name \in {PickupName, "other"},
                    NEW mode \in {"total", "per_person"}, NEW u \in {Fee, 2 * Fee}, NEW p,
                    p = Position(kind, mode, name, 1, u, u * Heads(guests, mode))
             PROVE  p \in ChargePositions /\ p.quantity = 1
    BY DEF OtherPositions
<1>1. u \in Nat /\ Heads(guests, mode) \in Nat
    BY ChargeBounds DEF Heads
<1>2. u * Heads(guests, mode) \in Nat
    BY <1>1
<1> QED
    BY <1>1, <1>2 DEF Position, ChargePositions

LEMMA PutInIsPut ==
    ASSUME NEW d, NEW guests, NEW ps, IsPut(d, guests, ps), PutIn(d, guests, ps)
    PROVE  OfferedIsPut'
<1>1. /\ offered'.declared = d /\ offered'.guests = guests /\ offered'.positions = ps
      /\ offered'.verdict = IF Accepts(d, ps, guests) THEN "accepted" ELSE "refused"
    BY DEF PutIn
<1>2. (IsPut(offered.declared, offered.guests, offered.positions))'
    BY <1>1 DEF IsPut
<1>3. (Accepts(offered.declared, offered.positions, offered.guests))'
         <=> Accepts(d, ps, guests)
    BY <1>1
<1> QED
    BY <1>1, <1>2, <1>3 DEF OfferedIsPut

\* The check of the charges of an offer snapshot is right both ways, for any names of
\* dishware lines, amounts, and numbers of declared lines and positions put in: of the
\* kinds a declaration speaks of, what the Core accepts has exactly the declared charges,
\* each as often as it was declared, and what it refuses has others, or is one of the
\* cases OnlyTwinsAreRefused names.  Fees of other names are in what is put in, and are
\* no part of either.
THEOREM OfferedChargesAreDeclared == ChargesSpec => []ChargesAreDeclared
<1>1. ChargesInit => OfferedIsPut
    BY DEF ChargesInit, OfferedIsPut
<1>2. OfferedIsPut /\ [ChargesNext]_chargeVars => OfferedIsPut'
    <2> SUFFICES ASSUME OfferedIsPut, [ChargesNext]_chargeVars PROVE OfferedIsPut'
        OBVIOUS
    <2> DEFINE Good == {p \in ChargePositions : ComparedAs(p) = "return" => p.quantity = 1}
    <2>1. \A d \in Declarations, guests \in Nat, ps \in Seq(Good) : IsPut(d, guests, ps)
        <3>1. ASSUME NEW ps \in Seq(Good)
              PROVE  /\ ps \in Seq(ChargePositions)
                     /\ \A i \in DOMAIN ps : ComparedAs(ps[i]) = "return" => ps[i].quantity = 1
            <4>1. \A i \in DOMAIN ps : ps[i] \in Good
                OBVIOUS
            <4>2. \A i \in DOMAIN ps : ps[i] \in ChargePositions
                BY <4>1
            <4> QED
                BY <4>1, <4>2
        <3> QED
            BY <3>1 DEF IsPut
    <2>2. \A S, s : s \in SeqOf(S, MaxPositions - 1) \cup SeqOf(S, MaxPositions) => s \in Seq(S)
        <3>1. ASSUME NEW n \in Int, NEW S, NEW s \in SeqOf(S, n) PROVE s \in Seq(S)
            BY DEF SeqOf
        <3> QED
            BY <3>1, ChargeBounds
    <2>3. CASE UNCHANGED chargeVars
        BY <2>3 DEF chargeVars, OfferedIsPut, IsPut
    <2>4. ASSUME NEW guests \in {NoGuests, 2},
                 NEW lines \in SeqOf(DishwareLines, MaxPositions - 1), NEW flat \in BOOLEAN,
                 NEW ps \in SeqOf(DishwarePositions(guests), MaxPositions), NEW qs,
                 qs = ps \o <<Position("delivery", "total", "other", 1, Fee, Fee)>>,
                 PutIn(Declared(lines, flat, FALSE, FALSE), guests, qs)
          PROVE  OfferedIsPut'
        <3>1. guests \in Nat
            BY DEF NoGuests
        <3>2. Declared(lines, flat, FALSE, FALSE) \in Declarations
            <4>1. lines \in Seq(DishwareLines)
                BY <2>2
            <4> QED
                BY <4>1, ChargeBounds DEF Declared, Declarations
        <3>3. ps \in Seq(Good)
            <4>1. ps \in Seq(DishwarePositions(guests))
                BY <2>2
            <4> QED
                BY <3>1, <4>1, DishwareIsPosition, SeqMonotonic
        <3>4. <<Position("delivery", "total", "other", 1, Fee, Fee)>> \in Seq(Good)
            BY ChargeBounds DEF Position, ChargePositions
        <3>5. qs \in Seq(Good)
            BY <2>4, <3>3, <3>4
        <3>6. IsPut(Declared(lines, flat, FALSE, FALSE), guests, qs)
            BY <2>1, <3>1, <3>2, <3>5
        <3> QED
            BY <2>4, <3>6, PutInIsPut
    <2>5. ASSUME NEW guests \in {NoGuests, 2}, NEW buffet \in BOOLEAN, NEW sameDay \in BOOLEAN,
                 NEW ps \in SeqOf(OtherPositions(guests), MaxPositions),
                 PutIn(Declared(<<>>, FALSE, buffet, sameDay), guests, ps)
          PROVE  OfferedIsPut'
        <3>1. guests \in Nat
            BY DEF NoGuests
        <3>2. Declared(<<>>, FALSE, buffet, sameDay) \in Declarations
            BY ChargeBounds DEF Declared, Declarations
        <3>3. ps \in Seq(Good)
            <4>1. ps \in Seq(OtherPositions(guests))
                BY <2>2
            <4> QED
                BY <3>1, <4>1, OtherIsPosition, SeqMonotonic
        <3>4. IsPut(Declared(<<>>, FALSE, buffet, sameDay), guests, ps)
            BY <2>1, <3>1, <3>2, <3>3
        <3> QED
            BY <2>5, <3>4, PutInIsPut
    <2> QED
        BY <2>3, <2>4, <2>5 DEF ChargesNext
<1>3. OfferedIsPut => ChargesAreDeclared
    BY VerdictIsRight
<1> QED
    BY <1>1, <1>2, <1>3, PTL DEF ChargesSpec

==============================================================================
