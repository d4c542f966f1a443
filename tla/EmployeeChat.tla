---------------------------- MODULE EmployeeChat ----------------------------
(* The employees' internal chat.  Threads, their participants, messages and     *)
(* per participant a read marker; the Core runs one command or one page read at *)
(* a time, what interleaves are the employees with their open pages.  Opening a *)
(* thread marks nothing: the page carries the id of the last message it shows,  *)
(* and a button posts it.  A page shows the oldest PageLimit messages only.     *)
EXTENDS Integers, Sequences, FiniteSets

CONSTANTS
    Employees,
    ChatThreads,    \* thread ids to draw from
    PageLimit,      \* list_messages(limit=200) of the Office API
    MaxLog          \* bound: messages per thread

ASSUME ChatLimits == PageLimit \in Nat \ {0} /\ MaxLog \in Nat

ASSUME NoThreadAssumption == "none" \notin ChatThreads

VARIABLES
    members,        \* per thread: its participants, {} before it is created
    direct,         \* per thread: whether it has a row in chat_direct_threads
    log,            \* per thread: authors of its messages, in order of created_at
    marker,         \* per thread and employee: position of last_read_message_id, 0
    chatPage,       \* per employee: the open thread page, [thread, last]
    atWork,         \* the active accounts
    shownTo         \* per thread and employee: messages some page has shown so far

chatVars == <<members, direct, log, marker, chatPage, atWork, shownTo>>

NoChatPage == [thread |-> "none", last |-> 0]
CreatedThreads == {t \in ChatThreads : members[t] # {}}
DirectThread(pair) == {t \in CreatedThreads : direct[t] /\ members[t] = pair}

\* list_messages: ascending, limited, so the newest fall out.
Listed(t) == SubSeq(log[t], 1, IF Len(log[t]) < PageLimit THEN Len(log[t]) ELSE PageLimit)

\* Messages of others after the marker; without one, all since the thread began.
UnreadCount(t, e) == Cardinality({n \in marker[t][e] + 1 .. Len(log[t]) : log[t][n] # e})

\* A message of the participant's own moves his marker to the end.
UnreadCountSinceOwn(t, e) ==
    LET own == {n \in 1..Len(log[t]) : log[t][n] = e}
    IN  Cardinality({n \in marker[t][e] + 1 .. Len(log[t]) :
                       log[t][n] # e /\ \A m \in own : m < n})

StoreThread(t, people, isDirect) ==
    /\ members[t] = {}
    /\ members' = [members EXCEPT ![t] = people]
    /\ direct' = [direct EXCEPT ![t] = isDirect]

\* The pair's thread is returned when there is one, whoever asks.
CreateDirect(e, other, t) ==
    /\ e # other
    /\ {e, other} \subseteq atWork
    /\ DirectThread({e, other}) = {}
    /\ StoreThread(t, {e, other}, TRUE)
    /\ UNCHANGED <<log, marker, chatPage, atWork, shownTo>>

CreateGroup(e, people, t) ==
    /\ Cardinality(people \cup {e}) >= 2
    /\ people \cup {e} \subseteq atWork
    /\ StoreThread(t, people \cup {e}, FALSE)
    /\ UNCHANGED <<log, marker, chatPage, atWork, shownTo>>

OpenThread(e, t) ==
    /\ e \in members[t] \cap atWork
    /\ chatPage' = [chatPage EXCEPT ![e] = [thread |-> t, last |-> Len(Listed(t))]]
    /\ shownTo' = [shownTo EXCEPT ![t][e] = @ \cup 1..Len(Listed(t))]
    /\ UNCHANGED <<members, direct, log, marker, atWork>>

StoreMessage(e, t) ==
    /\ e \in members[t] \cap atWork
    /\ Len(log[t]) < MaxLog
    /\ log' = [log EXCEPT ![t] = Append(@, e)]
    /\ UNCHANGED <<members, direct, marker, chatPage, atWork, shownTo>>

\* The command stores the message and looks for it on the thread's page to answer
\* with; when it is not there the command fails and its transaction is rolled
\* back: a thread with PageLimit messages takes no more.
SendMessage(e, t) == Len(log[t]) < PageLimit /\ StoreMessage(e, t)

MarkAt(e, t, n) ==
    /\ e \in members[t] \cap atWork
    /\ marker' = [marker EXCEPT ![t][e] = n]
    /\ UNCHANGED <<members, direct, log, chatPage, atWork, shownTo>>

\* Everything there is by now is marked, whatever the page showed.
MarkAllRead(e) ==
    /\ chatPage[e].last > 0
    /\ MarkAt(e, chatPage[e].thread, Len(log[chatPage[e].thread]))

\* The button of an open page: its last message, however old the page is.
MarkRead(e) == chatPage[e].last > 0 /\ MarkAt(e, chatPage[e].thread, chatPage[e].last)

SetAtWork(e) ==
    /\ atWork' = IF e \in atWork THEN atWork \ {e} ELSE atWork \cup {e}
    /\ UNCHANGED <<members, direct, log, marker, chatPage, shownTo>>

ChatInit ==
    /\ members = [t \in ChatThreads |-> {}]
    /\ direct = [t \in ChatThreads |-> FALSE]
    /\ log = [t \in ChatThreads |-> <<>>]
    /\ marker = [t \in ChatThreads |-> [e \in Employees |-> 0]]
    /\ chatPage = [e \in Employees |-> NoChatPage]
    /\ atWork = Employees
    /\ shownTo = [t \in ChatThreads |-> [e \in Employees |-> {}]]

ChatNext ==
    \E e \in Employees :
        \/ MarkRead(e)
        \/ SetAtWork(e)
        \/ \E t \in ChatThreads :
             \/ \E other \in Employees : CreateDirect(e, other, t)
             \/ \E people \in SUBSET Employees : CreateGroup(e, people, t)
             \/ OpenThread(e, t)
             \/ SendMessage(e, t)

ChatSpec == ChatInit /\ [][ChatNext]_chatVars

PageRow == [thread : ChatThreads \cup {"none"}, last : Nat]

\* Type invariant.
ChatTypeOK ==
    /\ members \in [ChatThreads -> SUBSET Employees]
    /\ direct \in [ChatThreads -> BOOLEAN]
    /\ log \in [ChatThreads -> Seq(Employees)]
    /\ marker \in [ChatThreads -> [Employees -> Nat]]
    /\ chatPage \in [Employees -> PageRow]
    /\ atWork \in SUBSET Employees
    /\ shownTo \in [ChatThreads -> [Employees -> SUBSET Nat]]

\* The tables fit together: a direct thread has two participants, messages are
\* written by participants, and no marker or page names a message there is not.
RowsFit ==
    /\ \A t \in ChatThreads :
         /\ direct[t] => Cardinality(members[t]) = 2
         /\ \A n \in 1..Len(log[t]) : log[t][n] \in members[t]
         /\ \A e \in Employees : marker[t][e] <= Len(log[t])
    /\ \A e \in Employees : chatPage[e].thread # "none" =>
         /\ e \in members[chatPage[e].thread]
         /\ chatPage[e].last <= Len(log[chatPage[e].thread])

\* Two employees share one direct thread, whoever of them asks, however often.
OnePairOneThread ==
    \A pair \in SUBSET Employees : Cardinality(DirectThread(pair)) <= 1

\* The badge misses nothing: a message of somebody else that no page has shown
\* the employee yet counts as unread, also when it arrives while he marks an
\* older page, and when he writes himself in between.
NothingReadUnseen ==
    \A t \in ChatThreads : \A e \in members[t] :
        Cardinality({n \in 1..Len(log[t]) : log[t][n] # e /\ n \notin shownTo[t][e]})
            <= UnreadCount(t, e)

\* What the chat took can be read: every stored message of a thread is on the
\* page whoever opens the thread gets, though the page is limited and begins
\* with the oldest.
EveryMessageIsListed ==
    \A t \in ChatThreads, n \in 1..MaxLog :
        n <= Len(log[t]) => n <= Len(Listed(t))

\* No message is missed: two employees meet in one thread, what is stored there is
\* on the page, and what no page has shown is on the badge; threads, messages,
\* markers and pages fit together.
NoMessageIsMissed ==
    ChatTypeOK /\ RowsFit /\ OnePairOneThread /\ EveryMessageIsListed /\ NothingReadUnseen

=============================================================================
