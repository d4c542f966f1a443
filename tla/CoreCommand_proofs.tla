--------------------------- MODULE CoreCommand_proofs ---------------------------
(****************************************************************************)
(* The theorems about one command of the Office API: it is carried out       *)
(* exactly if it is recorded, announced and answered accordingly, never on a *)
(* state other than the one its page expects, and together with the ledger   *)
(* it implements the one-step command of CommandOnce; and about the start of *)
(* the servers on one database file.                                         *)
(****************************************************************************)
EXTENDS CoreCommand, SchemaMigrations, FiniteSetTheorems, TLAPS

-----------------------------------------------------------------------------
(* The inductive invariant: what is known of the request in the handler at   *)
(* every step of its transaction.                                            *)

InTransaction == server.pc \in {"lookup", "handle", "record", "commit"}

\* A request has a page that was loaded.
RequestInv ==
    /\ server.pc # "idle" => /\ server.page \in Pages
                             /\ server.args \in Args
                             /\ expect[server.page] # Null
    /\ \A r \in inbox : expect[r.page] # Null

\* The lock is held during a transaction; the buffer is filled only then and
\* until the flush.
LockInv ==
    /\ lock = "api" <=> InTransaction
    /\ server.pc \notin {"record", "commit", "flush"} => buffer = {}

\* The handler has written on top of the committed state.
Carried ==
    /\ buffer = {server.page}
    /\ ledger[server.page] = Null
    /\ server.page \in Guarded => expect[server.page] = stamp
    /\ work.stamp = stamp + 1
    /\ work.effects = [effects EXCEPT ![server.page] = 1]
    /\ server.answer = Done(server.args, stamp + 1)

Truthful(p, a) ==
    /\ a.kind = "done" => /\ ledger[p] # Null
                          /\ ledger[p] = [args |-> a.args, result |-> a.result]
    /\ a.kind = "conflict" => ledger[p] # Null

ReadPhase == server.pc \in {"lookup", "handle"} => work = Committed

HandlePhase == server.pc = "handle" => ledger[server.page] = Null

RecordPhase == server.pc = "record" => Carried /\ work.ledger = ledger

CommitPhase ==
    server.pc = "commit" =>
      \/ /\ work = Committed
         /\ buffer = {}
         /\ server.answer.kind = "done"
         /\ Truthful(server.page, server.answer)
      \/ /\ Carried
         /\ work.ledger = [ledger EXCEPT ![server.page] =
                             [args |-> server.args, result |-> stamp + 1]]

FlushPhase ==
    server.pc = "flush" =>
      \/ buffer = {}
      \/ /\ buffer = {server.page}
         /\ announced[server.page] = 0
         /\ ledger[server.page] # Null

ReplyPhase ==
    server.pc \in {"flush", "reply"} => Truthful(server.page, server.answer)

PhaseInv == /\ ReadPhase /\ HandlePhase /\ RecordPhase
            /\ CommitPhase /\ FlushPhase /\ ReplyPhase

CommandInv == /\ CommandTypeOK /\ RequestInv /\ LockInv /\ PhaseInv
              /\ RecordedOnceDone /\ EventsFollowCommit /\ AnswersAreTrue

-----------------------------------------------------------------------------
(* Preservation: one lemma per action. *)

\* The answers the handler can give, and the request of an idle server.
LEMMA AnswerTypes ==
    /\ \A k \in {"conflict", "stale", "refused", "busy"} : Error(k) \in AnswerRow
    /\ \A a \in Args, n \in Nat : Done(a, n) \in AnswerRow
    /\ Waiting \in Server
  BY DEF Error, Done, Waiting, AnswerRow, Server

\* A page in the handler is loaded already, so its stamp stays.
LEMMA LoadKeeps ==
    ASSUME NEW p \in Pages, CommandInv, Load(p)
    PROVE  CommandInv'
<1> USE DEF CommandInv, PhaseInv
<1>a. CommandTypeOK' /\ RequestInv'
  BY DEF Load, dbVars, CommandTypeOK, Recorded, AnswerRow, Requests, Server,
     RequestInv
<1>b. LockInv'
  BY DEF Load, dbVars, CommandTypeOK, Recorded, AnswerRow, Requests, Server,
     LockInv, InTransaction
<1>c. ReadPhase' /\ HandlePhase' /\ RecordPhase'
  BY DEF Load, dbVars, RequestInv, CommandTypeOK, ReadPhase, Committed,
     Recorded, AnswerRow, Requests, Server, HandlePhase, RecordPhase, Carried,
     Done
<1>d. CommitPhase'
  BY DEF Load, dbVars, RequestInv, CommandTypeOK, Recorded, AnswerRow, Requests,
     Server, CommitPhase, Carried, Done, Truthful, Committed
<1>e. FlushPhase' /\ ReplyPhase' /\ RecordedOnceDone' /\ EventsFollowCommit' /\ AnswersAreTrue'
  BY DEF Load, dbVars, CommandTypeOK, Recorded, AnswerRow, Requests, Server,
     FlushPhase, ReplyPhase, Truthful, RecordedOnceDone, EventsFollowCommit,
     AnswersAreTrue
<1> QED
  BY <1>a, <1>b, <1>c, <1>d, <1>e

\* Only the inbox grows.
LEMMA SubmitKeeps ==
    ASSUME NEW p \in Pages, NEW a \in Args, CommandInv, Submit(p, a)
    PROVE  CommandInv'
<1> USE DEF CommandInv, PhaseInv
<1>a. CommandTypeOK' /\ RequestInv'
  BY DEF Submit, dbVars, userVars, CommandTypeOK, Recorded, AnswerRow, Requests,
     Server, RequestInv
<1>b. LockInv'
  BY DEF Submit, dbVars, userVars, CommandTypeOK, Recorded, AnswerRow, Requests,
     Server, LockInv, InTransaction
<1>c. ReadPhase' /\ HandlePhase' /\ RecordPhase'
  BY DEF Submit, dbVars, userVars, CommandTypeOK, ReadPhase, Committed,
     Recorded, AnswerRow, Requests, Server, HandlePhase, RecordPhase, Carried,
     Done
<1>d. CommitPhase'
  BY DEF Submit, dbVars, userVars, CommandTypeOK, Recorded, AnswerRow, Requests,
     Server, CommitPhase, Carried, Done, Truthful, Committed
<1>e. FlushPhase' /\ ReplyPhase' /\ RecordedOnceDone' /\ EventsFollowCommit' /\ AnswersAreTrue'
  BY DEF Submit, dbVars, userVars, CommandTypeOK, Recorded, AnswerRow, Requests,
     Server, FlushPhase, ReplyPhase, Truthful, RecordedOnceDone,
     EventsFollowCommit, AnswersAreTrue
<1> QED
  BY <1>a, <1>b, <1>c, <1>d, <1>e

\* Outside a transaction nothing is promised but the request.
LEMMA TakesFromKeeps ==
    ASSUME NEW p \in Pages, CommandInv, TakesFrom(p)
    PROVE  CommandInv'
<1> USE DEF CommandInv, PhaseInv
<1>a. CommandTypeOK' /\ RequestInv'
  BY DEF TakesFrom, dbVars, userVars, Error, CommandTypeOK, Recorded, AnswerRow,
     Requests, Server, RequestInv
<1>b. LockInv'
  BY DEF TakesFrom, dbVars, userVars, CommandTypeOK, Recorded, AnswerRow,
     Requests, Server, LockInv, InTransaction
<1>c. ReadPhase' /\ HandlePhase' /\ RecordPhase' /\ CommitPhase' /\ FlushPhase' /\ ReplyPhase' /\ RecordedOnceDone' /\ EventsFollowCommit' /\ AnswersAreTrue'
  BY DEF TakesFrom, dbVars, userVars, CommandTypeOK, ReadPhase, Committed,
     Recorded, AnswerRow, Requests, Server, HandlePhase, RecordPhase, Carried,
     Done, CommitPhase, Truthful, FlushPhase, ReplyPhase, RecordedOnceDone,
     EventsFollowCommit, AnswersAreTrue
<1> QED
  BY <1>a, <1>b, <1>c

\* The transaction starts from the committed state, or not at all.
LEMMA BeginsKeeps ==
    ASSUME CommandInv, Begins
    PROVE  CommandInv'
<1> USE DEF CommandInv, PhaseInv
<1>1. server \in Server /\ Error("busy") \in AnswerRow
  BY AnswerTypes DEF CommandTypeOK
<1>2. /\ server' \in Server /\ server'.page = server.page
      /\ server'.args = server.args
      /\ \/ /\ server'.pc = "lookup" /\ lock = "free" /\ lock' = "api"
            /\ work' = Committed /\ UNCHANGED buffer
         \/ /\ server'.pc = "reply" /\ server'.answer = Error("busy")
            /\ lock # "free" /\ buffer' = {} /\ UNCHANGED <<work, lock>>
  <2>1. CASE lock = "free"
    <3>1. /\ server' = [server EXCEPT !.pc = "lookup"] /\ lock' = "api"
          /\ work' = Committed /\ UNCHANGED buffer
      BY <2>1 DEF Begins
    <3> QED
      BY <1>1, <2>1, <3>1 DEF Server
  <2>2. CASE lock # "free"
    <3>1. /\ server' = [server EXCEPT !.pc = "reply", !.answer = Error("busy")]
          /\ buffer' = {} /\ UNCHANGED <<work, lock>>
      BY <2>2 DEF Begins, Answers
    <3> QED
      BY <1>1, <2>2, <3>1 DEF Server
  <2> QED
    BY <2>1, <2>2
<1>3. server.pc = "begin" /\ UNCHANGED <<dbVars, announced, inbox, userVars, foreign, faults>>
  BY DEF Begins
<1>4. work' \in [stamp : Nat, effects : [Pages -> Nat],
               ledger : [Pages -> Recorded \cup {Null}]]
  BY <1>2 DEF Committed, CommandTypeOK
<1>a. CommandTypeOK'
  BY <1>2, <1>3, <1>4 DEF dbVars, userVars, CommandTypeOK, Recorded, AnswerRow,
     Requests, Server, RequestInv
<1>b. RequestInv'
  BY <1>2, <1>3 DEF dbVars, userVars, CommandTypeOK, Recorded, AnswerRow,
     Requests, Server, RequestInv
<1>c. LockInv'
  BY <1>2, <1>3 DEF dbVars, userVars, CommandTypeOK, Recorded, AnswerRow,
     Requests, Server, LockInv, InTransaction
<1>d. ReadPhase'
  BY <1>2, <1>3 DEF dbVars, userVars, CommandTypeOK, ReadPhase, Committed
<1>e. HandlePhase' /\ RecordPhase' /\ CommitPhase' /\ FlushPhase'
  BY <1>2, <1>3 DEF dbVars, userVars, CommandTypeOK, Recorded, AnswerRow,
     Requests, Server, HandlePhase, RecordPhase, Carried, Done, CommitPhase,
     Truthful, Committed, FlushPhase
<1>f. ReplyPhase'
  BY <1>2, <1>3 DEF dbVars, userVars, Error, CommandTypeOK, Recorded, AnswerRow,
     Requests, Server, ReplyPhase, Truthful
<1>g. RecordedOnceDone' /\ EventsFollowCommit' /\ AnswersAreTrue'
  BY <1>3 DEF dbVars, userVars, CommandTypeOK, RecordedOnceDone,
     EventsFollowCommit, AnswersAreTrue
<1> QED
  BY <1>a, <1>b, <1>c, <1>d, <1>e, <1>f, <1>g

\* What the ledger answers is what it holds.
LEMMA LooksUpKeeps ==
    ASSUME CommandInv, LooksUp
    PROVE  CommandInv'
<1> USE DEF CommandInv, PhaseInv
<1>0. server \in Server /\ Error("conflict") \in AnswerRow
  BY AnswerTypes DEF CommandTypeOK
<1>1. /\ server.pc = "lookup" /\ server.page \in Pages /\ server.args \in Args
      /\ work = Committed /\ buffer = {}
  BY DEF LooksUp, RequestInv, ReadPhase, LockInv, CommandTypeOK
<1>2. work.ledger[server.page] = ledger[server.page]
  BY <1>1 DEF Committed
<1>3. ledger[server.page] # Null =>
       /\ ledger[server.page] \in Recorded
       /\ Done(ledger[server.page].args, ledger[server.page].result)
            \in AnswerRow
  BY <1>1, AnswerTypes DEF CommandTypeOK, Recorded
<1>4. /\ server' \in Server /\ server'.page = server.page
      /\ server'.args = server.args
      /\ \/ /\ server'.pc = "handle" /\ ledger[server.page] = Null
            /\ UNCHANGED <<work, lock, buffer>>
         \/ /\ server'.pc = "commit" /\ ledger[server.page] # Null
            /\ server'.answer = Done(ledger[server.page].args,
                                     ledger[server.page].result)
            /\ UNCHANGED <<work, lock, buffer>>
         \/ /\ server'.pc = "reply" /\ ledger[server.page] # Null
            /\ server'.answer = Error("conflict")
            /\ RollsBack
  <2>1. CASE ledger[server.page] = Null
    <3>1. /\ server' = [server EXCEPT !.pc = "handle"]
          /\ UNCHANGED <<work, lock, buffer>>
      BY <1>2, <2>1 DEF LooksUp
    <3> QED
      BY <1>0, <2>1, <3>1 DEF Server
  <2>2. CASE /\ ledger[server.page] # Null
             /\ ledger[server.page].args = server.args
    <3>1. /\ server' = [server EXCEPT !.pc = "commit",
                          !.answer = Done(ledger[server.page].args,
                                          ledger[server.page].result)]
          /\ UNCHANGED <<work, lock, buffer>>
      BY <1>2, <2>2 DEF LooksUp
    <3>2. Done(ledger[server.page].args, ledger[server.page].result) \in AnswerRow
      BY <1>3, <2>2
    <3>3. /\ server' \in Server /\ server'.page = server.page
          /\ server'.args = server.args /\ server'.pc = "commit"
          /\ server'.answer = Done(ledger[server.page].args,
                                   ledger[server.page].result)
      BY <1>0, <3>1, <3>2 DEF Server
    <3> QED
      BY <2>2, <3>1, <3>3
  <2>3. CASE /\ ledger[server.page] # Null
             /\ ledger[server.page].args # server.args
    <3>1. /\ server' = [server EXCEPT !.pc = "reply",
                          !.answer = Error("conflict")]
          /\ RollsBack
      BY <1>2, <2>3 DEF LooksUp, Answers
    <3>2. /\ server' \in Server /\ server'.page = server.page
          /\ server'.args = server.args /\ server'.pc = "reply"
          /\ server'.answer = Error("conflict")
      BY <1>0, <3>1 DEF Server
    <3> QED
      BY <2>3, <3>1, <3>2
  <2> QED
    BY <2>1, <2>2, <2>3
<1>5. UNCHANGED <<dbVars, announced, inbox, userVars, foreign, faults>>
  BY DEF LooksUp
<1>6. work' = Committed' /\ buffer' = {}
  BY <1>1, <1>4, <1>5 DEF RollsBack, Committed, dbVars
<1>7. work' \in [stamp : Nat, effects : [Pages -> Nat],
               ledger : [Pages -> Recorded \cup {Null}]]
  BY <1>5, <1>6 DEF Committed, dbVars, CommandTypeOK
<1>8. server'.pc = "commit" => /\ server'.answer.kind = "done"
                              /\ Truthful(server.page, server'.answer)
  <2> SUFFICES ASSUME server'.pc = "commit"
               PROVE  /\ server'.answer.kind = "done"
                      /\ Truthful(server.page, server'.answer)
    OBVIOUS
  <2>1. /\ ledger[server.page] # Null
        /\ server'.answer = Done(ledger[server.page].args,
                                 ledger[server.page].result)
    BY <1>4
  <2>2. ledger[server.page] = [args   |-> ledger[server.page].args,
                               result |-> ledger[server.page].result]
    BY <1>3, <2>1 DEF Recorded
  <2> QED
    BY <2>1, <2>2 DEF Truthful, Done
<1>a. CommandTypeOK'
  BY <1>4, <1>5, <1>6, <1>7 DEF dbVars, userVars, RollsBack, CommandTypeOK,
     Recorded, AnswerRow, Requests, Server, RequestInv
<1>b. RequestInv'
  BY <1>1, <1>4, <1>5 DEF dbVars, userVars, CommandTypeOK, Recorded, AnswerRow,
     Requests, Server, RequestInv
<1>c. LockInv'
  BY <1>1, <1>4, <1>5, <1>6 DEF dbVars, userVars, RollsBack, CommandTypeOK,
     Recorded, AnswerRow, Requests, Server, LockInv, InTransaction
<1>d. ReadPhase'
  BY <1>6 DEF dbVars, userVars, CommandTypeOK, ReadPhase, Committed
<1>e. HandlePhase'
  BY <1>4, <1>5 DEF dbVars, userVars, CommandTypeOK, Recorded, AnswerRow,
     Requests, Server, HandlePhase
<1>f. RecordPhase'
  BY <1>4 DEF dbVars, userVars, CommandTypeOK, Recorded, AnswerRow, Requests,
     Server, RecordPhase, Carried, Done
<1>g. CommitPhase'
  BY <1>4, <1>5, <1>6, <1>8 DEF dbVars, userVars, CommandTypeOK, Recorded,
     AnswerRow, Requests, Server, CommitPhase, Carried, Done, Truthful, Committed
<1>h. FlushPhase'
  BY <1>6 DEF dbVars, userVars, CommandTypeOK, Recorded, AnswerRow, Requests,
     Server, FlushPhase
<1>i. ReplyPhase'
  BY <1>4, <1>5 DEF dbVars, userVars, Error, CommandTypeOK, Recorded, AnswerRow,
     Requests, Server, ReplyPhase, Truthful
<1>j. RecordedOnceDone' /\ EventsFollowCommit' /\ AnswersAreTrue'
  BY <1>5 DEF dbVars, userVars, CommandTypeOK, RecordedOnceDone,
     EventsFollowCommit, AnswersAreTrue
<1> QED
  BY <1>a, <1>b, <1>c, <1>d, <1>e, <1>f, <1>g, <1>h, <1>i, <1>j

\* The handler writes on the committed state, which nobody else can change.
LEMMA HandlesKeeps ==
    ASSUME CommandInv, Handles
    PROVE  CommandInv'
<1> USE DEF CommandInv, PhaseInv
<1>1. /\ server.pc = "handle" /\ server \in Server
      /\ server.page \in Pages /\ server.args \in Args
      /\ work = Committed /\ buffer = {} /\ stamp \in Nat
      /\ ledger[server.page] = Null /\ effects[server.page] = 0
  BY DEF Handles, RequestInv, ReadPhase, LockInv, HandlePhase,
     RecordedOnceDone, CommandTypeOK
<1>2. /\ work.stamp = stamp /\ work.ledger = ledger /\ work.effects = effects
      /\ work \in [stamp : Nat, effects : [Pages -> Nat],
                   ledger : [Pages -> Recorded \cup {Null}]]
  BY <1>1 DEF Committed, CommandTypeOK
<1>3. Error("stale") \in AnswerRow /\ Done(server.args, stamp + 1) \in AnswerRow
  BY <1>1, AnswerTypes
<1>4. /\ server' \in Server /\ server'.page = server.page
      /\ server'.args = server.args
      /\ \/ /\ server'.pc = "record"
            /\ server'.answer = Done(server.args, stamp + 1)
            /\ server.page \in Guarded => expect[server.page] = stamp
            /\ work' = [work EXCEPT !.stamp = @ + 1,
                                    !.effects[server.page] = @ + 1]
            /\ buffer' = {server.page}
            /\ UNCHANGED lock
         \/ /\ server'.pc = "reply" /\ server'.answer = Error("stale")
            /\ RollsBack
  <2>1. CASE /\ server.page \in Guarded /\ expect[server.page] # work.stamp
             /\ Answers(Error("stale")) /\ RollsBack
    <3>1. server' = [server EXCEPT !.pc = "reply", !.answer = Error("stale")]
      BY <2>1 DEF Answers
    <3> QED
      BY <1>1, <1>3, <2>1, <3>1 DEF Server
  <2>2. CASE ~ (/\ server.page \in Guarded /\ expect[server.page] # work.stamp
                /\ Answers(Error("stale")) /\ RollsBack)
    <3>1. /\ server' = [server EXCEPT !.pc = "record",
                          !.answer = Done(server.args, work.stamp + 1)]
          /\ server.page \in Guarded => expect[server.page] = work.stamp
          /\ work' = [work EXCEPT !.stamp = @ + 1,
                                  !.effects[server.page] = @ + 1]
          /\ buffer' = buffer \cup {server.page}
          /\ UNCHANGED lock
      BY <2>2, SMTT(30) DEF Handles
    <3>2. server' = [server EXCEPT !.pc = "record",
                       !.answer = Done(server.args, stamp + 1)]
      BY <1>2, <3>1
    <3>3. /\ server' \in Server /\ server'.page = server.page
          /\ server'.args = server.args /\ server'.pc = "record"
          /\ server'.answer = Done(server.args, stamp + 1)
      BY <1>1, <1>3, <3>2 DEF Server
    <3> QED
      BY <1>1, <1>2, <3>1, <3>3
  <2> QED
    BY <2>1, <2>2
<1>5. /\ work' \in [stamp : Nat, effects : [Pages -> Nat],
                    ledger : [Pages -> Recorded \cup {Null}]]
      /\ server'.pc = "record" =>
           /\ work'.stamp = stamp + 1 /\ work'.ledger = ledger
           /\ work'.effects = [effects EXCEPT ![server.page] = 1]
  <2>1. CASE server'.pc = "record"
    <3>1. work' = [work EXCEPT !.stamp = @ + 1, !.effects[server.page] = @ + 1]
      BY <1>4, <2>1
    <3>2. /\ work' \in [stamp : Nat, effects : [Pages -> Nat],
                        ledger : [Pages -> Recorded \cup {Null}]]
          /\ work'.stamp = work.stamp + 1 /\ work'.ledger = work.ledger
          /\ work'.effects = [work.effects EXCEPT ![server.page] = @ + 1]
      <4>1. work' = [work EXCEPT !.stamp = work.stamp + 1,
                       !.effects = [work.effects EXCEPT ![server.page] =
                                      work.effects[server.page] + 1]]
        BY <1>2, <3>1
      <4>2. /\ work.stamp + 1 \in Nat
            /\ [work.effects EXCEPT ![server.page] = work.effects[server.page] + 1]
                 \in [Pages -> Nat]
        BY <1>1, <1>2
      <4> QED
        BY <1>2, <4>1, <4>2
    <3> QED
      BY <1>1, <1>2, <2>1, <3>2 DEF CommandTypeOK
  <2>2. CASE server'.pc # "record"
    BY <1>4, <2>2 DEF RollsBack, Committed, CommandTypeOK
  <2> QED
    BY <2>1, <2>2
<1>6. UNCHANGED <<dbVars, announced, inbox, userVars, foreign, faults>>
  BY DEF Handles
<1>7. /\ server' \in Server /\ buffer' \subseteq Pages /\ lock' \in {"free", "api", "other"}
  BY <1>1, <1>4 DEF RollsBack, CommandTypeOK
<1>8. server'.pc = "record" =>
       /\ server'.page = server.page /\ server'.args = server.args
       /\ server'.answer = Done(server.args, stamp + 1)
       /\ server.page \in Guarded => expect[server.page] = stamp
       /\ buffer' = {server.page}
  BY <1>4
<1>a. CommandTypeOK'
  BY <1>5, <1>6, <1>7 DEF dbVars, userVars, CommandTypeOK
<1>b. RequestInv'
  BY <1>1, <1>4, <1>6 DEF dbVars, userVars, CommandTypeOK, Recorded, AnswerRow,
     Requests, Server, RequestInv
<1>c. LockInv'
  BY <1>1, <1>4, <1>5, <1>6 DEF dbVars, userVars, RollsBack, CommandTypeOK,
     Recorded, AnswerRow, Requests, Server, LockInv, InTransaction
<1>d. ReadPhase' /\ HandlePhase'
  BY <1>4 DEF dbVars, userVars, CommandTypeOK, ReadPhase, Committed, Recorded,
     AnswerRow, Requests, Server, HandlePhase
<1>e. RecordPhase'
  BY <1>1, <1>5, <1>6, <1>8 DEF dbVars, userVars, RecordPhase, Carried
<1>f. CommitPhase' /\ FlushPhase'
  BY <1>4 DEF dbVars, userVars, CommandTypeOK, Recorded, AnswerRow, Requests,
     Server, CommitPhase, Carried, Done, Truthful, Committed, FlushPhase
<1>g. ReplyPhase'
  BY <1>4 DEF dbVars, userVars, Error, CommandTypeOK, Recorded, AnswerRow,
     Requests, Server, ReplyPhase, Truthful
<1>h. RecordedOnceDone' /\ EventsFollowCommit' /\ AnswersAreTrue'
  BY <1>6 DEF dbVars, userVars, CommandTypeOK, RecordedOnceDone,
     EventsFollowCommit, AnswersAreTrue
<1> QED
  BY <1>a, <1>b, <1>c, <1>d, <1>e, <1>f, <1>g, <1>h

\* The row joins the write.
LEMMA RecordsKeeps ==
    ASSUME CommandInv, Records
    PROVE  CommandInv'
<1> USE DEF CommandInv, PhaseInv
<1>1. server.page \in Pages /\ server.args \in Args /\ Carried /\ work.ledger = ledger
  BY DEF Records, RequestInv, RecordPhase
<1>2. /\ work' = [work EXCEPT !.ledger = [ledger EXCEPT ![server.page] =
                     [args |-> server.args, result |-> stamp + 1]]]
      /\ work'.ledger = [ledger EXCEPT ![server.page] =
                     [args |-> server.args, result |-> stamp + 1]]
      /\ work'.stamp = work.stamp /\ work'.effects = work.effects
  BY <1>1 DEF Records, Carried, Done, CommandTypeOK
<1>3. [args |-> server.args, result |-> stamp + 1] \in Recorded
  BY <1>1 DEF CommandTypeOK, Recorded
<1>4. work' \in [stamp : Nat, effects : [Pages -> Nat],
               ledger : [Pages -> Recorded \cup {Null}]]
  BY <1>1, <1>2, <1>3 DEF CommandTypeOK
<1>a. CommandTypeOK'
  BY <1>4 DEF dbVars, userVars, Records, CommandTypeOK, Recorded, AnswerRow,
     Requests, Server, RequestInv
<1>b. RequestInv' /\ LockInv'
  BY DEF dbVars, userVars, Records, CommandTypeOK, Recorded, AnswerRow, Requests,
     Server, RequestInv, LockInv, InTransaction
<1>c. ReadPhase' /\ HandlePhase' /\ RecordPhase'
  BY DEF dbVars, userVars, Records, CommandTypeOK, ReadPhase, Committed,
     Recorded, AnswerRow, Requests, Server, HandlePhase, RecordPhase, Carried,
     Done
<1>d. CommitPhase'
  BY <1>1, <1>2 DEF dbVars, userVars, Records, CommandTypeOK, Recorded,
     AnswerRow, Requests, Server, CommitPhase, Carried, Done, Truthful, Committed
<1>e. FlushPhase' /\ ReplyPhase'
  BY DEF dbVars, userVars, Records, CommandTypeOK, Recorded, AnswerRow, Requests,
     Server, FlushPhase, ReplyPhase, Truthful
<1>f. RecordedOnceDone' /\ EventsFollowCommit' /\ AnswersAreTrue'
  BY DEF dbVars, userVars, Records, CommandTypeOK, RecordedOnceDone,
     EventsFollowCommit, AnswersAreTrue
<1> QED
  BY <1>a, <1>b, <1>c, <1>d, <1>e, <1>f

\* Nothing of the transaction is kept.
LEMMA RefusesKeeps ==
    ASSUME CommandInv, Refuses
    PROVE  CommandInv'
<1> USE DEF CommandInv, PhaseInv
<1>1. server' \in Server
  BY AnswerTypes DEF Refuses, Answers, CommandTypeOK, Server
<1>2. work' \in [stamp : Nat, effects : [Pages -> Nat],
               ledger : [Pages -> Recorded \cup {Null}]]
  BY DEF Refuses, RollsBack, Committed, CommandTypeOK
<1>a. CommandTypeOK'
  BY <1>1, <1>2 DEF Refuses, dbVars, userVars, RollsBack, CommandTypeOK,
     Recorded, AnswerRow, Requests, Server, RequestInv
<1>b. RequestInv' /\ LockInv'
  BY DEF Refuses, dbVars, userVars, RollsBack, Answers, CommandTypeOK,
     Recorded, AnswerRow, Requests, Server, RequestInv, LockInv, InTransaction
<1>c. ReadPhase' /\ HandlePhase' /\ RecordPhase' /\ CommitPhase' /\ FlushPhase'
  BY DEF Refuses, dbVars, userVars, Answers, RollsBack, CommandTypeOK,
     ReadPhase, Committed, Recorded, AnswerRow, Requests, Server, HandlePhase,
     RecordPhase, Carried, Done, CommitPhase, Truthful, FlushPhase
<1>d. ReplyPhase'
  BY DEF Refuses, dbVars, userVars, Answers, Error, CommandTypeOK, Recorded,
     AnswerRow, Requests, Server, ReplyPhase, Truthful
<1>e. RecordedOnceDone' /\ EventsFollowCommit' /\ AnswersAreTrue'
  BY DEF Refuses, dbVars, userVars, CommandTypeOK, RecordedOnceDone,
     EventsFollowCommit, AnswersAreTrue
<1> QED
  BY <1>a, <1>b, <1>c, <1>d, <1>e

\* Write, row and events become visible together or were there before.
LEMMA CommitsKeeps ==
    ASSUME CommandInv, Commits
    PROVE  CommandInv'
<1> USE DEF CommandInv, PhaseInv
<1>1. server.page \in Pages /\ server.args \in Args
  BY DEF Commits, RequestInv
<1>2. \/ /\ work = Committed /\ buffer = {} /\ UNCHANGED <<stamp, effects, ledger>>
         /\ server.answer.kind = "done" /\ Truthful(server.page, server.answer)
      \/ /\ Carried
         /\ stamp' = stamp + 1
         /\ effects' = [effects EXCEPT ![server.page] = 1]
         /\ ledger' = [ledger EXCEPT ![server.page] =
                         [args |-> server.args, result |-> stamp + 1]]
  BY DEF Commits, CommitPhase, Committed, Carried
<1>3. server' = [server EXCEPT !.pc = "flush"]
  BY DEF Commits
<1>4. \A q \in Pages : ledger[q] # Null => ledger'[q] = ledger[q]
  BY <1>1, <1>2 DEF Carried, CommandTypeOK
<1>5. \A q \in Pages : effects[q] <= effects'[q] /\ effects'[q] \in Nat
  BY <1>1, <1>2 DEF Carried, CommandTypeOK, RecordedOnceDone
<1>7. [args |-> server.args, result |-> stamp + 1] # Null
  BY <1>1, NothingAssumption DEF CommandTypeOK, Recorded
<1>a. CommandTypeOK'
  BY DEF CommandTypeOK, userVars, Commits, Recorded, AnswerRow, Requests, Server,
     RequestInv
<1>b. RequestInv' /\ LockInv'
  BY DEF CommandTypeOK, userVars, Commits, Recorded, AnswerRow, Requests, Server,
     RequestInv, LockInv, InTransaction
<1>c. ReadPhase' /\ HandlePhase' /\ RecordPhase' /\ CommitPhase'
  BY <1>3 DEF CommandTypeOK, userVars, ReadPhase, Committed, Recorded, AnswerRow,
     Requests, Server, HandlePhase, RecordPhase, Carried, Done, CommitPhase,
     Truthful
<1>d. FlushPhase'
  BY <1>1, <1>2, <1>3, NothingAssumption DEF CommandTypeOK, userVars, Carried,
     RecordedOnceDone, EventsFollowCommit, Commits, Recorded, AnswerRow,
     Requests, Server, FlushPhase
<1>e. ReplyPhase'
  BY <1>1, <1>2, <1>3, NothingAssumption DEF CommandTypeOK, userVars, Carried,
     Done, Commits, Recorded, AnswerRow, Requests, Server, ReplyPhase, Truthful
<1>f. RecordedOnceDone'
  BY <1>1, <1>2, <1>7 DEF CommandTypeOK, userVars, Carried, RecordedOnceDone
<1>g. EventsFollowCommit'
  BY <1>5 DEF CommandTypeOK, userVars, Commits, EventsFollowCommit
<1>h. AnswersAreTrue'
  BY <1>4 DEF CommandTypeOK, userVars, Commits, AnswersAreTrue
<1> QED
  BY <1>a, <1>b, <1>c, <1>d, <1>e, <1>f, <1>g, <1>h

\* A failed COMMIT keeps nothing either.
LEMMA CommitFailsKeeps ==
    ASSUME CommandInv, CommitFails
    PROVE  CommandInv'
<1> USE DEF CommandInv, PhaseInv
<1>1. server' \in Server
  BY AnswerTypes DEF CommitFails, Answers, CommandTypeOK, Server
<1>2. work' \in [stamp : Nat, effects : [Pages -> Nat],
               ledger : [Pages -> Recorded \cup {Null}]]
  BY DEF CommitFails, RollsBack, Committed, CommandTypeOK
<1>a. CommandTypeOK'
  BY <1>1, <1>2, BoundAssumption DEF CommitFails, dbVars, userVars, RollsBack,
     CommandTypeOK, Recorded, AnswerRow, Requests, Server, RequestInv
<1>b. RequestInv' /\ LockInv'
  BY DEF CommitFails, dbVars, userVars, RollsBack, Answers, CommandTypeOK,
     Recorded, AnswerRow, Requests, Server, RequestInv, LockInv, InTransaction
<1>c. ReadPhase' /\ HandlePhase' /\ RecordPhase' /\ CommitPhase' /\ FlushPhase'
  BY DEF CommitFails, dbVars, userVars, Answers, RollsBack, CommandTypeOK,
     ReadPhase, Committed, Recorded, AnswerRow, Requests, Server, HandlePhase,
     RecordPhase, Carried, Done, CommitPhase, Truthful, FlushPhase
<1>d. ReplyPhase'
  BY DEF CommitFails, dbVars, userVars, Answers, Error, CommandTypeOK,
     Recorded, AnswerRow, Requests, Server, ReplyPhase, Truthful
<1>e. RecordedOnceDone' /\ EventsFollowCommit' /\ AnswersAreTrue'
  BY DEF CommitFails, dbVars, userVars, CommandTypeOK, RecordedOnceDone,
     EventsFollowCommit, AnswersAreTrue
<1> QED
  BY <1>a, <1>b, <1>c, <1>d, <1>e

\* The one event of the transaction is sent when its command is done.
LEMMA FlushesKeeps ==
    ASSUME CommandInv, Flushes
    PROVE  CommandInv'
<1> USE DEF CommandInv, PhaseInv
<1>a. CommandTypeOK'
  BY DEF Flushes, dbVars, userVars, CommandTypeOK, Recorded, AnswerRow, Requests,
     Server, RequestInv
<1>b. RequestInv' /\ LockInv'
  BY DEF Flushes, dbVars, userVars, CommandTypeOK, Recorded, AnswerRow, Requests,
     Server, RequestInv, LockInv, InTransaction
<1>c. ReadPhase' /\ HandlePhase' /\ RecordPhase' /\ CommitPhase' /\ FlushPhase'
  BY DEF Flushes, dbVars, userVars, CommandTypeOK, ReadPhase, Committed,
     Recorded, AnswerRow, Requests, Server, HandlePhase, RecordPhase, Carried,
     Done, CommitPhase, Truthful, FlushPhase
<1>d. ReplyPhase'
  BY DEF Flushes, dbVars, userVars, CommandTypeOK, Recorded, AnswerRow, Requests,
     Server, ReplyPhase, Truthful
<1>e. RecordedOnceDone' /\ AnswersAreTrue'
  BY DEF Flushes, dbVars, userVars, CommandTypeOK, RecordedOnceDone,
     AnswersAreTrue
<1>f. EventsFollowCommit'
  BY DEF Flushes, dbVars, userVars, FlushPhase, RecordedOnceDone,
     CommandTypeOK, EventsFollowCommit
<1> QED
  BY <1>a, <1>b, <1>c, <1>d, <1>e, <1>f

\* The answer that arrives is the one that is true.
LEMMA RepliesKeeps ==
    ASSUME CommandInv, Replies
    PROVE  CommandInv'
<1> USE DEF CommandInv, PhaseInv
<1>a. CommandTypeOK'
  BY AnswerTypes DEF Replies, Waiting, dbVars, RequestInv, CommandTypeOK,
     Recorded, AnswerRow, Requests, Server
<1>b. RequestInv' /\ LockInv'
  BY DEF Replies, Waiting, dbVars, CommandTypeOK, Recorded, AnswerRow, Requests,
     Server, RequestInv, LockInv, InTransaction
<1>c. ReadPhase' /\ HandlePhase' /\ RecordPhase' /\ CommitPhase' /\ FlushPhase' /\ ReplyPhase'
  BY DEF Replies, Waiting, dbVars, CommandTypeOK, ReadPhase, Committed,
     Recorded, AnswerRow, Requests, Server, HandlePhase, RecordPhase, Carried,
     Done, CommitPhase, Truthful, FlushPhase, ReplyPhase
<1>d. RecordedOnceDone' /\ EventsFollowCommit'
  BY DEF Replies, Waiting, dbVars, CommandTypeOK, RecordedOnceDone,
     EventsFollowCommit
<1>e. AnswersAreTrue'
  BY DEF Replies, Waiting, dbVars, ReplyPhase, Truthful, RequestInv, Server,
     CommandTypeOK, AnswersAreTrue
<1> QED
  BY <1>a, <1>b, <1>c, <1>d, <1>e

\* Nobody learns of it, and nothing else changes.
LEMMA AnswerIsLostKeeps ==
    ASSUME CommandInv, AnswerIsLost
    PROVE  CommandInv'
<1> USE DEF CommandInv, PhaseInv
<1>a. CommandTypeOK'
  BY BoundAssumption DEF AnswerIsLost, Waiting, dbVars, userVars, Error,
     CommandTypeOK, Recorded, AnswerRow, Requests, Server, RequestInv
<1>b. RequestInv' /\ LockInv'
  BY DEF AnswerIsLost, Waiting, dbVars, userVars, CommandTypeOK, Recorded,
     AnswerRow, Requests, Server, RequestInv, LockInv, InTransaction
<1>c. ReadPhase' /\ HandlePhase' /\ RecordPhase' /\ CommitPhase' /\ FlushPhase' /\ ReplyPhase'
  BY DEF AnswerIsLost, Waiting, dbVars, userVars, CommandTypeOK, ReadPhase,
     Committed, Recorded, AnswerRow, Requests, Server, HandlePhase, RecordPhase,
     Carried, Done, CommitPhase, Truthful, FlushPhase, ReplyPhase
<1>d. RecordedOnceDone' /\ EventsFollowCommit' /\ AnswersAreTrue'
  BY DEF AnswerIsLost, Waiting, dbVars, userVars, CommandTypeOK,
     RecordedOnceDone, EventsFollowCommit, AnswersAreTrue
<1> QED
  BY <1>a, <1>b, <1>c, <1>d

\* The database is as it was committed.
LEMMA CrashesKeeps ==
    ASSUME CommandInv, Crashes
    PROVE  CommandInv'
<1> USE DEF CommandInv, PhaseInv
<1>1. work' \in [stamp : Nat, effects : [Pages -> Nat],
               ledger : [Pages -> Recorded \cup {Null}]]
  BY DEF Crashes, Committed, CommandTypeOK
<1>a. CommandTypeOK'
  BY <1>1, BoundAssumption DEF Crashes, Waiting, dbVars, userVars, Error,
     CommandTypeOK, Recorded, AnswerRow, Requests, Server, RequestInv
<1>b. RequestInv' /\ LockInv'
  BY DEF Crashes, Waiting, dbVars, userVars, CommandTypeOK, Recorded, AnswerRow,
     Requests, Server, RequestInv, LockInv, InTransaction
<1>c. ReadPhase' /\ HandlePhase' /\ RecordPhase' /\ CommitPhase' /\ FlushPhase' /\ ReplyPhase'
  BY DEF Crashes, Waiting, dbVars, userVars, CommandTypeOK, ReadPhase,
     Committed, Recorded, AnswerRow, Requests, Server, HandlePhase, RecordPhase,
     Carried, Done, CommitPhase, Truthful, FlushPhase, ReplyPhase
<1>d. RecordedOnceDone' /\ EventsFollowCommit' /\ AnswersAreTrue'
  BY DEF Crashes, Waiting, dbVars, userVars, CommandTypeOK, RecordedOnceDone,
     EventsFollowCommit, AnswersAreTrue
<1> QED
  BY <1>a, <1>b, <1>c, <1>d

\* The lock is free: no transaction of the Office API is open.
LEMMA OtherBeginsKeeps ==
    ASSUME CommandInv, OtherBegins
    PROVE  CommandInv'
<1> USE DEF CommandInv, PhaseInv
<1>a. CommandTypeOK'
  BY BoundAssumption DEF OtherBegins, dbVars, userVars, CommandTypeOK,
     Recorded, AnswerRow, Requests, Server, RequestInv
<1>b. RequestInv' /\ LockInv'
  BY DEF OtherBegins, dbVars, userVars, CommandTypeOK, Recorded, AnswerRow,
     Requests, Server, RequestInv, LockInv, InTransaction
<1>c. ReadPhase' /\ HandlePhase' /\ RecordPhase'
  BY DEF OtherBegins, dbVars, userVars, CommandTypeOK, ReadPhase, Committed,
     Recorded, AnswerRow, Requests, Server, HandlePhase, RecordPhase, Carried,
     Done
<1>d. CommitPhase'
  BY DEF OtherBegins, dbVars, userVars, CommandTypeOK, Recorded, AnswerRow,
     Requests, Server, CommitPhase, Carried, Done, Truthful, Committed
<1>e. FlushPhase' /\ ReplyPhase' /\ RecordedOnceDone' /\ EventsFollowCommit' /\ AnswersAreTrue'
  BY DEF OtherBegins, dbVars, userVars, CommandTypeOK, Recorded, AnswerRow,
     Requests, Server, FlushPhase, ReplyPhase, Truthful, RecordedOnceDone,
     EventsFollowCommit, AnswersAreTrue
<1> QED
  BY <1>a, <1>b, <1>c, <1>d, <1>e

\* The lock is held elsewhere: no transaction of the Office API sees the change.
LEMMA OtherCommitsKeeps ==
    ASSUME CommandInv, OtherCommits
    PROVE  CommandInv'
<1> USE DEF CommandInv, PhaseInv
<1>a. CommandTypeOK'
  BY DEF OtherCommits, userVars, CommandTypeOK, Recorded, AnswerRow, Requests,
     Server, RequestInv
<1>b. RequestInv' /\ LockInv'
  BY DEF OtherCommits, userVars, CommandTypeOK, Recorded, AnswerRow, Requests,
     Server, RequestInv, LockInv, InTransaction
<1>c. ReadPhase' /\ HandlePhase' /\ RecordPhase'
  BY DEF OtherCommits, userVars, LockInv, InTransaction, CommandTypeOK,
     ReadPhase, Committed, Recorded, AnswerRow, Requests, Server, HandlePhase,
     RecordPhase, Carried, Done
<1>d. CommitPhase'
  BY DEF OtherCommits, userVars, LockInv, InTransaction, CommandTypeOK,
     Recorded, AnswerRow, Requests, Server, CommitPhase, Carried, Done, Truthful,
     Committed
<1>e. FlushPhase' /\ ReplyPhase' /\ RecordedOnceDone' /\ EventsFollowCommit' /\ AnswersAreTrue'
  BY DEF OtherCommits, userVars, CommandTypeOK, Recorded, AnswerRow, Requests,
     Server, FlushPhase, ReplyPhase, Truthful, RecordedOnceDone,
     EventsFollowCommit, AnswersAreTrue
<1> QED
  BY <1>a, <1>b, <1>c, <1>d, <1>e

-----------------------------------------------------------------------------
(* The invariant and what follows from it. *)

LEMMA InitialCommandInv == CommandInit => CommandInv
<1> SUFFICES ASSUME CommandInit PROVE CommandInv
  OBVIOUS
<1>1. CommandTypeOK
  BY BoundAssumption, AnswerTypes DEF CommandInit, CommandTypeOK, Committed
<1>2. RequestInv /\ LockInv
  BY DEF CommandInit, RequestInv, LockInv, InTransaction, Waiting
<1>3. PhaseInv
  BY DEF CommandInit, Waiting, PhaseInv, ReadPhase, HandlePhase, RecordPhase,
         CommitPhase, FlushPhase, ReplyPhase
<1>4. RecordedOnceDone /\ EventsFollowCommit /\ AnswersAreTrue
  BY DEF CommandInit, RecordedOnceDone, EventsFollowCommit, AnswersAreTrue
<1> QED
  BY <1>1, <1>2, <1>3, <1>4 DEF CommandInv

LEMMA CommandInvUnchanged ==
    ASSUME CommandInv, UNCHANGED commandVars
    PROVE  CommandInv'
<1> USE DEF commandVars
<1>1. CommandTypeOK' /\ RequestInv'
  BY DEF CommandInv, CommandTypeOK, RequestInv
<1>2. LockInv' /\ ReadPhase' /\ HandlePhase' /\ FlushPhase'
  BY DEF CommandInv, PhaseInv, LockInv, InTransaction, ReadPhase, Committed,
         HandlePhase, FlushPhase
<1>3. RecordPhase' /\ CommitPhase' /\ ReplyPhase'
  BY DEF CommandInv, PhaseInv, RecordPhase, CommitPhase, ReplyPhase, Carried,
         Truthful, Committed
<1>4. RecordedOnceDone' /\ EventsFollowCommit' /\ AnswersAreTrue'
  BY DEF CommandInv, RecordedOnceDone, EventsFollowCommit, AnswersAreTrue
<1> QED
  BY <1>1, <1>2, <1>3, <1>4 DEF CommandInv, PhaseInv

LEMMA CommandNextKeeps ==
    ASSUME CommandInv, [CommandNext]_commandVars
    PROVE  CommandInv'
<1>1. ASSUME NEW p \in Pages, Load(p) PROVE CommandInv'
  BY <1>1, LoadKeeps
<1>2. ASSUME NEW p \in Pages, NEW a \in Args, Submit(p, a) PROVE CommandInv'
  BY <1>2, SubmitKeeps
<1>3. ASSUME NEW p \in Pages, TakesFrom(p) PROVE CommandInv'
  BY <1>3, TakesFromKeeps
<1>4. CASE Begins \/ LooksUp \/ Handles \/ Records \/ Commits \/ Flushes \/ Replies
  BY <1>4, BeginsKeeps, LooksUpKeeps, HandlesKeeps, RecordsKeeps, CommitsKeeps,
     FlushesKeeps, RepliesKeeps
<1>5. CASE Refuses \/ CommitFails \/ AnswerIsLost \/ Crashes
  BY <1>5, RefusesKeeps, CommitFailsKeeps, AnswerIsLostKeeps, CrashesKeeps
<1>6. CASE OtherBegins \/ OtherCommits
  BY <1>6, OtherBeginsKeeps, OtherCommitsKeeps
<1>7. CASE UNCHANGED commandVars
  BY <1>7, CommandInvUnchanged
<1> QED
  BY <1>1, <1>2, <1>3, <1>4, <1>5, <1>6, <1>7 DEF CommandNext, ServerStep

\* In every behaviour of a command, whatever fails and whoever else writes, the
\* request in the handler is where the invariant says it is.
THEOREM CommandInvariance == CommandSpec => []CommandInv
<1>1. CommandInit => CommandInv
  BY InitialCommandInv
<1>2. CommandInv /\ [CommandNext]_commandVars => CommandInv'
  BY CommandNextKeeps
<1> QED
  BY <1>1, <1>2, PTL DEF CommandSpec

\* Every variable keeps its type.
THEOREM CommandTypeCorrectness == CommandSpec => []CommandTypeOK
<1>1. CommandInv => CommandTypeOK
  BY DEF CommandInv
<1> QED
  BY <1>1, CommandInvariance, PTL

\* core_transaction.py: a command is carried out at most once, and it is
\* carried out exactly if office_api_commands holds its row.
THEOREM RecordedExactlyIfDone == CommandSpec => []RecordedOnceDone
<1>1. CommandInv => RecordedOnceDone
  BY DEF CommandInv
<1> QED
  BY <1>1, CommandInvariance, PTL

\* DeferredEventSink: an event is sent at most once and only for a command that
\* has been committed.
THEOREM EventsOnlyAfterCommit == CommandSpec => []EventsFollowCommit
<1>1. CommandInv => EventsFollowCommit
  BY DEF CommandInv
<1> QED
  BY <1>1, CommandInvariance, PTL

\* The replay of the command ledger: every page that hears "done" hears the
\* one recorded result of the arguments it is told about.
THEOREM AnswersTellTheLedger == CommandSpec => []AnswersAreTrue
<1>1. CommandInv => AnswersAreTrue
  BY DEF CommandInv
<1> QED
  BY <1>1, CommandInvariance, PTL

-----------------------------------------------------------------------------
(* Steps that carry a command out. *)

\* The only step that carries out a command is the COMMIT of its transaction,
\* which carries out the command of the request and finds the stamp it expects.
LEMMA OnlyCommitsPerform ==
    ASSUME CommandInv, [CommandNext]_commandVars
    PROVE  \/ UNCHANGED <<effects, ledger>>
           \/ Commits /\ Carried
<1>1. CASE Commits
  BY <1>1 DEF Commits, CommandInv, PhaseInv, CommitPhase, Committed
<1>2. CASE ~ Commits
  <2>1. ASSUME NEW p \in Pages,
               Load(p) \/ TakesFrom(p) \/ \E a \in Args : Submit(p, a)
        PROVE  UNCHANGED <<effects, ledger>>
    BY <2>1 DEF Load, TakesFrom, Submit, dbVars
  <2>2. CASE \/ Begins \/ LooksUp \/ Handles \/ Records \/ Flushes \/ Replies
             \/ Refuses \/ CommitFails \/ AnswerIsLost \/ Crashes
             \/ OtherBegins \/ OtherCommits
    BY <2>2 DEF Begins, LooksUp, Handles, Records, Flushes, Replies, Refuses,
         CommitFails, AnswerIsLost, Crashes, OtherBegins, OtherCommits, dbVars
  <2>3. CASE UNCHANGED commandVars
    BY <2>3 DEF commandVars
  <2> QED
    BY <1>2, <2>1, <2>2, <2>3 DEF CommandNext, ServerStep
<1> QED
  BY <1>1, <1>2

\* The expected state (_expect_updated_at) is checked against the very row the
\* command changes: what other processes committed before is never overwritten
\* unseen.
THEOREM NoUpdateIsLost == CommandSpec => NoLostUpdate
<1>1. CommandInv /\ [CommandNext]_commandVars =>
        [\A p \in Guarded : effects'[p] # effects[p] => expect[p] = stamp]_commandVars
  <2> SUFFICES ASSUME CommandInv, [CommandNext]_commandVars,
                      NEW p \in Guarded, effects'[p] # effects[p]
               PROVE  expect[p] = stamp
    OBVIOUS
  <2>1. Commits /\ Carried
    BY OnlyCommitsPerform
  <2>2. effects' = [effects EXCEPT ![server.page] = 1]
    BY <2>1 DEF Commits, Carried
  <2>3. p = server.page
    BY <2>2, GuardedAssumption DEF CommandInv, CommandTypeOK
  <2> QED
    BY <2>1, <2>3 DEF Carried
<1> QED
  BY <1>1, CommandInvariance, PTL DEF CommandSpec, NoLostUpdate

-----------------------------------------------------------------------------
(* The coordinator, the ledger and the deferred sink implement CommandOnce.  *)

LEMMA InitImplements == CommandInit => Once!OnceInit
  BY DEF CommandInit, Once!OnceInit

\* Between the request and its answer the promise does not move, except at
\* the COMMIT, the flush and the answer.
LEMMA StepImplements ==
    ASSUME CommandInv, CommandInv', [CommandNext]_commandVars
    PROVE  [Once!OnceNext]_(Once!onceVars)
<1> USE DEF Once!onceVars
<1>1. ASSUME NEW p \in Pages, Load(p)
      PROVE  Once!OnceNext
  BY <1>1 DEF Load, dbVars, Once!OnceNext, Once!LoadOnce
<1>2. ASSUME NEW p \in Pages, TakesFrom(p) \/ \E a \in Args : Submit(p, a)
      PROVE  UNCHANGED Once!onceVars
  BY <1>2 DEF TakesFrom, Submit, dbVars, userVars
<1>3. CASE \/ Begins \/ LooksUp \/ Handles \/ Records
           \/ Refuses \/ CommitFails \/ AnswerIsLost \/ Crashes \/ OtherBegins
  BY <1>3 DEF Begins, LooksUp, Handles, Records, Refuses, CommitFails,
       AnswerIsLost, Crashes, OtherBegins, dbVars, userVars
<1>4. CASE Commits
  <2>1. UNCHANGED <<announced, expect, told>>
    BY <1>4 DEF Commits, userVars
  <2>2. CASE work = Committed
    BY <1>4, <2>1, <2>2 DEF Commits, Committed
  <2>3. CASE Carried /\ work.ledger = [ledger EXCEPT ![server.page] =
                           [args |-> server.args, result |-> stamp + 1]]
    <3>1. Once!Perform(server.page, server.args)
      BY <1>4, <2>1, <2>3
         DEF Commits, Carried, Once!Perform, CommandInv, RequestInv
    <3>2. server.page \in Pages /\ server.args \in Args
      BY <1>4 DEF Commits, CommandInv, RequestInv
    <3> QED
      BY <3>1, <3>2 DEF Once!OnceNext
  <2> QED
    BY <1>4, <2>2, <2>3 DEF Commits, CommandInv, PhaseInv, CommitPhase
<1>5. CASE Flushes
  <2>1. UNCHANGED <<stamp, effects, ledger, expect, told>> /\ server.pc = "flush"
    BY <1>5 DEF Flushes, dbVars, userVars
  <2>2. server.page \in Pages /\ announced \in [Pages -> Nat]
    BY <2>1 DEF CommandInv, RequestInv, CommandTypeOK
  <2>3. CASE buffer = {}
    BY <1>5, <2>1, <2>2, <2>3 DEF Flushes
  <2>4. CASE /\ buffer = {server.page} /\ announced[server.page] = 0
             /\ ledger[server.page] # Null
    <3>1. announced' = [announced EXCEPT ![server.page] = 1]
      <4>1. announced' = [p \in Pages |-> IF p = server.page THEN announced[p] + 1
                                                             ELSE announced[p]]
        BY <1>5, <2>4 DEF Flushes
      <4>2. announced' = [p \in Pages |-> IF p = server.page THEN 1
                                                             ELSE announced[p]]
        BY <2>2, <2>4, <4>1
      <4> QED
        BY <2>2, <4>2
    <3>2. Once!Announce(server.page)
      BY <2>1, <2>4, <3>1 DEF Once!Announce
    <3> QED
      BY <2>2, <3>2 DEF Once!OnceNext
  <2> QED
    BY <2>1, <2>3, <2>4 DEF CommandInv, PhaseInv, FlushPhase
<1>6. CASE Replies
  <2>1. /\ UNCHANGED <<stamp, effects, ledger, announced, expect>>
        /\ told' = [told EXCEPT ![server.page] = @ \cup {server.answer}]
        /\ server.page \in Pages /\ told \in [Pages -> SUBSET AnswerRow]
    BY <1>6 DEF Replies, dbVars, CommandInv, CommandTypeOK, RequestInv
  <2>2. told' = [told EXCEPT ![server.page] = @ \cup told'[server.page]]
    BY <2>1
  <2>3. ASSUME NEW answer \in told'[server.page]
        PROVE  /\ answer.kind = "done" =>
                    /\ ledger[server.page] # Null
                    /\ answer.args = ledger[server.page].args
                    /\ answer.result = ledger[server.page].result
               /\ answer.kind = "conflict" => ledger[server.page] # Null
    <3>1. /\ answer.kind = "done" =>
               /\ ledger'[server.page] # Null
               /\ ledger'[server.page] = [args   |-> answer.args,
                                          result |-> answer.result]
          /\ answer.kind = "conflict" => ledger'[server.page] # Null
      BY <2>1 DEF CommandInv, AnswersAreTrue
    <3>2. ledger' = ledger
      BY <2>1
    <3> QED
      BY <3>1, <3>2
  <2>4. UNCHANGED <<stamp, expect, ledger, announced>> /\ server.page \in Pages
    BY <2>1
  <2>5. Once!Tell(server.page)
    BY <2>2, <2>3, <2>4 DEF Once!Tell
  <2> QED
    BY <2>4, <2>5 DEF Once!OnceNext
<1>7. CASE OtherCommits
  BY <1>7 DEF OtherCommits, userVars, Once!OnceNext, Once!PerformElsewhere
<1>8. CASE UNCHANGED commandVars
  BY <1>8 DEF commandVars
<1> QED
  BY <1>1, <1>2, <1>3, <1>4, <1>5, <1>6, <1>7, <1>8 DEF CommandNext, ServerStep

\* core_transaction.py: seen from its page, a command is
\* one step that happens at most once, on the state the page was rendered from,
\* is announced afterwards and answered with its own result.
THEOREM CommandHappensOnce == CommandSpec => OnceSpec
<1>1. CommandInit => Once!OnceInit
  BY InitImplements
<1>2. CommandInv /\ CommandInv' /\ [CommandNext]_commandVars
        => [Once!OnceNext]_(Once!onceVars)
  BY StepImplements
<1> QED
  BY <1>1, <1>2, CommandInvariance, PTL DEF CommandSpec, OnceSpec, Once!OnceSpec

\* The ledger has one row per effect, and every answer repeats it.
THEOREM LedgerTellsWhatHappened == CommandSpec => []LedgerIsTheTruth
<1>1. RecordedOnceDone /\ EventsFollowCommit /\ AnswersAreTrue => LedgerIsTheTruth
  BY DEF LedgerIsTheTruth
<1> QED
  BY <1>1, RecordedExactlyIfDone, EventsOnlyAfterCommit, AnswersTellTheLedger, PTL

(****************************************************************************)
(* The start of the servers, for any of the servers, any number of documents *)
(* from before the upgrade and any number of crashes.                        *)
(****************************************************************************)

\* How many migrations a component has; they are numbered from 1.
Last(c) == CASE c = "orders" -> 11 [] c = "commercial" -> 2 [] OTHER -> 1

LEMMA MigrationsAreNumbered ==
    \A c \in Components :
        /\ Last(c) \in 1..11
        /\ DOMAIN Migrations(c) = 1..Last(c)
  <1> SUFFICES ASSUME NEW c \in Components
               PROVE  Last(c) \in 1..11 /\ DOMAIN Migrations(c) = 1..Last(c)
      OBVIOUS
  <1>1. CASE c = "orders"
      BY <1>1 DEF Last, Migrations, OrderMigrations
  <1>2. CASE c = "commercial"
    <2>1. Migrations(c) = <<Script, Atomic>>
      BY <1>2 DEF Migrations
    <2> QED
      BY <1>2, <2>1 DEF Last
  <1>3. CASE c = "kitchen_print"
    <2>1. Migrations(c) = <<Atomic>>
      BY <1>3 DEF Migrations
    <2> QED
      BY <1>3, <2>1 DEF Last
  <1>4. CASE c \in {"documents", "outbound", "offer_documents"}
    <2>1. Migrations(c) = <<Script>>
      BY <1>4 DEF Migrations
    <2> QED
      BY <1>4, <2>1 DEF Last
  <1> QED
      BY <1>1, <1>2, <1>3, <1>4 DEF Components

\* Every server opens the orders first, and only components there are.
LEMMA ServersOpenComponents ==
    \A s \in Servers :
        /\ Len(Opens(s)) \in 1..6
        /\ Opens(s) \in Seq(Components)
        /\ Opens(s)[1] = "orders"
        /\ \A i \in 2..Len(Opens(s)) : Opens(s)[i] # "orders"
  <1> SUFFICES ASSUME NEW s \in Servers
               PROVE  /\ Len(Opens(s)) \in 1..6
                      /\ Opens(s) \in Seq(Components)
                      /\ Opens(s)[1] = "orders"
                      /\ \A i \in 2..Len(Opens(s)) : Opens(s)[i] # "orders"
      OBVIOUS
  <1> USE DEF Components
  <1>1. CASE s = "office_api"
      BY <1>1 DEF Opens
  <1>2. CASE s = "kitchen_api"
      BY <1>2 DEF Opens
  <1>3. CASE s = "kiosk"
      BY <1>3 DEF Opens
  <1>4. CASE s = "office_panel"
      BY <1>4 DEF Opens
  <1> QED
      BY <1>1, <1>2, <1>3, <1>4, ServersAssumption

LEMMA IntervalMin == ASSUME NEW k \in Nat, NEW l \in Nat, k < l
                     PROVE  /\ (1..l) \ (1..k) # {} /\ Min((1..l) \ (1..k)) = k + 1
  <1>1. k + 1 \in (1..l) \ (1..k) /\ \A y \in (1..l) \ (1..k) : k + 1 <= y
      OBVIOUS
  <1> QED
      BY <1>1 DEF Min
-----------------------------------------------------------------------------
(* The inductive invariant of the starts. *)

\* The history of a component has no gap, and what it says is there.
HistoryIsBuilt ==
    \A c \in Components :
        /\ \E k \in 0..Last(c) : recorded[c] = 1..k
        /\ \A n \in recorded[c] : Objects(c, n) \subseteq built[c]

FileTypes ==
    /\ recorded \in [Components -> SUBSET (1..11)]
    /\ built \in [Components -> SUBSET ((1..11) \X Statements)]
    /\ contexts \subseteq documents

\* The i-th repository of the server is open.
IsOpen(s, i) == i < starting[s].at \/ starting[s].step = "serving"

\* What a server knows of a component, and has done of a script, is in the file, and
\* the components of its open repositories are up to date.
StartIsTrue(s) ==
    /\ starting[s] \in Progress
    /\ starting[s].step \notin {"down", "serving"} => starting[s].at \in 1..Len(Opens(s))
    /\ starting[s].step \in {"apply", "script", "record"} =>
         /\ \E k \in 0..Last(Current(s)) : starting[s].known = 1..k
         /\ starting[s].known \subseteq recorded[Current(s)]
    /\ starting[s].step \in {"script", "record"} =>
         /\ Pending(s) # {} /\ Migration(s).script
         /\ starting[s].statement \in (IF starting[s].step = "script" THEN {1, 2} ELSE {3})
         /\ \A i \in 1..2 : i < starting[s].statement =>
              <<Version(s), i>> \in built[Current(s)]
    /\ \A i \in DOMAIN Opens(s) : IsOpen(s, i) =>
         recorded[Opens(s)[i]] = 1..Last(Opens(s)[i])
    /\ IsOpen(s, 1) => Missing = {}

StartsInv ==
    /\ FileTypes /\ HistoryIsBuilt
    /\ starting \in [Servers -> Progress] /\ \A s \in Servers : StartIsTrue(s)

\* No server takes anything out of the file.
FileGrows ==
    /\ FileTypes' /\ HistoryIsBuilt'
    /\ \A c \in Components : recorded[c] \subseteq recorded'[c] /\ built[c] \subseteq built'[c]
    /\ contexts \subseteq contexts' /\ UNCHANGED documents

LEMMA CurrentIsAComponent ==
    ASSUME NEW s \in Servers, starting[s].at \in 1..Len(Opens(s))
    PROVE  Current(s) \in Components /\ Last(Current(s)) \in 1..11
           /\ DOMAIN Migrations(Current(s)) = 1..Last(Current(s))
    BY ServersOpenComponents, MigrationsAreNumbered DEF Current

\* The number of the next migration.
LEMMA NextVersion ==
    ASSUME NEW s \in Servers, starting[s].at \in 1..Len(Opens(s)),
           NEW k \in 0..Last(Current(s)), starting[s].known = 1..k
    PROVE  /\ Pending(s) # {} <=> k < Last(Current(s))
           /\ k < Last(Current(s)) => Version(s) = k + 1 /\ Version(s) \in 1..Last(Current(s))
<1>1. /\ Last(Current(s)) \in 1..11
      /\ Pending(s) = (1..Last(Current(s))) \ (1..k)
    BY CurrentIsAComponent DEF Pending
<1>2. CASE k < Last(Current(s))
  <2>1. k \in Nat /\ Last(Current(s)) \in Nat
    BY <1>1
  <2>2. Pending(s) # {} /\ Min(Pending(s)) = k + 1
    BY <1>1, <1>2, <2>1, IntervalMin
  <2> QED
    BY <1>1, <1>2, <2>1, <2>2 DEF Version
<1>3. CASE ~ (k < Last(Current(s)))
    BY <1>1, <1>3
<1> QED
    BY <1>2, <1>3

\* A component that is up to date stays so.
LEMMA UpToDateStays ==
    ASSUME FileGrows, NEW c \in Components, recorded[c] = 1..Last(c)
    PROVE  recorded'[c] = 1..Last(c)
<1>1. PICK k \in 0..Last(c) : recorded'[c] = 1..k
    BY DEF FileGrows, HistoryIsBuilt
<1>2. 1..Last(c) \subseteq 1..k /\ Last(c) \in 1..11
    BY <1>1, MigrationsAreNumbered DEF FileGrows
<1>3. Last(c) \in 1..k
    BY <1>2
<1>4. k = Last(c)
    BY <1>1, <1>2, <1>3
<1> QED
    BY <1>1, <1>4

\* What is true of a server stays true while others write.
LEMMA StartStaysTrue ==
    ASSUME StartsInv, FileGrows, NEW s \in Servers, starting'[s] = starting[s]
    PROVE  StartIsTrue(s)'
<1>0. /\ StartIsTrue(s)
      /\ Current(s)' = Current(s) /\ Pending(s)' = Pending(s) /\ Version(s)' = Version(s)
      /\ Migration(s)' = Migration(s) /\ \A i : IsOpen(s, i)' = IsOpen(s, i)
    BY DEF StartsInv, Current, Pending, Version, Migration, IsOpen
<1>1. ASSUME starting[s].step \notin {"down", "serving"}
      PROVE  Current(s) \in Components
    BY <1>0, <1>1, CurrentIsAComponent DEF StartIsTrue
<1>2. ASSUME NEW i \in DOMAIN Opens(s), IsOpen(s, i)
      PROVE  recorded'[Opens(s)[i]] = 1..Last(Opens(s)[i])
    BY <1>0, <1>2, ServersOpenComponents, UpToDateStays DEF StartIsTrue
<1>3. IsOpen(s, 1) => Missing' = {}
    BY <1>0 DEF StartIsTrue, Missing, FileGrows
<1> QED
    BY <1>0, <1>1, <1>2, <1>3 DEF StartIsTrue, FileGrows

LEMMA OneStartMoves ==
    ASSUME StartsInv, FileGrows, NEW s \in Servers, NEW p,
           starting' = [starting EXCEPT ![s] = p], StartIsTrue(s)'
    PROVE  StartsInv'
<1>1. \A x \in Servers : x # s => starting'[x] = starting[x]
    BY DEF StartsInv
<1>2. \A x \in Servers : StartIsTrue(x)'
    BY <1>1, StartStaysTrue
<1>3. starting' \in [Servers -> Progress]
    BY DEF StartsInv, StartIsTrue
<1> QED
    BY <1>2, <1>3 DEF StartsInv, FileGrows

LEMMA InitStarts == MigrationInit => StartsInv
<1> SUFFICES ASSUME MigrationInit PROVE StartsInv
    OBVIOUS
<1>1. \A c \in Components : \E k \in 0..Last(c) : recorded[c] = 1..k
  <2>1. CASE recorded = [c \in Components |-> {}]
    <3>1. \A c \in Components : recorded[c] = 1..0 /\ 0 \in 0..Last(c)
      BY <2>1, MigrationsAreNumbered
    <3> QED
      BY <3>1
  <2>2. CASE recorded = Old
    <3>1. /\ recorded["orders"] = 1..7 /\ recorded["documents"] = 1..1
          /\ \A c \in Components \ {"orders", "documents"} : recorded[c] = 1..0
      BY <2>2 DEF Old, Components
    <3>2. /\ 7 \in 0..Last("orders") /\ 1 \in 0..Last("documents")
          /\ \A c \in Components : 0 \in 0..Last(c)
      BY MigrationsAreNumbered DEF Last
    <3> QED
      BY <3>1, <3>2
  <2> QED
    BY <2>1, <2>2 DEF MigrationInit
<1>2. \A c \in Components : built[c] = UNION {Objects(c, n) : n \in recorded[c]}
    BY DEF MigrationInit
<1>3. recorded \in [Components -> SUBSET (1..11)]
    BY DEF MigrationInit, Old
<1>4. FileTypes
  <2>1. \A c \in Components, n \in 1..11 : Objects(c, n) \subseteq (1..11) \X Statements
    BY DEF Objects, Statements
  <2>2. \A c \in Components : built[c] \subseteq (1..11) \X Statements
    BY <1>2, <1>3, <2>1
  <2>3. built \in [Components -> SUBSET ((1..11) \X Statements)]
    BY <2>2 DEF MigrationInit
  <2> QED
    BY <1>3, <2>3 DEF FileTypes, MigrationInit
<1>5. HistoryIsBuilt
    BY <1>1, <1>2 DEF HistoryIsBuilt
<1>6. \A s \in Servers : starting[s] = Down
    BY DEF MigrationInit
<1>7. \A s \in Servers : StartIsTrue(s)
    BY <1>6, ServersOpenComponents DEF StartIsTrue, Down, Progress, IsOpen
<1>8. starting \in [Servers -> Progress]
    BY DEF MigrationInit, Down, Progress
<1> QED
    BY <1>4, <1>5, <1>7, <1>8 DEF StartsInv

-----------------------------------------------------------------------------
(* The steps of a start. *)

LEMMA FileStays ==
    ASSUME StartsInv, UNCHANGED <<recorded, built, documents, contexts>>
    PROVE  FileGrows
    BY DEF StartsInv, FileTypes, HistoryIsBuilt, FileGrows

LEMMA BackfillGrows ==
    ASSUME StartsInv, UNCHANGED <<recorded, built, documents>>,
           contexts \subseteq contexts', contexts' \subseteq documents
    PROVE  FileGrows
    BY DEF StartsInv, FileTypes, HistoryIsBuilt, FileGrows

\* What a server that applies migrations knows of their history.
LEMMA KnownHistory ==
    ASSUME StartsInv, NEW s \in Servers, starting[s].step \in {"apply", "script", "record"}
    PROVE  /\ starting[s].at \in 1..Len(Opens(s)) /\ Current(s) \in Components
           /\ \E k \in 0..Last(Current(s)), l \in 0..Last(Current(s)) :
                /\ starting[s].known = 1..k /\ recorded[Current(s)] = 1..l /\ k <= l
                /\ Pending(s) # {} <=> k < Last(Current(s))
                /\ Pending(s) # {} => Version(s) = k + 1 /\ Version(s) \in 1..Last(Current(s))
<1>1. starting[s].at \in 1..Len(Opens(s)) /\ StartIsTrue(s)
    BY DEF StartsInv, StartIsTrue
<1>2. Current(s) \in Components /\ Last(Current(s)) \in 1..11
    BY <1>1, CurrentIsAComponent
<1>3. PICK k \in 0..Last(Current(s)) : starting[s].known = 1..k
    BY <1>1 DEF StartIsTrue
<1>4. PICK l \in 0..Last(Current(s)) : recorded[Current(s)] = 1..l
    BY <1>2 DEF StartsInv, HistoryIsBuilt
<1>5. 1..k \subseteq 1..l
    BY <1>1, <1>3, <1>4 DEF StartIsTrue
<1>6. k <= l
    BY <1>2, <1>5
<1>7. /\ Pending(s) # {} <=> k < Last(Current(s))
      /\ k < Last(Current(s)) => Version(s) = k + 1 /\ Version(s) \in 1..Last(Current(s))
    BY <1>1, <1>3, NextVersion
<1> QED
    BY <1>1, <1>2, <1>3, <1>4, <1>6, <1>7

\* The row of the next version is written, by this server or by another one before.
LEMMA RowIsWritten ==
    ASSUME StartsInv, NEW s \in Servers, starting[s].step \in {"apply", "record"},
           Pending(s) # {},
           recorded' = [recorded EXCEPT ![Current(s)] = @ \cup {Version(s)}],
           built' \in [Components -> SUBSET ((1..11) \X Statements)],
           \A c \in Components : built[c] \subseteq built'[c],
           Objects(Current(s), Version(s)) \subseteq built'[Current(s)],
           contexts \subseteq contexts', contexts' \subseteq documents, UNCHANGED documents
    PROVE  FileGrows
<1>1. Current(s) \in Components /\ Last(Current(s)) \in 1..11
    BY KnownHistory, MigrationsAreNumbered
<1>2. PICK k \in 0..Last(Current(s)), l \in 0..Last(Current(s)) :
        /\ recorded[Current(s)] = 1..l /\ k <= l
        /\ Version(s) = k + 1 /\ Version(s) \in 1..Last(Current(s))
    BY KnownHistory
<1>3. recorded \in [Components -> SUBSET (1..11)]
    BY DEF StartsInv, FileTypes
<1>4. \A c \in Components : c # Current(s) => recorded'[c] = recorded[c]
    BY <1>3
<1>5. recorded'[Current(s)] = (1..l) \cup {k + 1}
    BY <1>1, <1>2, <1>3
<1>6. \E m \in 0..Last(Current(s)) : recorded'[Current(s)] = 1..m
  <2>1. CASE k = l
    <3>1. (1..l) \cup {k + 1} = 1..(k + 1) /\ k + 1 \in 0..Last(Current(s))
      BY <1>1, <1>2, <2>1
    <3> QED
      BY <1>5, <3>1
  <2>2. CASE k # l
    <3>1. (1..l) \cup {k + 1} = 1..l
      BY <1>1, <1>2, <2>2
    <3> QED
      BY <1>5, <3>1
  <2> QED
    BY <2>1, <2>2
<1>7. HistoryIsBuilt'
  <2>1. ASSUME NEW c \in Components
        PROVE  /\ \E m \in 0..Last(c) : recorded'[c] = 1..m
               /\ \A n \in recorded'[c] : Objects(c, n) \subseteq built'[c]
    <3>1. CASE c = Current(s)
      <4>1. \A n \in recorded[c] : Objects(c, n) \subseteq built[c]
        BY DEF StartsInv, HistoryIsBuilt
      <4>2. \A n \in recorded'[c] : n \in recorded[c] \/ n = Version(s)
        BY <1>1, <1>2, <1>5, <3>1
      <4> QED
        BY <1>6, <3>1, <4>1, <4>2
    <3>2. CASE c # Current(s)
      BY <1>4, <3>2 DEF StartsInv, HistoryIsBuilt
    <3> QED
      BY <3>1, <3>2
  <2> QED
    BY <2>1 DEF HistoryIsBuilt, Objects
<1>8. FileTypes'
  <2>1. Version(s) \in 1..11
    BY <1>1, <1>2
  <2> QED
    BY <1>3, <2>1 DEF FileTypes
<1>9. \A c \in Components : recorded[c] \subseteq recorded'[c]
    BY <1>3
<1> QED
    BY <1>7, <1>8, <1>9 DEF FileGrows

\* A server goes on with the repository it is at.
LEMMA StaysAtRepository ==
    ASSUME StartsInv, FileGrows, NEW s \in Servers, NEW p \in Progress,
           starting[s].step \in {"open", "apply", "script", "record"},
           starting' = [starting EXCEPT ![s] = p],
           p.at = starting[s].at, p.step \in {"apply", "script", "record"},
           \E k \in 0..Last(Current(s)) : p.known = 1..k,
           p.known \subseteq recorded'[Current(s)],
           p.step # "apply" =>
             /\ Pending(s)' # {} /\ Migration(s)'.script
             /\ p.statement \in (IF p.step = "script" THEN {1, 2} ELSE {3})
             /\ \A i \in 1..2 : i < p.statement => <<Version(s)', i>> \in built'[Current(s)]
    PROVE  StartsInv'
<1>1. StartIsTrue(s) /\ starting'[s] = p /\ Current(s)' = Current(s)
    BY DEF StartsInv, Current
<1>2. starting[s].at \in 1..Len(Opens(s))
    BY <1>1 DEF StartIsTrue
<1>3. \A i \in DOMAIN Opens(s) : IsOpen(s, i)' <=> IsOpen(s, i)
    BY <1>1 DEF IsOpen
<1>4. ASSUME NEW i \in DOMAIN Opens(s), IsOpen(s, i)
      PROVE  recorded'[Opens(s)[i]] = 1..Last(Opens(s)[i])
    BY <1>1, <1>4, ServersOpenComponents, UpToDateStays DEF StartIsTrue
<1>5. IsOpen(s, 1)' => Missing' = {}
    BY <1>1 DEF StartIsTrue, Missing, FileGrows, IsOpen
<1>6. StartIsTrue(s)'
    BY <1>1, <1>2, <1>3, <1>4, <1>5 DEF StartIsTrue
<1> QED
    BY <1>6, OneStartMoves

\* How a script moves a server on.
Goes(d, step, n) == [d EXCEPT !.step = step, !.statement = n]
Learned(d, known) == [Goes(d, "apply", 0) EXCEPT !.known = known]

LEMMA GoesOnInScript ==
    ASSUME NEW d \in Progress, NEW step \in {"apply", "script", "record"}, NEW n \in 0..3
    PROVE  /\ Goes(d, step, n) \in Progress
           /\ Goes(d, step, n).step = step /\ Goes(d, step, n).statement = n
           /\ Goes(d, step, n).at = d.at /\ Goes(d, step, n).known = d.known
    BY DEF Goes, Progress

LEMMA LearnedFields ==
    ASSUME NEW d \in Progress, NEW known \in SUBSET (1..11)
    PROVE  /\ Learned(d, known) \in Progress
           /\ Learned(d, known).step = "apply" /\ Learned(d, known).at = d.at
           /\ Learned(d, known).known = known
<1>1. PICK e : e = Goes(d, "apply", 0)
    OBVIOUS
<1>2. e \in Progress /\ e.step = "apply" /\ e.at = d.at
    BY <1>1, GoesOnInScript
<1>3. Learned(d, known) = [e EXCEPT !.known = known]
    BY <1>1 DEF Learned
<1> QED
    BY <1>2, <1>3 DEF Progress

\* The server has learned of the next version and looks at the one after it.
LEMMA VersionIsKnown ==
    ASSUME StartsInv, FileGrows, NEW s \in Servers, Pending(s) # {},
           starting[s].step \in {"apply", "record"}, Version(s) \in recorded'[Current(s)],
           NEW p \in Progress, starting' = [starting EXCEPT ![s] = p],
           p.step = "apply", p.at = starting[s].at,
           p.known = starting[s].known \cup {Version(s)}
    PROVE  StartsInv'
<1>1. StartIsTrue(s) /\ starting'[s] = p /\ Current(s)' = Current(s)
    BY DEF StartsInv, Current
<1>2. starting[s].at \in 1..Len(Opens(s)) /\ Current(s) \in Components
    BY KnownHistory
<1>3. PICK k \in 0..Last(Current(s)) :
        /\ starting[s].known = 1..k
        /\ Version(s) = k + 1 /\ Version(s) \in 1..Last(Current(s))
    BY KnownHistory
<1>4. Last(Current(s)) \in 1..11
    BY <1>2, MigrationsAreNumbered
<1>5. p.known = 1..(k + 1) /\ k + 1 \in 0..Last(Current(s))
    BY <1>3, <1>4
<1>6. p.known \subseteq recorded'[Current(s)]
    BY <1>1, <1>2 DEF StartIsTrue, FileGrows
<1> QED
    BY <1>5, <1>6, StaysAtRepository

LEMMA StartKeeps == ASSUME StartsInv, NEW s \in Servers, Start(s) PROVE StartsInv'
<1>1. PICK p : p = [Down EXCEPT !.step = "open", !.at = 1]
    OBVIOUS
<1>2. p \in Progress /\ p.step = "open" /\ p.at = 1
  <2>1. p = [step |-> "open", at |-> 1, known |-> {}, statement |-> 0]
      BY <1>1 DEF Down
  <2> QED
      BY <2>1 DEF Progress
<1>3. starting' = [starting EXCEPT ![s] = p] /\ FileGrows
    BY <1>1, FileStays DEF Start
<1>4. starting'[s] = p
    BY <1>3 DEF StartsInv
<1>5. \A i \in DOMAIN Opens(s) : ~ IsOpen(s, i)'
    BY <1>2, <1>4, ServersOpenComponents DEF IsOpen
<1>6. StartIsTrue(s)'
    BY <1>2, <1>4, <1>5, ServersOpenComponents DEF StartIsTrue
<1> QED
    BY <1>3, <1>6, OneStartMoves

\* A server is down: nothing is said of it.
LEMMA DownKeeps ==
    ASSUME StartsInv, FileGrows, NEW s \in Servers, starting' = [starting EXCEPT ![s] = Down]
    PROVE  StartsInv'
<1>1. Down \in Progress /\ starting'[s] = Down
    BY DEF StartsInv, Down, Progress
<1>2. \A i \in DOMAIN Opens(s) : ~ IsOpen(s, i)'
    BY <1>1, ServersOpenComponents DEF IsOpen, Down
<1>3. StartIsTrue(s)'
    BY <1>1, <1>2, ServersOpenComponents DEF StartIsTrue, Down
<1> QED
    BY <1>3, OneStartMoves

LEMMA ReadHistoryKeeps ==
    ASSUME StartsInv, NEW s \in Servers, ReadHistory(s) PROVE StartsInv'
<1>1. PICK p : p = [starting[s] EXCEPT !.step = "apply", !.known = recorded[Current(s)]]
    OBVIOUS
<1>2. /\ starting[s].step = "open" /\ starting[s].at \in 1..Len(Opens(s))
      /\ starting[s] \in Progress
    BY DEF ReadHistory, StartsInv, StartIsTrue
<1>3. Current(s) \in Components
    BY <1>2, CurrentIsAComponent
<1>4. recorded[Current(s)] \in SUBSET (1..11)
    BY <1>3 DEF StartsInv, FileTypes
<1>5. /\ p \in Progress /\ p.step = "apply" /\ p.at = starting[s].at
      /\ p.known = recorded[Current(s)]
    BY <1>1, <1>2, <1>4 DEF Progress
<1>6. starting' = [starting EXCEPT ![s] = p] /\ FileGrows /\ UNCHANGED recorded
    BY <1>1, FileStays DEF ReadHistory
<1>7. \E k \in 0..Last(Current(s)) : p.known = 1..k
    BY <1>3, <1>5 DEF StartsInv, HistoryIsBuilt
<1>8. p.known \subseteq recorded'[Current(s)]
    BY <1>5, <1>6
<1> QED
    BY <1>2, <1>5, <1>6, <1>7, <1>8, StaysAtRepository

LEMMA LearnsVersion ==
    ASSUME StartsInv, NEW s \in Servers, starting[s].step = "apply", Pending(s) # {},
           starting' = [starting EXCEPT ![s].known = @ \cup {Version(s)}],
           FileGrows, Version(s) \in recorded'[Current(s)]
    PROVE  StartsInv'
<1>1. PICK p : p = [starting[s] EXCEPT !.known = starting[s].known \cup {Version(s)}]
    OBVIOUS
<1>2. starting[s] \in Progress /\ Version(s) \in 1..11
  <2>1. Version(s) \in 1..Last(Current(s)) /\ Current(s) \in Components
    BY KnownHistory
  <2> QED
    BY <2>1, MigrationsAreNumbered DEF StartsInv
<1>3. /\ p \in Progress /\ p.step = "apply" /\ p.at = starting[s].at
      /\ p.known = starting[s].known \cup {Version(s)}
    BY <1>1, <1>2 DEF Progress
<1>4. starting' = [starting EXCEPT ![s] = p]
    BY <1>1
<1> QED
    BY <1>3, <1>4, VersionIsKnown

LEMMA FindAppliedKeeps ==
    ASSUME StartsInv, NEW s \in Servers, FindApplied(s) PROVE StartsInv'
<1>1. FileGrows /\ UNCHANGED recorded
    BY FileStays DEF FindApplied
<1> QED
    BY <1>1, LearnsVersion DEF FindApplied

LEMMA ApplyAtomicKeeps ==
    ASSUME StartsInv, NEW s \in Servers, ApplyAtomic(s) PROVE StartsInv'
<1>1. /\ starting[s].step = "apply" /\ Pending(s) # {} /\ ~ Migration(s).script
      /\ built' = [built EXCEPT ![Current(s)] = @ \cup Objects(Current(s), Version(s))]
      /\ recorded' = [recorded EXCEPT ![Current(s)] = @ \cup {Version(s)}]
      /\ UNCHANGED <<documents, contexts>>
    BY DEF ApplyAtomic
<1>2. Current(s) \in Components /\ Version(s) \in 1..Last(Current(s))
    BY <1>1, KnownHistory
<1>3. Version(s) \in 1..11
    BY <1>2, MigrationsAreNumbered
<1>4. Objects(Current(s), Version(s)) \subseteq (1..11) \X Statements
    BY <1>3 DEF Objects, Statements
<1>5. built \in [Components -> SUBSET ((1..11) \X Statements)] /\ contexts \subseteq documents
      /\ recorded \in [Components -> SUBSET (1..11)]
    BY DEF StartsInv, FileTypes
<1>6. /\ built' \in [Components -> SUBSET ((1..11) \X Statements)]
      /\ \A c \in Components : built[c] \subseteq built'[c]
      /\ Objects(Current(s), Version(s)) \subseteq built'[Current(s)]
    BY <1>1, <1>2, <1>4, <1>5
<1>7. FileGrows
    BY <1>1, <1>5, <1>6, RowIsWritten
<1>8. Version(s) \in recorded'[Current(s)]
    BY <1>1, <1>2, <1>5
<1> QED
    BY <1>1, <1>7, <1>8, LearnsVersion DEF ApplyAtomic

LEMMA BeginScriptKeeps ==
    ASSUME StartsInv, NEW s \in Servers, BeginScript(s) PROVE StartsInv'
<1>1. /\ starting[s].step = "apply" /\ Pending(s) # {} /\ Migration(s).script
      /\ starting[s] \in Progress /\ FileGrows /\ UNCHANGED recorded
    BY FileStays DEF BeginScript, StartsInv
<1>2. PICK p : p = Goes(starting[s], "script", 1)
    OBVIOUS
<1>3. /\ p \in Progress /\ p.step = "script" /\ p.at = starting[s].at
      /\ p.known = starting[s].known /\ p.statement = 1
    BY <1>1, <1>2, GoesOnInScript
<1>4. starting' = [starting EXCEPT ![s] = p]
    BY <1>2 DEF BeginScript, Goes
<1>5. starting'[s] = p
    BY <1>4 DEF StartsInv
<1>6. Pending(s)' = Pending(s) /\ Migration(s)' = Migration(s)
    BY <1>3, <1>5 DEF Pending, Migration, Version, Current
<1>7. /\ \E k \in 0..Last(Current(s)) : p.known = 1..k
      /\ p.known \subseteq recorded'[Current(s)]
    BY <1>1, <1>3 DEF StartsInv, StartIsTrue
<1>8. \A i \in 1..2 : ~ (i < p.statement)
    BY <1>3
<1>9. p.step # "apply" =>
        /\ Pending(s)' # {} /\ Migration(s)'.script
        /\ p.statement \in (IF p.step = "script" THEN {1, 2} ELSE {3})
        /\ \A i \in 1..2 : i < p.statement => <<Version(s)', i>> \in built'[Current(s)]
    BY <1>1, <1>3, <1>6, <1>8
<1> QED
    BY <1>1, <1>3, <1>4, <1>7, <1>9, StaysAtRepository

LEMMA RunStatementKeeps ==
    ASSUME StartsInv, NEW s \in Servers, RunStatement(s) PROVE StartsInv'
<1>1. /\ starting[s].step = "script" /\ Pending(s) # {} /\ Migration(s).script
      /\ starting[s] \in Progress /\ starting[s].statement \in {1, 2}
      /\ UNCHANGED <<recorded, documents, contexts>>
    BY DEF RunStatement, StartsInv, StartIsTrue
<1> DEFINE statement == <<Version(s), starting[s].statement>>
<1>2. CASE statement \in built[Current(s)] /\ ~ Migration(s).guarded
  <2>1. starting' = [starting EXCEPT ![s] = Down] /\ UNCHANGED built
    BY <1>2 DEF RunStatement
  <2> QED
    BY <1>1, <2>1, FileStays, DownKeeps
<1>3. CASE ~ (statement \in built[Current(s)] /\ ~ Migration(s).guarded)
  <2>1. Current(s) \in Components /\ Version(s) \in 1..Last(Current(s))
    BY <1>1, KnownHistory
  <2>2. statement \in (1..11) \X Statements
    BY <1>1, <2>1, MigrationsAreNumbered DEF Statements
  <2>3. PICK step, p :
          /\ step \in {"script", "record"}
          /\ step = IF starting[s].statement = 2 THEN "record" ELSE "script"
          /\ p = Goes(starting[s], step, starting[s].statement + 1)
    OBVIOUS
  <2>4. /\ built' = [built EXCEPT ![Current(s)] = @ \cup {statement}]
        /\ starting' = [starting EXCEPT ![s] = p]
    BY <1>3, <2>3 DEF RunStatement, Goes
  <2> HIDE DEF statement
  <2>5. /\ built' \in [Components -> SUBSET ((1..11) \X Statements)]
        /\ \A c \in Components : built[c] \subseteq built'[c]
        /\ statement \in built'[Current(s)]
    BY <2>1, <2>2, <2>4 DEF StartsInv, FileTypes
  <2>6. FileGrows
    BY <1>1, <2>5 DEF StartsInv, FileTypes, HistoryIsBuilt, FileGrows
  <2>7. starting[s].statement + 1 \in 0..3
    BY <1>1
  <2>8. /\ p \in Progress /\ p.at = starting[s].at /\ p.known = starting[s].known
        /\ p.step = (IF starting[s].statement = 2 THEN "record" ELSE "script")
        /\ p.statement = starting[s].statement + 1
    BY <1>1, <2>3, <2>7, GoesOnInScript
  <2>9. starting'[s] = p
    BY <2>4 DEF StartsInv
  <2>10. Pending(s)' = Pending(s) /\ Migration(s)' = Migration(s) /\ Version(s)' = Version(s)
    BY <2>8, <2>9 DEF Pending, Migration, Version, Current
  <2>11. /\ \E k \in 0..Last(Current(s)) : p.known = 1..k
         /\ p.known \subseteq recorded'[Current(s)]
    BY <1>1, <2>8 DEF StartsInv, StartIsTrue
  <2>12. p.statement \in (IF p.step = "script" THEN {1, 2} ELSE {3})
    BY <1>1, <2>8
  <2>13. ASSUME NEW i \in 1..2, i < p.statement
         PROVE  <<Version(s)', i>> \in built'[Current(s)]
    <3>1. i < starting[s].statement \/ i = starting[s].statement
      BY <1>1, <2>8, <2>13
    <3>2. CASE i < starting[s].statement
      BY <1>1, <2>1, <2>5, <2>10, <3>2 DEF StartsInv, StartIsTrue
    <3>3. CASE i = starting[s].statement
      BY <2>5, <2>10, <3>3 DEF statement
    <3> QED
      BY <3>1, <3>2, <3>3
  <2> QED
    BY <1>1, <2>4, <2>6, <2>8, <2>10, <2>11, <2>12, <2>13, StaysAtRepository
<1> QED
    BY <1>2, <1>3

LEMMA FillOneKeeps ==
    ASSUME StartsInv, NEW s \in Servers, NEW d \in Documents, FillOne(s, d) PROVE StartsInv'
<1>1. UNCHANGED <<recorded, built, documents, starting>> /\ contexts' = contexts \cup {d}
      /\ d \in documents
    BY DEF FillOne, Missing
<1>2. FileGrows
    BY <1>1, BackfillGrows DEF StartsInv, FileTypes
<1>3. \A x \in Servers : StartIsTrue(x)'
    BY <1>1, <1>2, StartStaysTrue
<1> QED
    BY <1>1, <1>2, <1>3 DEF StartsInv, FileGrows

\* The backfill adds contexts of documents only.
LEMMA FilledGrows ==
    ASSUME StartsInv, NEW s \in Servers
    PROVE  contexts \subseteq Filled(s) /\ Filled(s) \subseteq documents
    BY DEF StartsInv, FileTypes, Filled

LEMMA RecordScriptKeeps ==
    ASSUME StartsInv, NEW s \in Servers, RecordScript(s) PROVE StartsInv'
<1>1. /\ starting[s].step = "record" /\ Pending(s) # {} /\ Migration(s).script
      /\ starting[s] \in Progress /\ starting[s].statement = 3
      /\ recorded' = [recorded EXCEPT ![Current(s)] = @ \cup {Version(s)}]
      /\ UNCHANGED <<documents, built>>
    BY DEF RecordScript, StartsInv, StartIsTrue
<1>2. Current(s) \in Components /\ Version(s) \in 1..Last(Current(s))
    BY <1>1, KnownHistory
<1>3. Objects(Current(s), Version(s)) \subseteq built[Current(s)]
  <2>1. \A i \in 1..2 : <<Version(s), i>> \in built[Current(s)]
    <3>1. \A i \in 1..2 : i < starting[s].statement
      BY <1>1
    <3> QED
      BY <1>1, <3>1 DEF StartsInv, StartIsTrue
  <2>2. Objects(Current(s), Version(s)) = {Version(s)} \X Statements
    BY <1>1 DEF Objects, Migration
  <2> QED
    BY <2>1, <2>2 DEF Statements
<1>4. contexts \subseteq contexts' /\ contexts' \subseteq documents
    BY FilledGrows DEF RecordScript, StartsInv, FileTypes
<1>5. FileGrows
    BY <1>1, <1>3, <1>4, RowIsWritten DEF StartsInv, FileTypes
<1>6. Version(s) \in recorded'[Current(s)]
    BY <1>1, <1>2 DEF StartsInv, FileTypes
<1>7. PICK p : p = Learned(starting[s], starting[s].known \cup {Version(s)})
    OBVIOUS
<1>8. starting[s].known \cup {Version(s)} \in SUBSET (1..11)
    BY <1>1, <1>2, MigrationsAreNumbered DEF Progress
<1>9. /\ p \in Progress /\ p.step = "apply" /\ p.at = starting[s].at
      /\ p.known = starting[s].known \cup {Version(s)}
    BY <1>1, <1>7, <1>8, LearnedFields
<1>10. starting' = [starting EXCEPT ![s] = p]
    BY <1>7 DEF RecordScript, Learned, Goes
<1> QED
    BY <1>1, <1>5, <1>6, <1>9, <1>10, VersionIsKnown

LEMMA OpenedKeeps ==
    ASSUME StartsInv, NEW s \in Servers, Opened(s) PROVE StartsInv'
<1>1. /\ starting[s].step = "apply" /\ Pending(s) = {} /\ StartIsTrue(s)
      /\ starting[s].at \in 1..Len(Opens(s)) /\ Len(Opens(s)) \in 1..6
      /\ UNCHANGED <<recorded, built, documents>> /\ contexts' = Filled(s)
    BY ServersOpenComponents DEF Opened, StartsInv, StartIsTrue
<1>2. FileGrows
    BY <1>1, FilledGrows, BackfillGrows
<1>3. PICK p : p = IF starting[s].at = Len(Opens(s)) THEN [Down EXCEPT !.step = "serving"]
                   ELSE [Down EXCEPT !.step = "open", !.at = starting[s].at + 1]
    OBVIOUS
<1>4. starting' = [starting EXCEPT ![s] = p] /\ starting'[s] = p
    BY <1>3 DEF Opened, StartsInv
<1>5. /\ p \in Progress
      /\ p.step = "open" => starting[s].at < Len(Opens(s)) /\ p.at = starting[s].at + 1
      /\ p.step = "serving" => starting[s].at = Len(Opens(s))
      /\ p.step \in {"open", "serving"}
  <2>1. CASE starting[s].at = Len(Opens(s))
    <3>1. p = [step |-> "serving", at |-> 0, known |-> {}, statement |-> 0]
      BY <1>3, <2>1 DEF Down
    <3> QED
      BY <2>1, <3>1 DEF Progress
  <2>2. CASE starting[s].at # Len(Opens(s))
    <3>1. p = [step |-> "open", at |-> starting[s].at + 1, known |-> {}, statement |-> 0]
      BY <1>3, <2>2 DEF Down
    <3>2. starting[s].at + 1 \in 0..6 /\ starting[s].at < Len(Opens(s))
      <4>1. PICK n : n = Len(Opens(s))
        OBVIOUS
      <4>2. n \in 1..6 /\ starting[s].at \in 1..n /\ starting[s].at # n
        BY <1>1, <2>2, <4>1
      <4>3. starting[s].at + 1 \in 0..6 /\ starting[s].at < n
        BY <4>2
      <4> QED
        BY <4>1, <4>3
    <3> QED
      BY <3>1, <3>2 DEF Progress
  <2> QED
    BY <2>1, <2>2
<1>6. recorded'[Current(s)] = 1..Last(Current(s))
  <2>1. PICK k \in 0..Last(Current(s)), l \in 0..Last(Current(s)) :
          recorded[Current(s)] = 1..l /\ k <= l /\ ~ (k < Last(Current(s)))
    BY <1>1, KnownHistory
  <2>2. Last(Current(s)) \in 1..11
    BY <1>1, CurrentIsAComponent
  <2> QED
    BY <1>1, <2>1, <2>2
<1>7. ASSUME NEW i \in DOMAIN Opens(s), IsOpen(s, i)'
      PROVE  recorded'[Opens(s)[i]] = 1..Last(Opens(s)[i])
  <2>1. i < starting[s].at \/ i = starting[s].at
    BY <1>1, <1>4, <1>5, <1>7, ServersOpenComponents DEF IsOpen, Progress
  <2>2. CASE i < starting[s].at
    BY <1>1, <2>2 DEF StartIsTrue, IsOpen
  <2>3. CASE i = starting[s].at
    BY <1>6, <2>3 DEF Current
  <2> QED
    BY <2>1, <2>2, <2>3
<1>8. Missing' = {}
  <2>1. CASE starting[s].at = 1
    <3>1. Backfills(s)
      BY <1>1, <2>1, ServersOpenComponents DEF Backfills, Current
    <3> QED
      BY <1>1, <3>1 DEF Filled, Missing
  <2>2. CASE starting[s].at # 1
    <3>1. 1 < starting[s].at
      BY <1>1, <2>2
    <3>2. Missing = {}
      BY <1>1, <3>1 DEF StartIsTrue, IsOpen
    <3> QED
      BY <1>2, <3>2 DEF Missing, FileGrows
  <2> QED
    BY <2>1, <2>2
<1>9. StartIsTrue(s)'
  <2>1. p.step = "open" => p.at \in 1..Len(Opens(s))
    BY <1>1, <1>5
  <2> QED
    BY <1>4, <1>5, <1>7, <1>8, <2>1 DEF StartIsTrue
<1> QED
    BY <1>2, <1>4, <1>9, OneStartMoves

-----------------------------------------------------------------------------
LEMMA StartsInvariance == MigrationSpec => []StartsInv
<1>1. StartsInv /\ [MigrationNext]_migrationVars => StartsInv'
  <2> SUFFICES ASSUME StartsInv, [MigrationNext]_migrationVars PROVE StartsInv'
      OBVIOUS
  <2>1. ASSUME NEW s \in Servers, StartStep(s) PROVE StartsInv'
      BY <2>1, StartKeeps, ReadHistoryKeeps, FindAppliedKeeps, ApplyAtomicKeeps,
         BeginScriptKeeps, RunStatementKeeps, RecordScriptKeeps, FillOneKeeps, OpenedKeeps
         DEF StartStep
  <2>2. ASSUME NEW s \in Servers, Crash(s) PROVE StartsInv'
      BY <2>2, FileStays, DownKeeps DEF Crash
  <2>3. CASE UNCHANGED migrationVars
    <3>1. FileGrows /\ UNCHANGED starting
      BY <2>3, FileStays DEF migrationVars
    <3>2. \A s \in Servers : StartIsTrue(s)'
      BY <3>1, StartStaysTrue
    <3> QED
      BY <3>1, <3>2 DEF StartsInv, FileGrows
  <2> QED
      BY <2>1, <2>2, <2>3 DEF MigrationNext
<1> QED
    BY <1>1, InitStarts, PTL DEF MigrationSpec

\* What the history of a component says is there, gapless and with its last trigger,
\* whichever servers wrote it and wherever they died; a server that serves finds every
\* table of its repositories, and every old document has its context.
THEOREM HistoryTellsWhatIsThere == MigrationSpec => []ServersFindTheirTables
<1>1. StartsInv => ServersFindTheirTables
  <2> SUFFICES ASSUME StartsInv PROVE ServersFindTheirTables
      OBVIOUS
  <2>1. MigrationTypeOK
      BY DEF StartsInv, FileTypes, MigrationTypeOK
  <2>2. ASSUME NEW c \in Components
        PROVE  /\ recorded[c] = 1..Cardinality(recorded[c])
               /\ \A n \in recorded[c] : Objects(c, n) \subseteq built[c]
    <3>1. PICK k \in 0..Last(c) : recorded[c] = 1..k
      BY DEF StartsInv, HistoryIsBuilt
    <3>2. k \in Nat
      BY MigrationsAreNumbered
    <3>3. Cardinality(1..k) = k
      BY <3>2, FS_Interval
    <3> QED
      BY <3>1, <3>3 DEF StartsInv, HistoryIsBuilt
  <2>3. ASSUME NEW s \in Servers, starting[s].step = "serving"
        PROVE  /\ \A i \in DOMAIN Opens(s) :
                    recorded[Opens(s)[i]] = DOMAIN Migrations(Opens(s)[i])
               /\ Missing = {}
    <3>1. \A i \in DOMAIN Opens(s) : Opens(s)[i] \in Components
      BY ServersOpenComponents
    <3>2. 1 \in DOMAIN Opens(s) /\ StartIsTrue(s) /\ \A i : IsOpen(s, i)
      BY <2>3, ServersOpenComponents DEF StartsInv, IsOpen
    <3> QED
      BY <3>1, <3>2, MigrationsAreNumbered DEF StartIsTrue
  <2> QED
      BY <2>1, <2>2, <2>3 DEF ServersFindTheirTables
<1> QED
    BY <1>1, StartsInvariance, PTL

=============================================================================
