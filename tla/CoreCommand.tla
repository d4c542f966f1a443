------------------------------ MODULE CoreCommand ------------------------------
(****************************************************************************)
(* One command of the Office API, from the rendered form to its answer:      *)
(* the transaction coordinator CoreCommandExecutor, the command ledger, the  *)
(* deferred event sink, and the page whose hidden fields carry the command   *)
(* id and the expected state, so that it can be submitted again.             *)
(*                                                                          *)
(* The Office API is single-threaded on one connection; other processes      *)
(* (the local panel, the kitchen API, the AI intake) write through           *)
(* connections of their own and hold SQLite's write lock while they do.      *)
(* The many handlers are one handler that checks an expected stamp, writes,  *)
(* emits an event and may still raise an ApiError after it has written.      *)
(****************************************************************************)
EXTENDS Naturals, FiniteSets

CONSTANTS
    Pages,        \* rendered forms, each with a command id of its own
    Guarded,      \* those whose command names the state it expects
    Args,         \* what a user can put into a form
    Null,         \* SQL NULL
    MaxForeign,   \* bound of the writes of other processes
    MaxFaults     \* bound of crashes, lost answers and failed commits

ASSUME GuardedAssumption == Guarded \subseteq Pages
ASSUME BoundAssumption   == MaxForeign \in Nat /\ MaxFaults \in Nat

VARIABLES
    stamp,      \* committed: updated_at of the row the commands are about
    effects,    \* committed: how often each command has been carried out
    ledger,     \* committed: rows of office_api_commands, by command id
    work,       \* the database as the open transaction sees it
    lock,       \* holder of SQLite's write lock
    server,     \* the request in the handler
    buffer,     \* DeferredEventSink: events of the open transaction
    announced,  \* events the sink has sent downstream, per command
    inbox,      \* requests on their way to the Office API
    expect,     \* per page: the stamp it was rendered from, Null if not loaded
    told,       \* per page: the answers that reached the user
    foreign,    \* writes of other processes so far
    faults      \* crashes, lost answers and failed commits so far

dbVars      == <<stamp, effects, ledger>>
userVars    == <<expect, told>>
commandVars == <<stamp, effects, ledger, work, lock, server, buffer, announced,
                 inbox, expect, told, foreign, faults>>

Recorded == [args : Args, result : Nat]

\* NULL is neither a stamp nor a row.
ASSUME NothingAssumption == Null \notin Nat /\ Null \notin Recorded

AnswerRow   == [kind   : {"done", "conflict", "stale", "refused", "busy"},
             args   : Args \cup {Null},   \* what was done
             result : Nat]
Requests == [page : Pages, args : Args]
Server   == [pc     : {"idle", "begin", "lookup", "handle", "record", "commit",
                       "flush", "reply"},
             page   : Pages \cup {Null},
             args   : Args \cup {Null},
             answer : AnswerRow]

Error(kind)      == [kind |-> kind, args |-> Null, result |-> 0]
Done(args, stmp) == [kind |-> "done", args |-> args, result |-> stmp]

Waiting == [pc |-> "idle", page |-> Null, args |-> Null, answer |-> Error("busy")]

Committed == [stamp |-> stamp, effects |-> effects, ledger |-> ledger]

-----------------------------------------------------------------------------
CommandInit ==
    /\ stamp     = 0
    /\ effects   = [p \in Pages |-> 0]
    /\ ledger    = [p \in Pages |-> Null]
    /\ work      = Committed
    /\ lock      = "free"
    /\ server    = Waiting
    /\ buffer    = {}
    /\ announced = [p \in Pages |-> 0]
    /\ inbox     = {}
    /\ expect    = [p \in Pages |-> Null]
    /\ told      = [p \in Pages |-> {}]
    /\ foreign   = 0
    /\ faults    = 0

-----------------------------------------------------------------------------
(* The user and the panel. *)

\* A form is rendered from committed state with a fresh command id.
Load(p) ==
    /\ expect[p] = Null
    /\ expect' = [expect EXCEPT ![p] = stamp]
    /\ UNCHANGED <<dbVars, work, lock, server, buffer, announced, inbox, told,
                   foreign, faults>>

IsSettled(p) == \E a \in told[p] : a.kind # "busy"

\* The loaded form is posted: again after a double click, a timeout or a 503,
\* possibly with other arguments.
Submit(p, a) ==
    /\ expect[p] # Null
    /\ [page |-> p, args |-> a] \notin inbox
    /\ inbox' = inbox \cup {[page |-> p, args |-> a]}
    /\ UNCHANGED <<dbVars, work, lock, server, buffer, announced, userVars,
                   foreign, faults>>

-----------------------------------------------------------------------------
(* The Office API. *)

Answers(a) == server' = [server EXCEPT !.pc = "reply", !.answer = a]

\* Faulty variant: the write lock is kept.
RollsBackKeepingLock ==
    /\ work' = Committed
    /\ lock' = lock
    /\ buffer' = {}

\* _rollback: events discarded, nothing of the transaction kept.
RollsBack ==
    /\ work' = Committed
    /\ lock' = "free"
    /\ buffer' = {}

TakesFrom(p) ==
    /\ server.pc = "idle"
    /\ \E r \in inbox :
         /\ r.page = p
         /\ inbox' = inbox \ {r}
         /\ server' = [pc |-> "begin", page |-> p, args |-> r.args,
                       answer |-> Error("busy")]
    /\ UNCHANGED <<dbVars, work, lock, buffer, announced, userVars, foreign, faults>>

\* Faulty variant: a deferred BEGIN, which takes no lock.
BeginsDeferred ==
    /\ server.pc = "begin"
    /\ work' = Committed
    /\ server' = [server EXCEPT !.pc = "lookup"]
    /\ UNCHANGED <<dbVars, lock, buffer, announced, inbox, userVars, foreign, faults>>

\* BEGIN IMMEDIATE: the write lock, or CoreBusyError after the busy timeout.
Begins ==
    /\ server.pc = "begin"
    /\ \/ /\ lock = "free"
          /\ lock' = "api"
          /\ work' = Committed
          /\ server' = [server EXCEPT !.pc = "lookup"]
          /\ UNCHANGED buffer
       \/ /\ lock # "free"
          /\ Answers(Error("busy"))
          /\ buffer' = {}
          /\ UNCHANGED <<work, lock>>
    /\ UNCHANGED <<dbVars, announced, inbox, userVars, foreign, faults>>

\* Faulty variant: the fingerprint is not compared.
LooksUpIdOnly ==
    LET row == work.ledger[server.page]
    IN  /\ server.pc = "lookup"
        /\ server' = IF row = Null THEN [server EXCEPT !.pc = "handle"]
                     ELSE [server EXCEPT !.pc = "commit",
                             !.answer = Done(server.args, row.result)]
        /\ UNCHANGED <<dbVars, work, lock, buffer, announced, inbox, userVars,
                       foreign, faults>>

\* The ledger: a recorded command is answered from its row if the fingerprint
\* matches and refused otherwise; an unknown one is handled.
LooksUp ==
    LET row == work.ledger[server.page]
    IN  /\ server.pc = "lookup"
        /\ \/ /\ row = Null
              /\ server' = [server EXCEPT !.pc = "handle"]
              /\ UNCHANGED <<work, lock, buffer>>
           \/ /\ row # Null /\ row.args = server.args
              /\ server' = [server EXCEPT !.pc = "commit",
                             !.answer = Done(row.args, row.result)]
              /\ UNCHANGED <<work, lock, buffer>>
           \/ /\ row # Null /\ row.args # server.args
              /\ Answers(Error("conflict"))
              /\ RollsBack
        /\ UNCHANGED <<dbVars, announced, inbox, userVars, foreign, faults>>

\* Faulty variant: the write does not touch updated_at.
HandlesUntouched ==
    LET p == server.page
    IN  /\ server.pc = "handle"
        /\ p \in Guarded => expect[p] = work.stamp
        /\ work' = [work EXCEPT !.effects[p] = @ + 1]
        /\ buffer' = buffer \cup {p}
        /\ server' = [server EXCEPT !.pc = "record",
                         !.answer = Done(server.args, work.stamp)]
        /\ UNCHANGED <<lock, dbVars, announced, inbox, userVars, foreign, faults>>

\* The handler: 409 stale_state, or the write and its event; an ApiError
\* raised after the write rolls it back.
Handles ==
    LET p == server.page
    IN  /\ server.pc = "handle"
        /\ \/ /\ p \in Guarded => expect[p] = work.stamp
              /\ work' = [work EXCEPT !.stamp = @ + 1, !.effects[p] = @ + 1]
              /\ buffer' = buffer \cup {p}
              /\ server' = [server EXCEPT !.pc = "record",
                             !.answer = Done(server.args, work.stamp + 1)]
              /\ UNCHANGED lock
           \/ /\ p \in Guarded /\ expect[p] # work.stamp
              /\ Answers(Error("stale"))
              /\ RollsBack
        /\ UNCHANGED <<dbVars, announced, inbox, userVars, foreign, faults>>

Refuses ==
    /\ server.pc = "record"
    /\ Answers(Error("refused"))
    /\ RollsBack
    /\ UNCHANGED <<dbVars, announced, inbox, userVars, foreign, faults>>

\* The result is recorded in the same transaction.
Records ==
    /\ server.pc = "record"
    /\ work' = [work EXCEPT !.ledger[server.page] =
                  [args |-> server.args, result |-> server.answer.result]]
    /\ server' = [server EXCEPT !.pc = "commit"]
    /\ UNCHANGED <<dbVars, lock, buffer, announced, inbox, userVars, foreign, faults>>

\* COMMIT: write and row become visible together.
Commits ==
    /\ server.pc = "commit"
    /\ stamp' = work.stamp
    /\ effects' = work.effects
    /\ ledger' = work.ledger
    /\ lock' = "free"
    /\ server' = [server EXCEPT !.pc = "flush"]
    /\ UNCHANGED <<work, buffer, announced, inbox, userVars, foreign, faults>>

CommitFails ==
    /\ server.pc = "commit"
    /\ faults < MaxFaults
    /\ faults' = faults + 1
    /\ Answers(Error("busy"))
    /\ RollsBack
    /\ UNCHANGED <<dbVars, announced, inbox, userVars, foreign>>

\* The sink sends what it has buffered, after the COMMIT.
Flushes ==
    /\ server.pc = "flush"
    /\ announced' = [p \in Pages |-> IF p \in buffer THEN announced[p] + 1
                                                     ELSE announced[p]]
    /\ buffer' = {}
    /\ server' = [server EXCEPT !.pc = "reply"]
    /\ UNCHANGED <<dbVars, work, lock, inbox, userVars, foreign, faults>>

Replies ==
    /\ server.pc = "reply"
    /\ told' = [told EXCEPT ![server.page] = @ \cup {server.answer}]
    /\ server' = Waiting
    /\ UNCHANGED <<dbVars, work, lock, buffer, announced, inbox, expect, foreign,
                   faults>>

\* The panel has timed out or lost the connection: "unreachable".
AnswerIsLost ==
    /\ server.pc = "reply"
    /\ faults < MaxFaults
    /\ faults' = faults + 1
    /\ server' = Waiting
    /\ UNCHANGED <<dbVars, work, lock, buffer, announced, inbox, userVars, foreign>>

\* The process ends: SQLite forgets the open transaction, the process its
\* buffer, the network the requests that were waiting for it.
Crashes ==
    /\ server.pc # "idle"
    /\ faults < MaxFaults
    /\ faults' = faults + 1
    /\ server' = Waiting
    /\ work' = Committed
    /\ lock' = IF lock = "api" THEN "free" ELSE lock
    /\ buffer' = {}
    /\ inbox' = {}
    /\ UNCHANGED <<dbVars, announced, userVars, foreign>>

-----------------------------------------------------------------------------
(* Other processes on the same database. *)

OtherBegins ==
    /\ lock = "free"
    /\ foreign < MaxForeign
    /\ lock' = "other"
    /\ foreign' = foreign + 1
    /\ UNCHANGED <<dbVars, work, server, buffer, announced, inbox, userVars, faults>>

OtherCommits ==
    /\ lock = "other"
    /\ lock' = "free"
    /\ stamp' = stamp + 1
    /\ UNCHANGED <<effects, ledger, work, server, buffer, announced, inbox,
                   userVars, foreign, faults>>

-----------------------------------------------------------------------------
ServerStep == \/ \E p \in Pages : TakesFrom(p)
              \/ Begins \/ LooksUp \/ Handles \/ Records
              \/ Commits \/ Flushes \/ Replies

CommandNext ==
    \/ \E p \in Pages : Load(p) \/ \E a \in Args : Submit(p, a)
    \/ ServerStep
    \/ Refuses \/ CommitFails \/ AnswerIsLost \/ Crashes
    \/ OtherBegins \/ OtherCommits

CommandSpec == CommandInit /\ [][CommandNext]_commandVars

\* The user submits the form until the answer is not 503; the server works off
\* what it receives, in the order of its accept queue, so that no page waits for
\* ever; and the other processes end their transactions.
CommandFairness ==
    /\ WF_commandVars(ServerStep)
    /\ WF_commandVars(OtherCommits)
    /\ \A p \in Pages : SF_commandVars(TakesFrom(p))
    /\ \A p \in Pages :
         WF_commandVars(~ IsSettled(p) /\ \E a \in Args : Submit(p, a))

-----------------------------------------------------------------------------
(* Properties. *)

\* Type invariant.
CommandTypeOK ==
    /\ stamp \in Nat
    /\ effects \in [Pages -> Nat]
    /\ ledger \in [Pages -> Recorded \cup {Null}]
    /\ work \in [stamp : Nat, effects : [Pages -> Nat],
                 ledger : [Pages -> Recorded \cup {Null}]]
    /\ lock \in {"free", "api", "other"}
    /\ server \in Server
    /\ buffer \subseteq Pages
    /\ announced \in [Pages -> Nat]
    /\ inbox \subseteq Requests
    /\ expect \in [Pages -> Nat \cup {Null}]
    /\ told \in [Pages -> SUBSET AnswerRow]
    /\ foreign \in 0..MaxForeign
    /\ faults \in 0..MaxFaults

\* A command is carried out at most once, and it is carried out exactly if it
\* is recorded: write and ledger row are one unit, whatever is retried,
\* refused half-way or lost (core_transaction.py, pack 6.1).
RecordedOnceDone ==
    \A p \in Pages : effects[p] = IF ledger[p] = Null THEN 0 ELSE 1

\* No event announces a change that never happened, and none is sent twice.
EventsFollowCommit == \A p \in Pages : announced[p] <= effects[p]

\* A page that was told its command is done was told the truth, always the same
\* result, and never about other arguments than those that were carried out,
\* however often and however filled in it was submitted.
AnswersAreTrue ==
    \A p \in Pages : \A a \in told[p] :
        /\ a.kind = "done" => /\ ledger[p] # Null
                              /\ ledger[p] = [args |-> a.args, result |-> a.result]
        /\ a.kind = "conflict" => ledger[p] # Null

\* The ledger is what happened: one row for one effect, one announcement at most,
\* and the row is what every answer repeats.
LedgerIsTheTruth == RecordedOnceDone /\ EventsFollowCommit /\ AnswersAreTrue

\* A command with an expected state is only carried out on that state: what
\* other processes commit in between makes it stale.
NoLostUpdate ==
    [][\A p \in Guarded : effects'[p] # effects[p] => expect[p] = stamp]_commandVars

\* A form that is submitted again while it gets no answer or 503 is answered.
SubmittedIsAnswered ==
    \A p \in Pages : expect[p] # Null ~> IsSettled(p)

\* The implementation of the promise: the ledger holds what is done.
Once == INSTANCE CommandOnce WITH done <- ledger
OnceSpec == Once!OnceSpec

=============================================================================
