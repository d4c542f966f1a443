----------------------------- MODULE KitchenPrint -----------------------------
(****************************************************************************)
(* The tracked kitchen print: print attempts (kitchen_print_jobs), the       *)
(* office command that requests them, the kitchen API that lets the print    *)
(* agent claim, reject and acknowledge them, and the agent itself.           *)
(*                                                                          *)
(* An office command is one transaction under BEGIN IMMEDIATE.  The kitchen *)
(* API has its own connections and no transaction around a request: every   *)
(* database call is a step of its own, and office commands run in between.  *)
(* Consecutive reads of one request are one step where nothing an office    *)
(* command writes can make them disagree with a later check.                *)
(*                                                                          *)
(* The kitchen API is single-threaded (one request at a time); the agent    *)
(* keeps no state over a restart and never repeats a command id, so the     *)
(* command ledger of the kitchen API never answers from a recorded row.     *)
(****************************************************************************)
EXTENDS OrderCore

CONSTANTS
    Jobs,            \* print job ids (uuid4, never drawn twice)
    AcceptTimeout,   \* KitchenPrintPolicy.acceptance_timeout
    AckTimeout,      \* KitchenPrintPolicy.acknowledgment_timeout
    MaxClock         \* bound of the clock

ASSUME NoJobAssumption == None \notin Jobs

ASSUME TimeoutAssumption ==
    /\ AcceptTimeout \in Nat \ {0}
    /\ AckTimeout \in Nat \ {0}
    /\ MaxClock \in Nat

VARIABLES
    jobs,       \* rows of kitchen_print_jobs, by id
    now,        \* the wall clock office and kitchen share
    kitchen,    \* the request the kitchen API is working on
    agent,      \* the print agent
    paper       \* sheets that came out of the printer, by print job

kitchenVars == <<orders, versions, pauses, jobs, now, kitchen, agent, paper>>

JobRow == [state        : {"unborn", "stored", "purged"},
           order        : Optional(Orders),
           version      : Optional(Versions),
           attempt      : Nat,
           supersedes   : Optional(Jobs),
           requested    : Nat,
           accepted     : BOOLEAN,
           acceptedAt   : Nat,
           rejected     : {"no", "printer", "order_cancelled"},
           acknowledged : BOOLEAN,
           superseded   : BOOLEAN]

\* answer is what the client will read: no job, a job, done, or an error
\* (a 4xx response or a dropped connection, which end the agent alike).
Request == [pc     : {"idle", "claim", "order", "reject", "ack", "write", "reply"},
            claims : BOOLEAN,            \* a claim, not a report of the agent
            job    : Optional(Jobs),
            order  : Optional(Orders),
            time   : Nat,                \* the clock as the claim read it
            row    : OrderRow,           \* the order as the ack read it
            heard  : BOOLEAN,            \* the client still waits
            answer : {"none", "empty", "job", "done", "error"}]

AgentState == [pc  : {"idle", "waiting", "printing", "printed", "failed"},
               job : Optional(Jobs)]

NoJob == [state |-> "unborn", order |-> None, version |-> None, attempt |-> 0,
          supersedes |-> None, requested |-> 0, accepted |-> FALSE,
          acceptedAt |-> 0, rejected |-> "no", acknowledged |-> FALSE,
          superseded |-> FALSE]

NoRequest == [pc |-> "idle", claims |-> FALSE, job |-> None, order |-> None,
              time |-> 0, row |-> NoOrder, heard |-> FALSE, answer |-> "none"]

IdleAgent == [pc |-> "idle", job |-> None]

-----------------------------------------------------------------------------
(* Reads of the job repository. *)

StoredJob(j) == jobs[j].state = "stored"
Settled(j)   == \/ jobs[j].acknowledged
                \/ jobs[j].rejected # "no"
                \/ jobs[j].superseded
Live(j)      == StoredJob(j) /\ ~ Settled(j)

AttemptsOf(v) == {j \in Jobs : StoredJob(j) /\ jobs[j].version = v}

\* list_print_jobs_for_version(...)[-1]
IsLatestAttempt(j) ==
    /\ StoredJob(j)
    /\ \A i \in AttemptsOf(jobs[j].version) : jobs[i].attempt <= jobs[j].attempt

AcceptanceOverdue(j) ==
    Live(j) /\ ~ jobs[j].accepted /\ now >= jobs[j].requested + AcceptTimeout

AckOverdue(j) ==
    Live(j) /\ jobs[j].accepted /\ now >= jobs[j].acceptedAt + AckTimeout

-----------------------------------------------------------------------------
KitchenInit ==
    /\ Init
    /\ jobs    = [j \in Jobs |-> NoJob]
    /\ now     = 0
    /\ kitchen = NoRequest
    /\ agent   = IdleAgent
    /\ paper   = [j \in Jobs |-> 0]

Tick ==
    /\ now < MaxClock
    /\ now' = now + 1
    /\ UNCHANGED <<orders, versions, pauses, jobs, kitchen, agent, paper>>

-----------------------------------------------------------------------------
(* The office: one transaction each. *)

\* The changes, prints and cancellations of orders leave the attempts alone.
HandlesOrder ==
    /\ HandlerNext
    /\ UNCHANGED <<jobs, now, kitchen, agent, paper>>

\* The purge takes the attempts of the order along, triggers suspended.
PurgesOrder(o) ==
    /\ PurgeOrder(o)
    /\ jobs' = [j \in Jobs |->
                  IF StoredJob(j) /\ jobs[j].order = o
                  THEN [NoJob EXCEPT !.state = "purged"] ELSE jobs[j]]
    /\ UNCHANGED <<now, kitchen, agent, paper>>

NewJob(o, v, attempt, previous) ==
    [state |-> "stored", order |-> o, version |-> v, attempt |-> attempt,
     supersedes |-> previous, requested |-> now, accepted |-> FALSE,
     acceptedAt |-> 0, rejected |-> "no", acknowledged |-> FALSE,
     superseded |-> FALSE]

\* request_print: the first attempt of a version.
RequestPrint(o, v, j) ==
    /\ Active(o)
    /\ Owned(o, v)
    /\ AttemptsOf(v) = {}
    /\ jobs[j].state = "unborn"
    /\ jobs' = [jobs EXCEPT ![j] = NewJob(o, v, 1, None)]
    /\ UNCHANGED <<orders, versions, pauses, now, kitchen, agent, paper>>

\* Faulty variant: the previous attempt stays live.
ReprintBesideLive(p, j) ==
    /\ IsLatestAttempt(p)
    /\ Active(jobs[p].order)
    /\ jobs[j].state = "unborn"
    /\ jobs' = [jobs EXCEPT
                 ![j] = NewJob(jobs[p].order, jobs[p].version,
                               jobs[p].attempt + 1, p)]
    /\ UNCHANGED <<orders, versions, pauses, now, kitchen, agent, paper>>

\* reprint: the successor of the latest attempt, which is superseded if live.
Reprint(p, j) ==
    /\ IsLatestAttempt(p)
    /\ Active(jobs[p].order)
    /\ jobs[j].state = "unborn"
    /\ jobs' = [jobs EXCEPT
                 ![p].superseded = @ \/ Live(p),
                 ![j] = NewJob(jobs[p].order, jobs[p].version,
                               jobs[p].attempt + 1, p)]
    /\ UNCHANGED <<orders, versions, pauses, now, kitchen, agent, paper>>

\* _ensure_kitchen_print_job of the Office API: an attempt nobody claimed in
\* time is returned as it is.
ApiPrints(v, j) ==
    \/ \E o \in Orders : RequestPrint(o, v, j)
    \/ \E p \in AttemptsOf(v) :
         /\ ~ jobs[p].acknowledged
         /\ jobs[p].rejected # "no" \/ jobs[p].superseded \/ AckOverdue(p)
         /\ Reprint(p, j)

\* Faulty variant: as the Office API does.
PanelPrintsLikeApi(v, j) ==
    \/ \E o \in Orders : RequestPrint(o, v, j)
    \/ \E p \in AttemptsOf(v) :
         /\ ~ jobs[p].acknowledged
         /\ jobs[p].rejected # "no" \/ jobs[p].superseded \/ AckOverdue(p)
         /\ Reprint(p, j)

\* request_kitchen_print of the office panel on the same host.
PanelPrints(v, j) ==
    \/ \E o \in Orders : RequestPrint(o, v, j)
    \/ \E p \in AttemptsOf(v) :
         /\ ~ jobs[p].acknowledged
         /\ \/ jobs[p].rejected # "no" \/ jobs[p].superseded
            \/ AcceptanceOverdue(p) \/ AckOverdue(p)
         /\ Reprint(p, j)

-----------------------------------------------------------------------------
(* The agent. *)

\* run_once asks for the next job; the handler reads the clock on arrival,
\* before it waits for the write lock.
AgentPolls ==
    /\ agent.pc = "idle"
    /\ kitchen.pc = "idle"
    /\ kitchen' = [NoRequest EXCEPT !.pc = "claim", !.claims = TRUE,
                                    !.time = now, !.heard = TRUE]
    /\ agent' = [pc |-> "waiting", job |-> None]
    /\ UNCHANGED <<orders, versions, pauses, jobs, now, paper>>

\* Faulty variant: a printer error that left a sheet counts as printed, and
\* so does one that did not.
AgentTrustsPrinter ==
    /\ agent.pc = "printing"
    /\ \E sheets \in {0, 1} :
         /\ agent' = [agent EXCEPT !.pc = "printed"]
         /\ paper' = [paper EXCEPT ![agent.job] = @ + sheets]
    /\ UNCHANGED <<orders, versions, pauses, jobs, now, kitchen>>

\* print_document: CUPS reports the job completed, or a PrinterError is raised,
\* after which a sheet may have come out all the same.
AgentPrints ==
    /\ agent.pc = "printing"
    /\ \/ /\ agent' = [agent EXCEPT !.pc = "printed"]
          /\ paper' = [paper EXCEPT ![agent.job] = @ + 1]
       \/ /\ agent' = [agent EXCEPT !.pc = "failed"]
          /\ \E sheets \in {0, 1} :
               paper' = [paper EXCEPT ![agent.job] = @ + sheets]
    /\ UNCHANGED <<orders, versions, pauses, jobs, now, kitchen>>

\* The acknowledgement after a print, the rejection after a printer error.
AgentReports ==
    /\ agent.pc \in {"printed", "failed"}
    /\ kitchen.pc = "idle"
    /\ kitchen' = [NoRequest EXCEPT
                    !.pc = IF agent.pc = "printed" THEN "ack" ELSE "reject",
                    !.job = agent.job, !.heard = TRUE]
    /\ agent' = [agent EXCEPT !.pc = "waiting"]
    /\ UNCHANGED <<orders, versions, pauses, jobs, now, paper>>

\* The process ends (error response, timeout, power) and systemd restarts it;
\* a request already sent is still executed.
AgentCrashes ==
    /\ agent.pc # "idle"
    /\ agent' = IdleAgent
    /\ kitchen' = [kitchen EXCEPT !.heard = FALSE]
    /\ UNCHANGED <<orders, versions, pauses, jobs, now, paper>>

-----------------------------------------------------------------------------
(* The kitchen API. *)

Answer(a) == kitchen' = [kitchen EXCEPT !.pc = "reply", !.answer = a]

\* The select of claim_next_eligible.
EligibleAt(t) ==
    {j \in Jobs : Live(j) /\ ~ jobs[j].accepted
                          /\ jobs[j].requested + AcceptTimeout > t}

\* claim_next_eligible: the oldest open attempt is accepted in a transaction.
\* An attempt requested after the clock was read violates the CHECK on
\* accepted_at and the request fails.
ClaimOldest ==
    /\ kitchen.pc = "claim"
    /\ \/ EligibleAt(kitchen.time) = {} /\ Answer("empty") /\ UNCHANGED jobs
       \/ \E j \in EligibleAt(kitchen.time) :
            /\ \A i \in EligibleAt(kitchen.time) :
                 jobs[j].requested <= jobs[i].requested
            /\ IF jobs[j].requested > kitchen.time
               THEN Answer("error") /\ UNCHANGED jobs
               ELSE /\ jobs' = [jobs EXCEPT ![j] =
                                  [@ EXCEPT !.accepted = TRUE, !.acceptedAt = kitchen.time]]
                    /\ kitchen' = [kitchen EXCEPT !.pc = "order", !.job = j,
                                                  !.order = jobs[j].order]
    /\ UNCHANGED <<orders, versions, pauses, now, agent, paper>>

\* The order of the claimed job decides whether it is handed out.
ClaimReadsOrder ==
    /\ kitchen.pc = "order"
    /\ CASE ~ Exists(kitchen.order) -> Answer("error")
         [] Active(kitchen.order)   -> Answer("job")
         [] OTHER -> kitchen' = [kitchen EXCEPT !.pc = "reject"]
    /\ UNCHANGED <<orders, versions, pauses, jobs, now, agent, paper>>

\* reject_print_job: refused once the attempt is settled otherwise.  Its reads
\* and its update are one step: the triggers repeat the checks on the update.
RejectJob ==
    LET j == kitchen.job
        cause == IF kitchen.claims THEN "order_cancelled" ELSE "printer"
    IN  /\ kitchen.pc = "reject"
        /\ IF StoredJob(j) /\ (jobs[j].rejected = cause \/ ~ Settled(j))
           THEN /\ jobs' = [jobs EXCEPT ![j].rejected = cause]
                /\ Answer(IF kitchen.claims THEN "empty" ELSE "done")
           ELSE Answer("error") /\ UNCHANGED jobs
        /\ UNCHANGED <<orders, versions, pauses, now, agent, paper>>

\* acknowledge_print_job up to its write: the job, the order, the version and
\* the clock are read and the decision is taken.
AckReads ==
    LET j == kitchen.job
        o == jobs[j].order
    IN  /\ kitchen.pc = "ack"
        /\ CASE ~ StoredJob(j) \/ ~ Active(o) -> Answer("error")
             [] jobs[j].acknowledged -> Answer("done")
             [] OTHER ->
                  IF /\ jobs[j].accepted
                     /\ ~ Settled(j)
                     /\ now < jobs[j].acceptedAt + AckTimeout
                  THEN kitchen' = [kitchen EXCEPT !.pc = "write", !.order = o,
                                                  !.row = orders[o]]
                  ELSE Answer("error")
        /\ UNCHANGED <<orders, versions, pauses, jobs, now, agent, paper>>

\* Faulty variant: the activation overwrites whatever the order has become.
AckOverwritesOrder ==
    LET j == kitchen.job
        o == kitchen.order
        v == jobs[j].version
        activated == ActivatedByPrint(kitchen.row, v)
    IN  /\ kitchen.pc = "write"
        /\ IF ~ Live(j)
           THEN Answer("error") /\ UNCHANGED <<orders, versions, jobs>>
           ELSE /\ versions' = [versions EXCEPT ![v].confirmed = TRUE]
                /\ orders' = IF activated # kitchen.row
                             THEN [orders EXCEPT ![o] = activated]
                             ELSE orders
                /\ jobs' = [jobs EXCEPT ![j].acknowledged = TRUE]
                /\ Answer("done")
        /\ UNCHANGED <<pauses, now, agent, paper>>

\* Faulty variant: the facts of the stored job are not looked at again.
AckUnguarded ==
    LET j == kitchen.job
        o == kitchen.order
        v == jobs[j].version
        activated == ActivatedByPrint(kitchen.row, v)
    IN  /\ kitchen.pc = "write"
        /\ IF ~ StoredJob(j)
           THEN Answer("error") /\ UNCHANGED <<orders, versions, jobs>>
           ELSE /\ versions' = [versions EXCEPT ![v].confirmed = TRUE]
                /\ orders' = IF /\ activated # kitchen.row
                                /\ orders[o].candidate = kitchen.row.candidate
                                /\ orders[o].effective = kitchen.row.effective
                             THEN [orders EXCEPT ![o] = activated]
                             ELSE orders
                /\ jobs' = [jobs EXCEPT ![j].acknowledged = TRUE]
                /\ Answer("done")
        /\ UNCHANGED <<pauses, now, agent, paper>>

\* acknowledge_and_confirm: one transaction.  It fails if the attempt was
\* settled since; the order row is replaced by the one computed from the read,
\* cancelled_at included, if both pointers are still those that were read.
AckWrites ==
    LET j == kitchen.job
        o == kitchen.order
        v == jobs[j].version
        activated == ActivatedByPrint(kitchen.row, v)
    IN  /\ kitchen.pc = "write"
        /\ IF ~ Live(j)
           THEN Answer("error") /\ UNCHANGED <<orders, versions, jobs>>
           ELSE /\ versions' = [versions EXCEPT ![v].confirmed = TRUE]
                /\ orders' = IF /\ activated # kitchen.row
                                /\ orders[o].candidate = kitchen.row.candidate
                                /\ orders[o].effective = kitchen.row.effective
                             THEN [orders EXCEPT ![o] = activated]
                             ELSE orders
                /\ jobs' = [jobs EXCEPT ![j].acknowledged = TRUE]
                /\ Answer("done")
        /\ UNCHANGED <<pauses, now, agent, paper>>

\* The response reaches the agent, if it still waits for it.
Reply ==
    /\ kitchen.pc = "reply"
    /\ kitchen' = NoRequest
    /\ agent' = IF ~ kitchen.heard THEN agent
                ELSE IF kitchen.answer = "job"
                     THEN [pc |-> "printing", job |-> kitchen.job]
                     ELSE IdleAgent
    /\ UNCHANGED <<orders, versions, pauses, jobs, now, paper>>

\* The request ends where it is: database busy, document not renderable,
\* process restarted.  What it has committed stays; the agent gives up.
KitchenFails ==
    /\ kitchen.pc # "idle"
    /\ kitchen' = NoRequest
    /\ agent' = IF kitchen.heard THEN IdleAgent ELSE agent
    /\ UNCHANGED <<orders, versions, pauses, jobs, now, paper>>

-----------------------------------------------------------------------------
KitchenStep == \/ ClaimOldest \/ ClaimReadsOrder \/ RejectJob
               \/ AckReads \/ AckWrites \/ Reply

AgentStep == AgentPolls \/ AgentPrints \/ AgentReports

CommonNext ==
    \/ Tick
    \/ HandlesOrder
    \/ \E o \in Orders : PurgesOrder(o)
    \/ KitchenStep
    \/ AgentStep
    \/ AgentCrashes
    \/ KitchenFails

KitchenNext ==
    \/ CommonNext
    \/ \E v \in Versions, j \in Jobs : ApiPrints(v, j) \/ PanelPrints(v, j)

KitchenSpec == KitchenInit /\ [][KitchenNext]_kitchenVars

\* No Storno falls between the reads and the write of an acknowledgement.
StornoWaits ==
    \A o \in Orders : Active(o) /\ kitchen.pc = "write" /\ kitchen.order = o
                        => orders'[o].state # "cancelled"

CalmSpec == KitchenInit /\ [][KitchenNext /\ StornoWaits]_kitchenVars

\* On the panel beside the Core the office keeps asking for the print of a
\* version until it is confirmed.
PrintFairness == \A v \in Versions : WF_kitchenVars(\E j \in Jobs : PanelPrints(v, j))

-----------------------------------------------------------------------------
(* Properties. *)

\* Type invariant.
KitchenTypeOK ==
    /\ TypeOK
    /\ jobs \in [Jobs -> JobRow]
    /\ now \in Nat
    /\ kitchen \in Request
    /\ agent \in AgentState
    /\ paper \in [Jobs -> Nat]

\* The attempts of a version are numbered 1..n, each supersedes the one before
\* it, and only the last can still be claimed or acknowledged: the unique
\* indexes and the chain trigger of kitchen_print_jobs never have to fire.
AttemptsAreChained ==
    \A v \in Versions :
      /\ {jobs[j].attempt : j \in AttemptsOf(v)} = 1..Cardinality(AttemptsOf(v))
      /\ \A j \in AttemptsOf(v) :
           /\ Live(j) => IsLatestAttempt(j)
           /\ jobs[j].attempt > 1 =>
                /\ jobs[j].supersedes \in AttemptsOf(v)
                /\ jobs[jobs[j].supersedes].attempt = jobs[j].attempt - 1

\* An attempt ends in one way only, however the agent's reports and the
\* office's reprints interleave: its CHECK constraints are never violated.
SettledOnce ==
    \A j \in Jobs :
      /\ jobs[j].acknowledged => /\ jobs[j].accepted
                                 /\ jobs[j].rejected = "no"
                                 /\ ~ jobs[j].superseded
      /\ jobs[j].superseded => jobs[j].rejected = "no"

\* No attempt is printed twice, whatever crashes and is started again: a claim
\* is handed out at most once.
PaperAtMostOnce == \A j \in Jobs : paper[j] <= 1

\* A version counts as confirmed only if a sheet of it lies in the kitchen:
\* some attempt of it was acknowledged, and that attempt was printed.
ConfirmationHasPaper ==
    \A v \in Versions : Stored(v) /\ versions[v].confirmed =>
        \E j \in AttemptsOf(v) : jobs[j].acknowledged /\ paper[j] > 0

\* An attempt refused because its order was cancelled is never printed.
StornoStopsClaim ==
    \A j \in Jobs : jobs[j].rejected = "order_cancelled" => paper[j] = 0

\* Paper and database agree although the printer, the agent and the kitchen API
\* fail independently: one sheet per attempt, none after a refusal, and no
\* confirmation without one.
PaperTrail == PaperAtMostOnce /\ StornoStopsClaim /\ ConfirmationHasPaper

FactsAreAdded(j) ==
    LET old == jobs[j]
        new == jobs'[j]
    IN  /\ new.state = old.state /\ new.order = old.order /\ new.version = old.version
        /\ new.attempt = old.attempt /\ new.supersedes = old.supersedes
        /\ new.requested = old.requested
        /\ old.accepted => new.accepted /\ new.acceptedAt = old.acceptedAt
        /\ old.rejected # "no" => new.rejected = old.rejected
        /\ old.acknowledged => new.acknowledged
        /\ old.superseded => new.superseded

\* The facts of an attempt are added, never rewritten or taken back, until its
\* order is purged.
JobFactsAreFinal ==
    [][\A j \in Jobs :
         StoredJob(j) => FactsAreAdded(j) \/ jobs'[j].state = "purged"]_kitchenVars

\* An attempt ends once and for good, whoever of agent, office and deadline comes
\* first, and whatever the others had read by then.
AttemptsEndOnce == [](KitchenTypeOK /\ SettledOnce) /\ JobFactsAreFinal

\* Storno is irreversible (docs/architecture.md): a cancelled order is never
\* active again.
StornoIsIrreversible ==
    [][\A o \in Orders : orders[o].state = "cancelled" =>
         orders'[o].state # "active"]_kitchenVars

\* An overdue attempt of an active order does not stay the open one while the
\* office keeps asking for the print, as long as there are job ids.
OverdueIsReplaced ==
    \A j \in Jobs :
      AcceptanceOverdue(j) \/ AckOverdue(j) ~>
        \/ ~ Live(j)
        \/ ~ Active(jobs[j].order)
        \/ \A i \in Jobs : jobs[i].state # "unborn"

=============================================================================
