------------------------ MODULE KitchenPrint_proofs ------------------------
(* What the tracked kitchen print promises, for any number of orders, versions   *)
(* and print jobs, any deadlines, and every interleaving of the office with the  *)
(* single database calls of the kitchen API; the acknowledgement that overtakes  *)
(* a Storno included.                                                            *)
EXTENDS KitchenPrint, OrderCore_proofs, FiniteSetTheorems

\* An attempt belongs to a version of its order.
JobsAreOwned ==
    \A j \in Jobs : StoredJob(j) =>
        jobs[j].order \in Orders /\ jobs[j].version \in VersionsOf(jobs[j].order)

\* The kitchen API has claimed j and not answered yet; it may still hand it out.
Claimed(j) == kitchen.job = j /\ \/ kitchen.pc = "order"
                                 \/ kitchen.pc = "reject" /\ kitchen.claims
                                 \/ kitchen.pc = "reply" /\ kitchen.answer = "job"
HandsOut(j) == kitchen.job = j /\ \/ kitchen.pc = "order"
                                  \/ kitchen.pc = "reply" /\ kitchen.answer = "job"
Printing(j) == agent.pc = "printing" /\ agent.job = j
Used(j)     == jobs[j].state = "purged" \/ jobs[j].accepted

\* Of the claim, the agent that prints and the sheet there is one at a time, and none
\* before the attempt is accepted.
OneSheet(j) ==
    /\ paper[j] > 0 \/ Claimed(j) \/ Printing(j) => Used(j)
    /\ Claimed(j) => paper[j] = 0 /\ ~ Printing(j)
    /\ Printing(j) => paper[j] = 0
    /\ paper[j] <= 1
    /\ jobs[j].state = "unborn" => ~ jobs[j].accepted
    /\ jobs[j].rejected = "order_cancelled" =>
         paper[j] = 0 /\ ~ HandsOut(j) /\ ~ Printing(j)

\* What the agent has in hand.
AgentHolds ==
    /\ agent.pc \in {"printing", "printed", "failed"} => agent.job \in Jobs
    /\ agent.pc = "printed" => paper[agent.job] > 0

\* What the request of the kitchen API has in hand.
KitchenHolds ==
    /\ kitchen.pc \in {"claim", "order"} => kitchen.claims
    /\ kitchen.pc \in {"order", "reject", "ack", "write"} => kitchen.job \in Jobs
    /\ kitchen.pc = "reply" /\ kitchen.answer = "job" => kitchen.job \in Jobs
    /\ kitchen.pc \in {"ack", "write"} => paper[kitchen.job] > 0
    /\ kitchen.pc = "write" =>
         /\ kitchen.order \in Orders
         /\ kitchen.row.state = "active"
         /\ StoredJob(kitchen.job) => /\ jobs[kitchen.job].order = kitchen.order
                                      /\ jobs[kitchen.job].accepted

KitchenInv ==
    /\ CoreInv
    /\ KitchenTypeOK
    /\ JobsAreOwned
    /\ \A j \in Jobs : OneSheet(j)
    /\ AgentHolds
    /\ KitchenHolds
    /\ SettledOnce
    /\ ConfirmationHasPaper

-----------------------------------------------------------------------------
(* Values. *)

LEMMA BlankRows ==
    /\ NoJob \in JobRow
    /\ NoJob.state = "unborn" /\ ~ NoJob.accepted /\ ~ NoJob.acknowledged
    /\ ~ NoJob.superseded /\ NoJob.rejected = "no"
    /\ [NoJob EXCEPT !.state = "purged"] \in JobRow
    /\ NoRequest \in Request /\ NoRequest.pc = "idle" /\ ~ NoRequest.heard
    /\ IdleAgent \in AgentState /\ IdleAgent.pc = "idle"
<1>1. /\ NoJob \in JobRow
      /\ NoJob.state = "unborn" /\ ~ NoJob.accepted /\ ~ NoJob.acknowledged
      /\ ~ NoJob.superseded /\ NoJob.rejected = "no"
    BY DEF NoJob, JobRow, Optional
<1>2. [NoJob EXCEPT !.state = "purged"] \in JobRow
    BY <1>1 DEF JobRow
<1>3. NoOrder \in OrderRow
    BY DEF NoOrder, OrderRow, Optional
<1>4. NoRequest \in Request /\ NoRequest.pc = "idle" /\ ~ NoRequest.heard
    BY <1>3 DEF NoRequest, Request, Optional
<1>5. IdleAgent \in AgentState /\ IdleAgent.pc = "idle"
    BY DEF IdleAgent, AgentState, Optional
<1> QED BY <1>1, <1>2, <1>4, <1>5

LEMMA InitKitchen == KitchenInit => KitchenInv
<1> SUFFICES ASSUME KitchenInit PROVE KitchenInv
    OBVIOUS
<1>1. /\ Init /\ jobs = [j \in Jobs |-> NoJob] /\ now = 0 /\ kitchen = NoRequest
      /\ agent = IdleAgent /\ paper = [j \in Jobs |-> 0]
    BY DEF KitchenInit
<1>2. CoreInv
    BY <1>1, InitInv
<1>3. KitchenTypeOK
    BY <1>1, <1>2, BlankRows DEF KitchenTypeOK, CoreInv
<1>4. \A j \in Jobs : /\ jobs[j].state = "unborn" /\ ~ jobs[j].acknowledged
                      /\ ~ jobs[j].superseded /\ jobs[j].rejected = "no" /\ paper[j] = 0
    BY <1>1, BlankRows
<1>5. JobsAreOwned /\ SettledOnce
    BY <1>4 DEF JobsAreOwned, StoredJob, SettledOnce
<1>6. \A j \in Jobs : OneSheet(j)
    BY <1>1, <1>4, BlankRows DEF OneSheet, Claimed, HandsOut, Printing
<1>7. AgentHolds /\ KitchenHolds
    BY <1>1, BlankRows DEF AgentHolds, KitchenHolds
<1>8. ConfirmationHasPaper
    BY <1>1 DEF ConfirmationHasPaper, Init, Stored, NoVersion
<1> QED BY <1>2, <1>3, <1>5, <1>6, <1>7, <1>8 DEF KitchenInv

-----------------------------------------------------------------------------
(* What the office does to the orders. *)

\* A handler leaves the stored versions as they are and adds unconfirmed ones.
LEMMA HandlersAddUnprinted ==
    ASSUME CoreInv, HandlerNext
    PROVE  \A v \in Versions :
              \/ versions'[v] = versions[v]
              \/ versions[v].state = "unborn" /\ ~ versions'[v].confirmed
<1>0. versions \in [Versions -> VersionRow]
    BY DEF CoreInv, TypeOK
<1>1. ASSUME NEW o \in Orders, NEW w \in Versions, NEW row, NEW c,
             AppendVersion(o, w, row, c), ~ row.confirmed
      PROVE  \A v \in Versions : \/ versions'[v] = versions[v]
                                 \/ versions[v].state = "unborn" /\ ~ versions'[v].confirmed
    BY <1>0, <1>1 DEF AppendVersion
<1>2. ASSUME NEW o \in Orders, NEW w \in Versions, NEW f \in Facts, ProposeChange(o, w, f)
      PROVE  \E row, c : AppendVersion(o, w, row, c) /\ ~ row.confirmed
    <2> DEFINE source == IF orders[o].effective # None THEN orders[o].effective
                                                       ELSE LatestVersion(o)
               row == [state |-> "stored", order |-> o, number |-> LatestNumber(o) + 1,
                       parent |-> source, confirmed |-> FALSE,
                       facts |-> f, timing |-> None,
                       window |-> versions[source].window,
                       address |-> versions[source].address,
                       changed |-> NamedChanges(o, source, f)]
    <2>1. AppendVersion(o, w, row, w)
        BY <1>2 DEF ProposeChange
    <2>2. ~ row.confirmed
        OBVIOUS
    <2> HIDE DEF row
    <2> QED BY <2>1, <2>2
<1>3. ASSUME NEW o \in Orders, NEW w \in Versions, NEW p \in Versions, NEW a \in Addresses,
             ProposeAddress(o, w, p, a)
      PROVE  \E row, c : AppendVersion(o, w, row, c) /\ ~ row.confirmed
    <2> DEFINE row == [state |-> "stored", order |-> o, number |-> LatestNumber(o) + 1,
                       parent |-> p, confirmed |-> FALSE,
                       facts |-> versions[p].facts, timing |-> None, window |-> None,
                       address |-> a, changed |-> {"address"}]
    <2>1. AppendVersion(o, w, row, w)
        BY <1>3 DEF ProposeAddress
    <2>2. ~ row.confirmed
        OBVIOUS
    <2> HIDE DEF row
    <2> QED BY <2>1, <2>2
<1>4. ASSUME NEW o \in Orders,
             \/ \E v \in Versions : MakeEffective(o, v)
             \/ CancelOrder(o) \/ PauseOrder(o) \/ ResumeOrder(o)
      PROVE  versions' = versions
    BY <1>4 DEF MakeEffective, CancelOrder, PauseOrder, ResumeOrder
<1>5. ASSUME NEW o \in Orders, NEW w \in Versions, NEW i \in Inquiries,
             NEW row \in InitialContents, CreateOrder(o, w, i, row)
      PROVE  \A v \in Versions : \/ versions'[v] = versions[v]
                                 \/ versions[v].state = "unborn" /\ ~ versions'[v].confirmed
    BY <1>0, <1>5 DEF CreateOrder
<1>6. CASE ChangeNext
    <2>1. PICK o \in Orders :
            \/ \E v \in Versions, f \in Facts : ProposeChange(o, v, f)
            \/ \E v, p \in Versions, a \in Addresses : ProposeAddress(o, v, p, a)
            \/ \E v \in Versions : MakeEffective(o, v)
            \/ CancelOrder(o)
            \/ PauseOrder(o)
            \/ ResumeOrder(o)
        BY <1>6 DEF ChangeNext
    <2>2. CASE \/ \E v \in Versions, f \in Facts : ProposeChange(o, v, f)
               \/ \E v, p \in Versions, a \in Addresses : ProposeAddress(o, v, p, a)
        <3>1. PICK w \in Versions : \E row, c : AppendVersion(o, w, row, c) /\ ~ row.confirmed
            BY <2>2, <1>2, <1>3
        <3> QED BY <3>1, <1>1
    <2> QED BY <2>1, <2>2, <1>4
<1> QED BY <1>5, <1>6 DEF HandlerNext

LEMMA HandlerStep == ASSUME KitchenInv, HandlesOrder PROVE KitchenInv'
<1>1. HandlerNext /\ UNCHANGED <<jobs, now, kitchen, agent, paper>>
    BY DEF HandlesOrder
<1>2. CoreInv'
    BY <1>1, NextKeepsInv DEF KitchenInv, Next, OfficeNext
<1>3. KitchenTypeOK'
    BY <1>1, <1>2 DEF KitchenInv, KitchenTypeOK, CoreInv
<1>4. \A v \in Versions : \/ versions'[v] = versions[v]
                          \/ versions[v].state = "unborn" /\ ~ versions'[v].confirmed
    BY <1>1, HandlersAddUnprinted DEF KitchenInv
<1>5. JobsAreOwned'
    BY <1>1, <1>4 DEF KitchenInv, JobsAreOwned, StoredJob, VersionsOf, Owned, Stored
<1>6. ConfirmationHasPaper'
    <2> SUFFICES ASSUME NEW v \in Versions, versions'[v].state = "stored",
                        versions'[v].confirmed
                 PROVE  \E j \in AttemptsOf(v) : jobs[j].acknowledged /\ paper[j] > 0
        BY <1>1 DEF ConfirmationHasPaper, Stored, AttemptsOf, StoredJob
    <2>1. versions'[v] = versions[v]
        BY <1>4
    <2> QED BY <2>1 DEF KitchenInv, ConfirmationHasPaper, Stored
<1>7. /\ \A j \in Jobs : OneSheet(j)'
      /\ AgentHolds' /\ KitchenHolds' /\ SettledOnce'
    BY <1>1 DEF KitchenInv, OneSheet, Claimed, HandsOut, Printing, Used, AgentHolds,
       KitchenHolds, StoredJob, SettledOnce
<1> QED BY <1>2, <1>3, <1>5, <1>6, <1>7 DEF KitchenInv

-----------------------------------------------------------------------------
(* Steps that leave the orders alone. *)

\* The attempt keeps what it is, and its facts are not taken back.
Stays(j) ==
    /\ jobs'[j].state = jobs[j].state
    /\ jobs'[j].order = jobs[j].order
    /\ jobs'[j].version = jobs[j].version
    /\ jobs[j].accepted => jobs'[j].accepted
    /\ jobs[j].acknowledged => jobs'[j].acknowledged

\* The attempt is new and belongs to a version of its order.
Begins(j) ==
    /\ jobs[j].state = "unborn"
    /\ jobs'[j].order \in Orders
    /\ jobs'[j].version \in VersionsOf(jobs'[j].order)

LEMMA QuietCore ==
    ASSUME KitchenInv, UNCHANGED <<orders, versions, pauses>>,
           \A j \in Jobs : Stays(j) \/ Begins(j),
           \A j \in Jobs : paper[j] > 0 => paper'[j] > 0
    PROVE  CoreInv' /\ JobsAreOwned' /\ ConfirmationHasPaper'
<1>1. CoreInv'
    BY NextKeepsInv DEF KitchenInv, coreVars
<1>2. \A p : VersionsOf(p)' = VersionsOf(p)
    BY DEF VersionsOf, Owned, Stored
<1>3. JobsAreOwned'
    BY <1>2 DEF KitchenInv, JobsAreOwned, Stays, Begins, StoredJob
<1>4. ConfirmationHasPaper'
    <2> SUFFICES ASSUME NEW v \in Versions, Stored(v), versions[v].confirmed
                 PROVE  \E j \in Jobs : /\ jobs'[j].state = "stored" /\ jobs'[j].version = v
                                        /\ jobs'[j].acknowledged /\ paper'[j] > 0
        BY DEF ConfirmationHasPaper, AttemptsOf, StoredJob, Stored
    <2>1. PICK j \in Jobs : /\ jobs[j].state = "stored" /\ jobs[j].version = v
                            /\ jobs[j].acknowledged /\ paper[j] > 0
        BY DEF KitchenInv, ConfirmationHasPaper, AttemptsOf, StoredJob
    <2> QED BY <2>1 DEF Stays, Begins
<1> QED BY <1>1, <1>3, <1>4

LEMMA NothingStays ==
    ASSUME UNCHANGED jobs
    PROVE  (\A j \in Jobs : Stays(j)) /\ (SettledOnce => SettledOnce')
    BY DEF Stays, SettledOnce

LEMMA TickStep == ASSUME KitchenInv, Tick PROVE KitchenInv'
<1>1. /\ now' = now + 1
      /\ UNCHANGED <<orders, versions, pauses, jobs, kitchen, agent, paper>>
    BY DEF Tick
<1>2. CoreInv' /\ JobsAreOwned' /\ ConfirmationHasPaper'
    BY <1>1, QuietCore, NothingStays
<1>3. KitchenTypeOK'
    BY <1>1, <1>2 DEF KitchenInv, KitchenTypeOK, CoreInv
<1>4. /\ \A j \in Jobs : OneSheet(j)'
      /\ AgentHolds' /\ KitchenHolds' /\ SettledOnce'
    BY <1>1 DEF KitchenInv, OneSheet, Claimed, HandsOut, Printing, Used, AgentHolds,
       KitchenHolds, StoredJob, SettledOnce
<1> QED BY <1>2, <1>3, <1>4 DEF KitchenInv

\* A request of the agent arrives at the idle kitchen API.
LEMMA RequestArrives ==
    ASSUME KitchenInv, UNCHANGED <<orders, versions, pauses, jobs, now, paper>>,
           kitchen.pc = "idle", kitchen' \in Request, agent' \in AgentState,
           agent'.pc = "waiting",
           kitchen'.pc \in {"claim", "ack", "reject"},
           kitchen'.claims <=> kitchen'.pc = "claim",
           kitchen'.pc # "claim" => kitchen'.job \in Jobs,
           kitchen'.pc = "ack" => paper[kitchen'.job] > 0
    PROVE  KitchenInv'
<1>1. CoreInv' /\ JobsAreOwned' /\ ConfirmationHasPaper' /\ SettledOnce'
    BY QuietCore, NothingStays DEF KitchenInv
<1>2. KitchenTypeOK'
    BY <1>1 DEF KitchenInv, KitchenTypeOK, CoreInv
<1>3. ASSUME NEW j \in Jobs PROVE OneSheet(j)'
    <2>1. ~ Claimed(j)' /\ ~ HandsOut(j)' /\ ~ Printing(j)'
        BY DEF Claimed, HandsOut, Printing
    <2>2. Used(j)' <=> Used(j)
        BY DEF Used
    <2> QED BY <2>1, <2>2 DEF KitchenInv, OneSheet
<1>4. AgentHolds' /\ KitchenHolds'
    BY DEF AgentHolds, KitchenHolds
<1> QED BY <1>1, <1>2, <1>3, <1>4 DEF KitchenInv

LEMMA AgentAsks == ASSUME KitchenInv, AgentPolls \/ AgentReports PROVE KitchenInv'
<1>1. /\ UNCHANGED <<orders, versions, pauses, jobs, now, paper>>
      /\ kitchen.pc = "idle"
    BY DEF AgentPolls, AgentReports
<1>2. KitchenTypeOK /\ AgentHolds
    BY DEF KitchenInv
<1>3. NoOrder \in OrderRow
    BY DEF NoOrder, OrderRow, Optional
<1>4. CASE AgentPolls
    <2>1. /\ kitchen' = [pc |-> "claim", claims |-> TRUE, job |-> None, order |-> None,
                         time |-> now, row |-> NoOrder, heard |-> TRUE, answer |-> "none"]
          /\ agent' = [pc |-> "waiting", job |-> None]
        BY <1>4 DEF AgentPolls, NoRequest
    <2>2. kitchen' \in Request /\ agent' \in AgentState
        BY <1>2, <1>3, <2>1 DEF Request, AgentState, Optional, KitchenTypeOK
    <2> QED BY <1>1, <2>1, <2>2, RequestArrives
<1>5. CASE AgentReports
    <2>1. agent.pc \in {"printed", "failed"} /\ agent.job \in Jobs
        BY <1>2, <1>5 DEF AgentReports, AgentHolds
    <2>2. /\ kitchen' = [pc |-> IF agent.pc = "printed" THEN "ack" ELSE "reject",
                         claims |-> FALSE, job |-> agent.job, order |-> None,
                         time |-> 0, row |-> NoOrder, heard |-> TRUE, answer |-> "none"]
          /\ agent' = [agent EXCEPT !.pc = "waiting"]
        BY <1>5 DEF AgentReports, NoRequest
    <2>3. kitchen' \in Request
        BY <1>3, <2>1, <2>2 DEF Request, Optional
    <2>4. agent' \in AgentState /\ agent'.pc = "waiting"
        BY <1>2, <2>2 DEF AgentState, KitchenTypeOK
    <2>5. kitchen'.pc = "ack" => paper[kitchen'.job] > 0
        BY <1>2, <2>1, <2>2 DEF AgentHolds
    <2> QED BY <1>1, <2>1, <2>2, <2>3, <2>4, <2>5, RequestArrives
<1> QED BY <1>4, <1>5

\* The one step that puts paper into the tray.
LEMMA PrintStep == ASSUME KitchenInv, AgentPrints PROVE KitchenInv'
<1> DEFINE j == agent.job
<1>1. /\ agent.pc = "printing"
      /\ UNCHANGED <<orders, versions, pauses, jobs, now, kitchen>>
    BY DEF AgentPrints
<1>2. KitchenTypeOK /\ AgentHolds /\ KitchenHolds /\ SettledOnce
    BY DEF KitchenInv
<1>3. j \in Jobs /\ Printing(j) /\ paper[j] = 0 /\ ~ Claimed(j) /\ Used(j)
      /\ jobs[j].rejected # "order_cancelled"
    <2>1. j \in Jobs /\ Printing(j)
        BY <1>1, <1>2 DEF AgentHolds, Printing
    <2> QED BY <2>1 DEF KitchenInv, OneSheet
<1>4. PICK sheets \in {0, 1} :
        /\ paper' = [paper EXCEPT ![j] = paper[j] + sheets]
        /\ \/ agent' = [agent EXCEPT !.pc = "printed"] /\ sheets = 1
           \/ agent' = [agent EXCEPT !.pc = "failed"]
    BY DEF AgentPrints
<1>5. /\ agent' \in AgentState /\ agent'.job = j /\ agent'.pc \in {"printed", "failed"}
      /\ agent'.pc = "printed" => sheets = 1
    BY <1>2, <1>4 DEF KitchenTypeOK, AgentState
<1> HIDE DEF j
<1>6. /\ paper' \in [Jobs -> Nat] /\ paper'[j] = sheets
      /\ \A i \in Jobs : i # j => paper'[i] = paper[i]
    BY <1>2, <1>3, <1>4 DEF KitchenTypeOK
<1>7. \A i \in Jobs : paper[i] > 0 => paper'[i] > 0
    BY <1>3, <1>6
<1>8. CoreInv' /\ JobsAreOwned' /\ ConfirmationHasPaper' /\ SettledOnce'
    BY <1>1, <1>2, <1>7, QuietCore, NothingStays
<1>9. KitchenTypeOK'
    BY <1>1, <1>2, <1>5, <1>6, <1>8 DEF KitchenTypeOK, CoreInv
<1>10. ASSUME NEW i \in Jobs PROVE OneSheet(i)'
    <2>1. ~ Printing(i)' /\ (Claimed(i)' <=> Claimed(i)) /\ (HandsOut(i)' <=> HandsOut(i))
          /\ (Used(i)' <=> Used(i)) /\ jobs' = jobs
        BY <1>1, <1>5 DEF Printing, Claimed, HandsOut, Used
    <2>2. CASE i = j
        <3>1. sheets <= 1
            OBVIOUS
        <3>2. OneSheet(j)
            BY <1>3 DEF KitchenInv
        <3> QED BY <1>3, <1>6, <2>1, <2>2, <3>1, <3>2 DEF OneSheet
    <2>3. CASE i # j
        BY <1>6, <2>1, <2>3 DEF KitchenInv, OneSheet
    <2> QED BY <2>2, <2>3
<1>11. AgentHolds' /\ KitchenHolds'
    <2>1. AgentHolds'
        BY <1>3, <1>5, <1>6 DEF AgentHolds
    <2>2. KitchenHolds'
        BY <1>1, <1>2, <1>7 DEF KitchenHolds, StoredJob
    <2> QED BY <2>1, <2>2
<1> QED BY <1>8, <1>9, <1>10, <1>11 DEF KitchenInv

\* Processes end: what they held is lost, never doubled.
LEMMA ProcessEnds ==
    ASSUME KitchenInv, UNCHANGED <<orders, versions, pauses, jobs, now, paper>>,
           agent' \in {agent, IdleAgent},
           \/ kitchen' = NoRequest
           \/ kitchen' = [kitchen EXCEPT !.heard = FALSE]
    PROVE  KitchenInv'
<1>1. CoreInv' /\ JobsAreOwned' /\ ConfirmationHasPaper' /\ SettledOnce'
    BY QuietCore, NothingStays DEF KitchenInv
<1>2. kitchen \in Request /\ agent \in AgentState
    BY DEF KitchenInv, KitchenTypeOK
<1>3. /\ kitchen' \in Request /\ agent' \in AgentState
      /\ \/ kitchen'.pc = "idle"
         \/ /\ kitchen'.pc = kitchen.pc /\ kitchen'.claims = kitchen.claims
            /\ kitchen'.job = kitchen.job /\ kitchen'.order = kitchen.order
            /\ kitchen'.row = kitchen.row /\ kitchen'.answer = kitchen.answer
      /\ agent'.pc = "idle" \/ agent' = agent
    BY <1>2, BlankRows DEF Request
<1>4. KitchenTypeOK'
    BY <1>1, <1>3 DEF KitchenInv, KitchenTypeOK, CoreInv
<1>5. ASSUME NEW j \in Jobs PROVE OneSheet(j)'
    <2>1. /\ Claimed(j)' => Claimed(j)
          /\ HandsOut(j)' => HandsOut(j)
          /\ Printing(j)' => Printing(j)
          /\ Used(j)' <=> Used(j)
        BY <1>3 DEF Claimed, HandsOut, Printing, Used
    <2> QED BY <2>1 DEF KitchenInv, OneSheet
<1>6. AgentHolds' /\ KitchenHolds'
    BY <1>3 DEF KitchenInv, AgentHolds, KitchenHolds, StoredJob
<1> QED BY <1>1, <1>4, <1>5, <1>6 DEF KitchenInv

LEMMA CrashSteps == ASSUME KitchenInv, AgentCrashes \/ KitchenFails PROVE KitchenInv'
    BY ProcessEnds DEF AgentCrashes, KitchenFails

LEMMA ReplyStep == ASSUME KitchenInv, Reply PROVE KitchenInv'
<1>1. /\ kitchen.pc = "reply" /\ kitchen' = NoRequest
      /\ UNCHANGED <<orders, versions, pauses, jobs, now, paper>>
    BY DEF Reply
<1>2. CASE agent' \in {agent, IdleAgent}
    BY <1>1, <1>2, ProcessEnds
<1>3. CASE agent' = [pc |-> "printing", job |-> kitchen.job] /\ kitchen.answer = "job"
    <2>1. CoreInv' /\ JobsAreOwned' /\ ConfirmationHasPaper' /\ SettledOnce'
        BY <1>1, QuietCore, NothingStays DEF KitchenInv
    <2>2. kitchen.job \in Jobs
        BY <1>1, <1>3 DEF KitchenInv, KitchenHolds
    <2>3. agent' \in AgentState /\ kitchen' \in Request /\ kitchen'.pc = "idle"
        BY <1>1, <1>3, <2>2, BlankRows DEF AgentState, Optional
    <2>4. KitchenTypeOK'
        BY <1>1, <2>1, <2>3 DEF KitchenInv, KitchenTypeOK, CoreInv
    <2>5. ASSUME NEW j \in Jobs PROVE OneSheet(j)'
        <3>1. ~ Claimed(j)' /\ ~ HandsOut(j)' /\ (Used(j)' <=> Used(j))
            BY <1>1, <2>3 DEF Claimed, HandsOut, Used
        <3>2. Printing(j)' => j = kitchen.job
            BY <1>3 DEF Printing
        <3>3. j = kitchen.job => Claimed(j) /\ HandsOut(j)
            BY <1>1, <1>3 DEF Claimed, HandsOut
        <3> QED BY <1>1, <3>1, <3>2, <3>3 DEF KitchenInv, OneSheet
    <2>6. AgentHolds' /\ KitchenHolds'
        BY <1>3, <2>2, <2>3 DEF AgentHolds, KitchenHolds
    <2> QED BY <2>1, <2>4, <2>5, <2>6 DEF KitchenInv
<1> QED BY <1>2, <1>3 DEF Reply

LEMMA Answering ==
    ASSUME kitchen \in Request, NEW a \in {"empty", "job", "done", "error"}, Answer(a)
    PROVE  /\ kitchen' \in Request /\ kitchen'.pc = "reply" /\ kitchen'.answer = a
           /\ kitchen'.job = kitchen.job
<1>1. kitchen' = [kitchen EXCEPT !.pc = "reply", !.answer = a]
    BY DEF Answer
<1>2. kitchen = [pc |-> kitchen.pc, claims |-> kitchen.claims, job |-> kitchen.job,
                 order |-> kitchen.order, time |-> kitchen.time, row |-> kitchen.row,
                 heard |-> kitchen.heard, answer |-> kitchen.answer]
    BY DEF Request
<1> DEFINE one == [kitchen EXCEPT !.pc = "reply"]
<1>3. one = [pc |-> "reply", claims |-> kitchen.claims, job |-> kitchen.job,
             order |-> kitchen.order, time |-> kitchen.time, row |-> kitchen.row,
             heard |-> kitchen.heard, answer |-> kitchen.answer]
    BY <1>2
<1>4. kitchen' = [one EXCEPT !.answer = a]
    BY <1>1
<1> HIDE DEF one
<1>5. kitchen' = [pc |-> "reply", claims |-> kitchen.claims, job |-> kitchen.job,
                  order |-> kitchen.order, time |-> kitchen.time, row |-> kitchen.row,
                  heard |-> kitchen.heard, answer |-> a]
    BY <1>3, <1>4
<1> HIDE <1>1, <1>4
<1> QED BY <1>5 DEF Request

\* A step of the kitchen API between its reads.
LEMMA KitchenMoves ==
    ASSUME KitchenInv, UNCHANGED <<orders, versions, pauses, now, agent, paper>>,
           jobs' \in [Jobs -> JobRow], kitchen' \in Request,
           \A j \in Jobs : Stays(j) \/ Begins(j),
           SettledOnce', \A j \in Jobs : OneSheet(j)', KitchenHolds'
    PROVE  KitchenInv'
<1>1. CoreInv' /\ JobsAreOwned' /\ ConfirmationHasPaper'
    BY QuietCore
<1>2. KitchenTypeOK'
    BY <1>1 DEF KitchenInv, KitchenTypeOK, CoreInv
<1>3. AgentHolds'
    BY DEF KitchenInv, AgentHolds
<1> QED BY <1>1, <1>2, <1>3 DEF KitchenInv

\* The kitchen API answers: what it had claimed is handed out or given up.
LEMMA AnswerStep ==
    ASSUME KitchenInv, UNCHANGED <<orders, versions, pauses, jobs, now, agent, paper>>,
           NEW a \in {"empty", "job", "done", "error"}, Answer(a),
           a = "job" => kitchen.pc = "order"
    PROVE  KitchenInv'
<1>1. kitchen' \in Request /\ kitchen'.pc = "reply" /\ kitchen'.answer = a
      /\ kitchen'.job = kitchen.job
    BY Answering DEF KitchenInv, KitchenTypeOK
<1>2. \A j \in Jobs : Stays(j)
    BY NothingStays
<1>3. SettledOnce'
    BY NothingStays DEF KitchenInv
<1>4. KitchenHolds'
    BY <1>1 DEF KitchenInv, KitchenHolds
<1>5. ASSUME NEW j \in Jobs PROVE OneSheet(j)'
    <2>1. /\ Claimed(j)' => Claimed(j)
          /\ HandsOut(j)' => HandsOut(j)
          /\ Printing(j)' <=> Printing(j)
          /\ Used(j)' <=> Used(j)
        BY <1>1 DEF Claimed, HandsOut, Printing, Used
    <2> QED BY <2>1 DEF KitchenInv, OneSheet
<1>6. jobs' \in [Jobs -> JobRow]
    BY DEF KitchenInv, KitchenTypeOK
<1> QED BY <1>1, <1>2, <1>3, <1>4, <1>5, <1>6, KitchenMoves

\* A claim sets the two fields of the acceptance and no other.
Accepted(job, time) == [job EXCEPT !.accepted = TRUE, !.acceptedAt = time]

LEMMA AcceptedRow ==
    ASSUME NEW job \in JobRow, NEW time \in Nat
    PROVE  /\ Accepted(job, time) \in JobRow
           /\ Accepted(job, time).accepted
           /\ Accepted(job, time).state = job.state
           /\ Accepted(job, time).order = job.order
           /\ Accepted(job, time).version = job.version
           /\ Accepted(job, time).attempt = job.attempt
           /\ Accepted(job, time).supersedes = job.supersedes
           /\ Accepted(job, time).requested = job.requested
           /\ Accepted(job, time).rejected = job.rejected
           /\ Accepted(job, time).acknowledged = job.acknowledged
           /\ Accepted(job, time).superseded = job.superseded
    BY DEF JobRow, Accepted

\* A claim takes an attempt nobody has accepted, so nobody can have printed it.
LEMMA ClaimStep == ASSUME KitchenInv, ClaimOldest PROVE KitchenInv'
<1>0. KitchenTypeOK /\ KitchenHolds /\ SettledOnce /\ kitchen.pc = "claim"
      /\ UNCHANGED <<orders, versions, pauses, now, agent, paper>>
    BY DEF KitchenInv, ClaimOldest
<1>1. CASE UNCHANGED jobs /\ (Answer("empty") \/ Answer("error"))
    BY <1>0, <1>1, AnswerStep
<1>2. ASSUME NEW j \in EligibleAt(kitchen.time),
             jobs' = [jobs EXCEPT ![j] = [@ EXCEPT !.accepted = TRUE,
                                            !.acceptedAt = kitchen.time]],
             kitchen' = [kitchen EXCEPT !.pc = "order", !.job = j, !.order = jobs[j].order]
      PROVE  KitchenInv'
    <2>1. j \in Jobs /\ StoredJob(j) /\ ~ Settled(j) /\ ~ jobs[j].accepted
        BY DEF EligibleAt, Live
    <2>2. jobs \in [Jobs -> JobRow] /\ kitchen \in Request /\ kitchen.time \in Nat
        BY <1>0 DEF KitchenTypeOK, Request
    <2>3. jobs[j].order \in Orders
        BY <2>1 DEF KitchenInv, JobsAreOwned
    <2>4. PICK row : row = Accepted(jobs[j], kitchen.time)
        OBVIOUS
    <2>5. jobs[j] \in JobRow /\ kitchen.time \in Nat
        BY <2>1, <2>2
    <2>6. jobs' = [jobs EXCEPT ![j] = row]
        BY <1>2, <2>4 DEF Accepted
    <2> HIDE <1>2
    <2>7. jobs' \in [Jobs -> JobRow] /\ jobs'[j] = row
        BY <2>1, <2>2, <2>4, <2>5, <2>6, AcceptedRow
    <2>8. /\ jobs'[j].accepted /\ jobs'[j].state = jobs[j].state
          /\ jobs'[j].order = jobs[j].order
          /\ jobs'[j].version = jobs[j].version /\ jobs'[j].rejected = jobs[j].rejected
          /\ jobs'[j].acknowledged = jobs[j].acknowledged
          /\ jobs'[j].superseded = jobs[j].superseded
        BY <2>4, <2>5, <2>7, AcceptedRow
    <2>9. \A i \in Jobs : i # j => jobs'[i] = jobs[i]
        BY <2>1, <2>2, <2>6
    <2> HIDE <2>4, <2>6
    <2>10. \A i \in Jobs : Stays(i)
        BY <2>8, <2>9 DEF Stays
    <2>11. SettledOnce'
        BY <1>0, <2>1, <2>8, <2>9 DEF SettledOnce, Settled
    <2>12. kitchen' = [pc |-> "order", claims |-> kitchen.claims, job |-> j,
                       order |-> jobs[j].order, time |-> kitchen.time, row |-> kitchen.row,
                       heard |-> kitchen.heard, answer |-> kitchen.answer]
        <3>1. kitchen = [pc |-> kitchen.pc, claims |-> kitchen.claims, job |-> kitchen.job,
                         order |-> kitchen.order, time |-> kitchen.time,
                         row |-> kitchen.row, heard |-> kitchen.heard,
                         answer |-> kitchen.answer]
            BY <2>2 DEF Request
        <3> DEFINE two == [kitchen EXCEPT !.pc = "order"]
                   three == [two EXCEPT !.job = j]
        <3>2. two = [pc |-> "order", claims |-> kitchen.claims, job |-> kitchen.job,
                     order |-> kitchen.order, time |-> kitchen.time, row |-> kitchen.row,
                     heard |-> kitchen.heard, answer |-> kitchen.answer]
            BY <3>1
        <3>3. kitchen' = [three EXCEPT !.order = jobs[j].order]
            BY <1>2
        <3> HIDE DEF two
        <3>4. three = [pc |-> "order", claims |-> kitchen.claims, job |-> j,
                       order |-> kitchen.order, time |-> kitchen.time, row |-> kitchen.row,
                       heard |-> kitchen.heard, answer |-> kitchen.answer]
            BY <3>2
        <3> HIDE DEF three
        <3> QED BY <3>3, <3>4
    <2>13. kitchen' \in Request
        BY <2>1, <2>2, <2>3, <2>12 DEF Request, Optional
    <2>14. KitchenHolds'
        BY <1>0, <2>1, <2>12 DEF KitchenHolds
    <2>15. ASSUME NEW i \in Jobs PROVE OneSheet(i)'
        <3>1. OneSheet(i) /\ (Printing(i)' <=> Printing(i)) /\ paper' = paper
            BY <1>0 DEF KitchenInv, Printing
        <3>2. Claimed(i)' => i = j
            BY <2>12 DEF Claimed
        <3>3. HandsOut(i)' => i = j
            BY <2>12 DEF HandsOut
        <3>4. Used(i) => Used(i)'
            BY <2>10 DEF Used, Stays
        <3>5. CASE i = j
            <4>1. ~ Used(j) /\ Used(j)'
                BY <2>1, <2>8 DEF Used, StoredJob
            <4>2. jobs'[j].rejected # "order_cancelled"
                BY <2>1, <2>8 DEF Settled
            <4>3. paper[j] \in Nat
                BY <1>0, <2>1 DEF KitchenTypeOK
            <4>4. jobs'[j].state # "unborn"
                BY <2>1, <2>8 DEF StoredJob
            <4> QED BY <3>1, <3>5, <4>1, <4>2, <4>3, <4>4 DEF OneSheet
        <3>6. CASE i # j
            BY <2>9, <3>1, <3>2, <3>3, <3>4, <3>6 DEF OneSheet
        <3> QED BY <3>5, <3>6
    <2> QED BY <1>0, <2>7, <2>10, <2>11, <2>13, <2>14, <2>15, KitchenMoves
<1> QED BY <1>1, <1>2 DEF ClaimOldest

LEMMA OneRowMoves ==
    ASSUME KitchenTypeOK, NEW j \in Jobs, NEW row \in JobRow,
           jobs' = [jobs EXCEPT ![j] = row]
    PROVE  /\ jobs' \in [Jobs -> JobRow] /\ jobs'[j] = row
           /\ \A i \in Jobs : i # j => jobs'[i] = jobs[i]
    BY DEF KitchenTypeOK

\* The claimed attempt of an active order is handed out, that of a cancelled one
\* is rejected, and an order that is gone ends the request.
LEMMA OrderReadStep == ASSUME KitchenInv, ClaimReadsOrder PROVE KitchenInv'
<1>0. KitchenTypeOK /\ KitchenHolds /\ kitchen.pc = "order"
      /\ UNCHANGED <<orders, versions, pauses, jobs, now, agent, paper>>
    BY DEF KitchenInv, ClaimReadsOrder
<1>1. CASE Answer("error") \/ Answer("job")
    BY <1>0, <1>1, AnswerStep
<1>2. CASE kitchen' = [kitchen EXCEPT !.pc = "reject"]
    <2>1. /\ kitchen' \in Request /\ kitchen'.pc = "reject"
          /\ kitchen'.job = kitchen.job /\ kitchen'.claims = kitchen.claims
        BY <1>0, <1>2 DEF KitchenTypeOK, Request
    <2>2. KitchenHolds'
        BY <1>0, <2>1 DEF KitchenHolds
    <2>3. ASSUME NEW j \in Jobs PROVE OneSheet(j)'
        <3>1. /\ Claimed(j)' => Claimed(j)
              /\ ~ HandsOut(j)'
              /\ Printing(j)' <=> Printing(j)
              /\ Used(j)' <=> Used(j)
            BY <1>0, <2>1 DEF Claimed, HandsOut, Printing, Used
        <3> QED BY <1>0, <3>1 DEF KitchenInv, OneSheet
    <2>4. (\A j \in Jobs : Stays(j)) /\ SettledOnce' /\ jobs' \in [Jobs -> JobRow]
        BY <1>0, NothingStays DEF KitchenInv, KitchenTypeOK
    <2> QED BY <1>0, <2>1, <2>2, <2>3, <2>4, KitchenMoves
<1> QED BY <1>1, <1>2 DEF ClaimReadsOrder

LEMMA RejectStep == ASSUME KitchenInv, RejectJob PROVE KitchenInv'
<1> DEFINE j == kitchen.job
           cause == IF kitchen.claims THEN "order_cancelled" ELSE "printer"
           row == [jobs[j] EXCEPT !.rejected = cause]
<1>0. KitchenTypeOK /\ KitchenHolds /\ SettledOnce /\ kitchen.pc = "reject" /\ j \in Jobs
      /\ UNCHANGED <<orders, versions, pauses, now, agent, paper>>
    BY DEF KitchenInv, KitchenHolds, RejectJob
<1>1. CASE Answer("error") /\ UNCHANGED jobs
    BY <1>0, <1>1, AnswerStep
<1>2. ASSUME NEW a \in {"empty", "done"}, Answer(a),
             StoredJob(j), jobs[j].rejected = cause \/ ~ Settled(j),
             jobs' = [jobs EXCEPT ![j] = row]
      PROVE  KitchenInv'
    <2>1. /\ row \in JobRow /\ row.rejected = cause /\ row.state = jobs[j].state
          /\ row.order = jobs[j].order /\ row.version = jobs[j].version
          /\ row.accepted = jobs[j].accepted /\ row.acknowledged = jobs[j].acknowledged
          /\ row.superseded = jobs[j].superseded
        BY <1>0 DEF KitchenTypeOK, JobRow
    <2> HIDE DEF row
    <2>2. /\ jobs' \in [Jobs -> JobRow] /\ jobs'[j] = row
          /\ \A i \in Jobs : i # j => jobs'[i] = jobs[i]
        BY <1>0, <1>2, <2>1, OneRowMoves
    <2>3. kitchen' \in Request /\ kitchen'.pc = "reply" /\ kitchen'.answer = a
          /\ kitchen'.job = kitchen.job
        BY <1>0, <1>2, Answering DEF KitchenTypeOK
    <2>4. \A i \in Jobs : Stays(i)
        BY <1>0, <2>1, <2>2 DEF Stays
    <2>5. SettledOnce'
        BY <1>0, <1>2, <2>1, <2>2 DEF SettledOnce, Settled
    <2>6. KitchenHolds'
        BY <2>3 DEF KitchenHolds
    <2>7. ASSUME NEW i \in Jobs PROVE OneSheet(i)'
        <3>1. /\ ~ Claimed(i)' /\ ~ HandsOut(i)'
              /\ Printing(i)' <=> Printing(i)
              /\ Used(i)' <=> Used(i)
              /\ paper' = paper
            BY <1>0, <2>1, <2>2, <2>3 DEF Claimed, HandsOut, Printing, Used
        <3>2. OneSheet(i)
            BY DEF KitchenInv
        <3>3. cause = "order_cancelled" => Claimed(j)
            BY <1>0 DEF Claimed
        <3> HIDE DEF cause
        <3>4. CASE i = j
            BY <1>0, <2>1, <2>2, <3>1, <3>2, <3>3, <3>4 DEF OneSheet
        <3>5. CASE i # j
            BY <2>2, <3>1, <3>2, <3>5 DEF OneSheet
        <3> QED BY <3>4, <3>5
    <2> QED BY <1>0, <2>2, <2>3, <2>4, <2>5, <2>6, <2>7, KitchenMoves
<1> QED BY <1>1, <1>2 DEF RejectJob

\* The acknowledgement remembers the active order of an attempt that was printed.
LEMMA AckReadStep == ASSUME KitchenInv, AckReads PROVE KitchenInv'
<1> DEFINE j == kitchen.job
           o == jobs[j].order
<1>0. KitchenTypeOK /\ KitchenHolds /\ kitchen.pc = "ack" /\ j \in Jobs
      /\ UNCHANGED <<orders, versions, pauses, jobs, now, agent, paper>>
    BY DEF KitchenInv, KitchenHolds, AckReads
<1>1. CASE Answer("error") \/ Answer("done")
    BY <1>0, <1>1, AnswerStep
<1>2. ASSUME StoredJob(j), Active(o), jobs[j].accepted,
             kitchen' = [kitchen EXCEPT !.pc = "write", !.order = o, !.row = orders[o]]
      PROVE  KitchenInv'
    <2>1. o \in Orders /\ orders[o] \in OrderRow /\ orders[o].state = "active"
        BY <1>0, <1>2 DEF KitchenInv, JobsAreOwned, KitchenTypeOK, TypeOK, Active
    <2>2. kitchen' = [pc |-> "write", claims |-> kitchen.claims, job |-> j,
                      order |-> o, time |-> kitchen.time, row |-> orders[o],
                      heard |-> kitchen.heard, answer |-> kitchen.answer]
        <3>1. kitchen = [pc |-> kitchen.pc, claims |-> kitchen.claims, job |-> kitchen.job,
                         order |-> kitchen.order, time |-> kitchen.time,
                         row |-> kitchen.row, heard |-> kitchen.heard,
                         answer |-> kitchen.answer]
            BY <1>0 DEF KitchenTypeOK, Request
        <3> DEFINE two == [kitchen EXCEPT !.pc = "write"]
                   three == [two EXCEPT !.order = o]
        <3>2. two = [pc |-> "write", claims |-> kitchen.claims, job |-> kitchen.job,
                     order |-> kitchen.order, time |-> kitchen.time, row |-> kitchen.row,
                     heard |-> kitchen.heard, answer |-> kitchen.answer]
            BY <3>1
        <3>3. kitchen' = [three EXCEPT !.row = orders[o]]
            BY <1>2
        <3> HIDE DEF two, o
        <3>4. three = [pc |-> "write", claims |-> kitchen.claims, job |-> kitchen.job,
                       order |-> o, time |-> kitchen.time, row |-> kitchen.row,
                       heard |-> kitchen.heard, answer |-> kitchen.answer]
            BY <3>2
        <3> HIDE DEF three
        <3> QED BY <3>3, <3>4
    <2> HIDE <1>2
    <2>3. kitchen' \in Request
        BY <1>0, <2>1, <2>2 DEF KitchenTypeOK, Request, Optional
    <2>4. KitchenHolds'
        BY <1>0, <1>2, <2>1, <2>2 DEF KitchenHolds, StoredJob
    <2>5. ASSUME NEW i \in Jobs PROVE OneSheet(i)'
        <3>1. /\ ~ Claimed(i)' /\ ~ HandsOut(i)'
              /\ Printing(i)' <=> Printing(i)
              /\ Used(i)' <=> Used(i)
            BY <1>0, <2>2 DEF Claimed, HandsOut, Printing, Used
        <3> QED BY <1>0, <3>1 DEF KitchenInv, OneSheet
    <2>6. (\A i \in Jobs : Stays(i)) /\ SettledOnce' /\ jobs' \in [Jobs -> JobRow]
        BY <1>0, NothingStays DEF KitchenInv, KitchenTypeOK
    <2> QED BY <1>0, <2>3, <2>4, <2>5, <2>6, KitchenMoves
<1> QED BY <1>1, <1>2 DEF AckReads

-----------------------------------------------------------------------------
(* The write of an acknowledgement. *)

\* It confirms a version of its order; the row computed from the read replaces the
\* order's only while both pointers are the ones that were read, which is why a
\* Storno can be taken back but the pointers stay with the newest stand.
LEMMA AckKeepsCore ==
    ASSUME KitchenInv, NEW j \in Jobs, NEW o \in Orders, NEW v \in VersionsOf(o),
           NEW row \in OrderRow, row.state = "active",
           NEW activated, activated = ActivatedByPrint(row, v),
           versions' = [versions EXCEPT ![v].confirmed = TRUE],
           orders' = IF /\ activated # row
                        /\ orders[o].candidate = row.candidate
                        /\ orders[o].effective = row.effective
                     THEN [orders EXCEPT ![o] = activated] ELSE orders,
           pauses' = pauses
    PROVE  CoreInv'
<1>1. CoreInv /\ TypeOK /\ NewestIsPointedAt /\ VersionsHaveOwners
    BY DEF KitchenInv, CoreInv
<1>2. v \in Versions /\ v # None /\ Exists(o)
    BY <1>1, NoneAssumption DEF VersionsOf, Owned, VersionsHaveOwners
<1>3. orders[o] \in OrderRow /\ orders[o].state \in {"active", "cancelled"}
    BY <1>1, <1>2 DEF TypeOK, Exists
<1>4. CASE /\ activated # row
           /\ orders[o].candidate = row.candidate
           /\ orders[o].effective = row.effective
    <2>1. activated \in OrderRow /\ activated.state \in {"active", "cancelled"}
        BY <1>2 DEF ActivatedByPrint, OrderRow, Optional
    <2>2. /\ activated.candidate = None /\ activated.effective = v
          /\ versions[v].number = LatestNumber(o)
        BY <1>1, <1>2, <1>4 DEF ActivatedByPrint, NewestIsPointedAt, OrderRow
    <2>3. orders' = [orders EXCEPT ![o] = activated]
        BY <1>4
    <2> QED BY <1>1, <1>2, <2>1, <2>2, <2>3, SelectionKeepsInv
<1>5. CASE ~ (/\ activated # row
              /\ orders[o].candidate = row.candidate
              /\ orders[o].effective = row.effective)
    <2>1. orders' = [orders EXCEPT ![o] = orders[o]]
        BY <1>1, <1>5 DEF TypeOK
    <2> QED BY <1>1, <1>2, <1>3, <2>1, SelectionKeepsInv
<1> QED BY <1>4, <1>5

LEMMA AckWriteStep == ASSUME KitchenInv, AckWrites PROVE KitchenInv'
<1> DEFINE j == kitchen.job
           o == kitchen.order
           v == jobs[j].version
           row == [jobs[j] EXCEPT !.acknowledged = TRUE]
<1>0. KitchenTypeOK /\ KitchenHolds /\ SettledOnce /\ kitchen.pc = "write" /\ j \in Jobs
      /\ UNCHANGED <<pauses, now, agent, paper>>
    BY DEF KitchenInv, KitchenHolds, AckWrites
<1>1. CASE Answer("error") /\ UNCHANGED <<orders, versions, jobs>>
    BY <1>0, <1>1, AnswerStep
<1>2. CASE ~ (Answer("error") /\ UNCHANGED <<orders, versions, jobs>>)
    <2>1. /\ Live(j)
          /\ versions' = [versions EXCEPT ![v].confirmed = TRUE]
          /\ orders' = IF /\ ActivatedByPrint(kitchen.row, v) # kitchen.row
                          /\ orders[o].candidate = kitchen.row.candidate
                          /\ orders[o].effective = kitchen.row.effective
                       THEN [orders EXCEPT ![o] = ActivatedByPrint(kitchen.row, v)]
                       ELSE orders
          /\ jobs' = [jobs EXCEPT ![j] = row]
          /\ Answer("done")
        BY <1>2 DEF AckWrites
    <2>2. /\ StoredJob(j) /\ ~ Settled(j) /\ jobs[j].accepted /\ jobs[j].order = o
          /\ paper[j] > 0 /\ o \in Orders /\ kitchen.row.state = "active"
        BY <1>0, <2>1 DEF KitchenHolds, Live
    <2>3. v \in VersionsOf(o) /\ v \in Versions
        BY <1>0, <2>2 DEF KitchenInv, JobsAreOwned, VersionsOf
    <2>4. kitchen.row \in OrderRow /\ kitchen \in Request
        BY <1>0 DEF KitchenTypeOK, Request
    <2>5. CoreInv'
        BY <1>0, <2>1, <2>2, <2>3, <2>4, AckKeepsCore
    <2>6. /\ row \in JobRow /\ row.acknowledged /\ row.state = jobs[j].state
          /\ row.order = jobs[j].order /\ row.version = v
          /\ row.accepted = jobs[j].accepted /\ row.rejected = jobs[j].rejected
          /\ row.superseded = jobs[j].superseded
        <3>1. jobs[j] \in JobRow
            BY <1>0 DEF KitchenTypeOK
        <3> QED BY <3>1 DEF JobRow
    <2> HIDE DEF row
    <2>7. /\ jobs' \in [Jobs -> JobRow] /\ jobs'[j] = row
          /\ \A i \in Jobs : i # j => jobs'[i] = jobs[i]
        BY <1>0, <2>1, <2>6, OneRowMoves
    <2>8. kitchen' \in Request /\ kitchen'.pc = "reply" /\ kitchen'.answer = "done"
        BY <2>1, <2>4, Answering
    <2>9. KitchenTypeOK'
        BY <1>0, <2>5, <2>7, <2>8 DEF KitchenTypeOK, CoreInv
    <2>10. /\ \A w \in Versions : /\ versions'[w].state = versions[w].state
                                  /\ w # v => versions'[w] = versions[w]
           /\ \A p : VersionsOf(p)' = VersionsOf(p)
        <3>1. TypeOK
            BY <1>0 DEF KitchenTypeOK
        <3>2. \A w \in Versions : w # v => versions'[w] = versions[w]
            BY <2>1, <3>1 DEF TypeOK
        <3> QED BY <2>1, <2>3, <3>1, <3>2, ConfirmKeepsHistories
    <2>11. JobsAreOwned'
        BY <2>6, <2>7, <2>10 DEF KitchenInv, JobsAreOwned, StoredJob
    <2>12. SettledOnce'
        BY <1>0, <2>2, <2>6, <2>7 DEF SettledOnce, Settled
    <2>13. AgentHolds' /\ KitchenHolds'
        BY <1>0, <2>8 DEF KitchenInv, AgentHolds, KitchenHolds
    <2>14. ConfirmationHasPaper'
        <3> SUFFICES ASSUME NEW w \in Versions, versions'[w].state = "stored",
                            versions'[w].confirmed
                     PROVE  \E i \in Jobs : /\ jobs'[i].state = "stored"
                                            /\ jobs'[i].version = w
                                            /\ jobs'[i].acknowledged /\ paper[i] > 0
            BY <1>0 DEF ConfirmationHasPaper, AttemptsOf, StoredJob, Stored
        <3>1. CASE w = v
            BY <1>0, <2>2, <2>6, <2>7, <3>1 DEF StoredJob
        <3>2. CASE w # v
            <4>1. PICK i \in Jobs : /\ jobs[i].state = "stored" /\ jobs[i].version = w
                                    /\ jobs[i].acknowledged /\ paper[i] > 0
                BY <2>10, <3>2 DEF KitchenInv, ConfirmationHasPaper, Stored, AttemptsOf,
                   StoredJob
            <4> QED BY <2>7, <3>2, <4>1
        <3> QED BY <3>1, <3>2
    <2>15. ASSUME NEW i \in Jobs PROVE OneSheet(i)'
        <3>1. /\ ~ Claimed(i)' /\ ~ HandsOut(i)'
              /\ Printing(i)' <=> Printing(i)
              /\ Used(i)' <=> Used(i)
              /\ jobs'[i].rejected = jobs[i].rejected
              /\ jobs'[i].state = jobs[i].state
              /\ jobs'[i].accepted = jobs[i].accepted
            BY <1>0, <2>6, <2>7, <2>8 DEF Claimed, HandsOut, Printing, Used
        <3> QED BY <1>0, <3>1 DEF KitchenInv, OneSheet
    <2> QED BY <2>5, <2>9, <2>11, <2>12, <2>13, <2>14, <2>15 DEF KitchenInv
<1> QED BY <1>1, <1>2

-----------------------------------------------------------------------------
(* The office: prints and the purge. *)

\* The purge takes the versions and the attempts of an order together.
LEMMA PurgeStep ==
    ASSUME KitchenInv, NEW o \in Orders, PurgesOrder(o)
    PROVE  KitchenInv'
<1> DEFINE gone == [NoJob EXCEPT !.state = "purged"]
<1>0. /\ KitchenTypeOK /\ KitchenHolds /\ SettledOnce
      /\ UNCHANGED <<now, kitchen, agent, paper>>
      /\ PurgeOrder(o)
      /\ jobs' = [j \in Jobs |-> IF StoredJob(j) /\ jobs[j].order = o THEN gone
                                                                      ELSE jobs[j]]
    BY DEF KitchenInv, PurgesOrder
<1>1. CoreInv'
    <2>1. Next
        BY <1>0 DEF Next, OfficeNext
    <2> QED BY <2>1, NextKeepsInv DEF KitchenInv
<1>2. /\ gone \in JobRow /\ gone.state = "purged" /\ gone.rejected = "no"
      /\ ~ gone.acknowledged /\ ~ gone.superseded
    BY BlankRows DEF NoJob
<1> HIDE DEF gone
<1>3. /\ jobs' \in [Jobs -> JobRow]
      /\ \A j \in Jobs : jobs'[j] = gone \/ jobs'[j] = jobs[j]
      /\ \A j \in Jobs : StoredJob(j)' => /\ jobs'[j] = jobs[j] /\ StoredJob(j)
                                          /\ jobs[j].order # o
      /\ \A j \in Jobs : StoredJob(j) /\ jobs[j].order # o => jobs'[j] = jobs[j]
    <2>1. \A j \in Jobs : jobs'[j] = IF StoredJob(j) /\ jobs[j].order = o THEN gone
                                                                          ELSE jobs[j]
        BY <1>0
    <2>2. jobs' \in [Jobs -> JobRow]
        BY <1>0, <1>2 DEF KitchenTypeOK
    <2> QED BY <1>2, <2>1, <2>2 DEF StoredJob
<1>4. KitchenTypeOK'
    BY <1>0, <1>1, <1>3 DEF KitchenTypeOK, CoreInv
<1>5. \A v \in Versions :
        versions'[v] = IF Owned(o, v) THEN [NoVersion EXCEPT !.state = "purged"]
                                      ELSE versions[v]
    BY <1>0 DEF PurgeOrder
<1>6. \A v \in Versions : Stored(v)' => /\ Stored(v) /\ ~ Owned(o, v)
                                        /\ versions'[v] = versions[v]
    BY <1>5 DEF Stored, NoVersion
<1>7. \A v \in Versions : Stored(v) /\ ~ Owned(o, v) => versions'[v] = versions[v]
    BY <1>5
<1>8. JobsAreOwned'
    <2> SUFFICES ASSUME NEW j \in Jobs, StoredJob(j)'
                 PROVE  /\ jobs'[j].order \in Orders
                        /\ jobs'[j].version \in Versions
                        /\ versions'[jobs'[j].version].state = "stored"
                        /\ versions'[jobs'[j].version].order = jobs'[j].order
        BY DEF JobsAreOwned, VersionsOf, Owned, Stored
    <2>1. /\ StoredJob(j) /\ jobs'[j] = jobs[j] /\ jobs[j].order # o
          /\ jobs[j].order \in Orders /\ jobs[j].version \in VersionsOf(jobs[j].order)
        BY <1>3 DEF KitchenInv, JobsAreOwned
    <2> QED BY <1>7, <2>1 DEF VersionsOf, Owned, Stored
<1>9. ConfirmationHasPaper'
    <2> SUFFICES ASSUME NEW w \in Versions, Stored(w)', versions'[w].confirmed
                 PROVE  \E i \in Jobs : /\ jobs'[i].state = "stored"
                                        /\ jobs'[i].version = w
                                        /\ jobs'[i].acknowledged /\ paper[i] > 0
        BY <1>0 DEF ConfirmationHasPaper, AttemptsOf, StoredJob
    <2>1. Stored(w) /\ ~ Owned(o, w) /\ versions[w].confirmed
        BY <1>6
    <2>2. PICK i \in Jobs : /\ StoredJob(i) /\ jobs[i].version = w
                            /\ jobs[i].acknowledged /\ paper[i] > 0
        BY <2>1 DEF KitchenInv, ConfirmationHasPaper, AttemptsOf
    <2>3. w \in VersionsOf(jobs[i].order)
        BY <2>2 DEF KitchenInv, JobsAreOwned
    <2>4. jobs[i].order # o
        BY <2>1, <2>3 DEF VersionsOf
    <2> QED BY <1>3, <2>2, <2>4 DEF StoredJob
<1>10. SettledOnce'
    BY <1>0, <1>2, <1>3 DEF SettledOnce
<1>11. AgentHolds' /\ KitchenHolds'
    <2>1. AgentHolds'
        BY <1>0 DEF KitchenInv, AgentHolds
    <2>2. KitchenHolds'
        BY <1>0, <1>3 DEF KitchenHolds
    <2> QED BY <2>1, <2>2
<1>12. ASSUME NEW i \in Jobs PROVE OneSheet(i)'
    <2>1. /\ Claimed(i)' <=> Claimed(i)
          /\ HandsOut(i)' <=> HandsOut(i)
          /\ Printing(i)' <=> Printing(i)
          /\ paper' = paper
        BY <1>0 DEF Claimed, HandsOut, Printing
    <2>2. CASE jobs'[i] = gone
        BY <1>2, <2>1, <2>2 DEF KitchenInv, OneSheet, Used
    <2>3. CASE jobs'[i] = jobs[i]
        BY <2>1, <2>3 DEF KitchenInv, OneSheet, Used
    <2> QED BY <1>3, <2>2, <2>3
<1> QED BY <1>1, <1>4, <1>8, <1>9, <1>10, <1>11, <1>12 DEF KitchenInv

\* A new attempt is open, and at most its live predecessor is superseded.
LEMMA AttemptBegins ==
    ASSUME KitchenInv, UNCHANGED <<orders, versions, pauses, now, kitchen, agent, paper>>,
           NEW j \in Jobs, jobs[j].state = "unborn",
           jobs' \in [Jobs -> JobRow],
           jobs'[j].order \in Orders, jobs'[j].version \in VersionsOf(jobs'[j].order),
           jobs'[j].state = "stored",
           ~ jobs'[j].accepted, ~ jobs'[j].acknowledged, ~ jobs'[j].superseded,
           jobs'[j].rejected = "no",
           \A i \in Jobs : i # j =>
              /\ jobs'[i].state = jobs[i].state /\ jobs'[i].order = jobs[i].order
              /\ jobs'[i].version = jobs[i].version
              /\ jobs'[i].accepted = jobs[i].accepted
              /\ jobs'[i].acknowledged = jobs[i].acknowledged
              /\ jobs'[i].rejected = jobs[i].rejected
              /\ jobs'[i].superseded => jobs[i].superseded \/ Live(i)
    PROVE  KitchenInv'
<1>1. \A i \in Jobs : Stays(i) \/ Begins(i)
    BY DEF Stays, Begins
<1>2. CoreInv' /\ JobsAreOwned' /\ ConfirmationHasPaper'
    BY <1>1, QuietCore
<1>3. KitchenTypeOK'
    BY <1>2 DEF KitchenInv, KitchenTypeOK, CoreInv
<1>4. SettledOnce'
    BY DEF KitchenInv, SettledOnce, Live, Settled
<1>5. OneSheet(j) /\ ~ Used(j)
    <2>1. OneSheet(j)
        BY DEF KitchenInv
    <2> QED BY <2>1 DEF OneSheet, Used
<1>6. paper[j] = 0 /\ ~ Claimed(j) /\ ~ Printing(j)
    <2>1. paper[j] \in Nat
        BY DEF KitchenInv, KitchenTypeOK
    <2> QED BY <1>5, <2>1 DEF OneSheet
<1>7. AgentHolds'
    BY DEF KitchenInv, AgentHolds
<1>8. KitchenHolds'
    <2>1. kitchen.pc = "write" => kitchen.job # j
        BY <1>6 DEF KitchenInv, KitchenHolds
    <2> QED BY <2>1 DEF KitchenInv, KitchenHolds, StoredJob
<1>9. ASSUME NEW i \in Jobs PROVE OneSheet(i)'
    <2>1. /\ Claimed(i)' <=> Claimed(i)
          /\ HandsOut(i)' <=> HandsOut(i)
          /\ Printing(i)' <=> Printing(i)
          /\ paper' = paper
        BY DEF Claimed, HandsOut, Printing
    <2>2. CASE i = j
        BY <1>6, <2>1, <2>2 DEF OneSheet
    <2>3. CASE i # j
        <3>1. Used(i)' <=> Used(i)
            BY <2>3 DEF Used
        <3> QED BY <2>1, <2>3, <3>1 DEF KitchenInv, OneSheet
    <2> QED BY <2>2, <2>3
<1> QED BY <1>2, <1>3, <1>4, <1>7, <1>8, <1>9 DEF KitchenInv

LEMMA NewAttempt ==
    ASSUME KitchenTypeOK, NEW o \in Orders, NEW v \in Versions, NEW n \in Nat,
           NEW p \in Optional(Jobs)
    PROVE  LET new == NewJob(o, v, n, p)
           IN  /\ new \in JobRow /\ new.state = "stored" /\ new.order = o
               /\ new.version = v /\ ~ new.accepted /\ ~ new.acknowledged
               /\ ~ new.superseded /\ new.rejected = "no"
<1>1. now \in Nat
    BY DEF KitchenTypeOK
<1> QED BY <1>1 DEF NewJob, JobRow, Optional

LEMMA RequestStep ==
    ASSUME KitchenInv, NEW o \in Orders, NEW v \in Versions, NEW j \in Jobs,
           RequestPrint(o, v, j)
    PROVE  KitchenInv'
<1> DEFINE new == NewJob(o, v, 1, None)
<1>1. /\ UNCHANGED <<orders, versions, pauses, now, kitchen, agent, paper>>
      /\ v \in VersionsOf(o) /\ jobs[j].state = "unborn"
      /\ jobs' = [jobs EXCEPT ![j] = new]
      /\ KitchenTypeOK
    BY DEF KitchenInv, RequestPrint, VersionsOf
<1>2. /\ new \in JobRow /\ new.state = "stored" /\ new.order = o
      /\ new.version = v /\ ~ new.accepted /\ ~ new.acknowledged
      /\ ~ new.superseded /\ new.rejected = "no"
    BY <1>1, NewAttempt DEF Optional
<1> HIDE DEF new
<1>3. /\ jobs' \in [Jobs -> JobRow] /\ jobs'[j] = new
      /\ \A i \in Jobs : i # j => jobs'[i] = jobs[i]
    BY <1>1, <1>2, OneRowMoves
<1> QED BY <1>1, <1>2, <1>3, AttemptBegins

LEMMA ReprintStep ==
    ASSUME KitchenInv, NEW p \in Jobs, NEW j \in Jobs, Reprint(p, j)
    PROVE  KitchenInv'
<1> DEFINE o == jobs[p].order
           v == jobs[p].version
           new == NewJob(o, v, jobs[p].attempt + 1, p)
           old == [jobs[p] EXCEPT !.superseded = jobs[p].superseded \/ Live(p)]
           one == [jobs EXCEPT ![p] = old]
<1>1. /\ UNCHANGED <<orders, versions, pauses, now, kitchen, agent, paper>>
      /\ jobs[j].state = "unborn" /\ StoredJob(p)
      /\ jobs' = [one EXCEPT ![j] = new]
      /\ KitchenTypeOK
    BY DEF KitchenInv, Reprint, IsLatestAttempt
<1>2. o \in Orders /\ v \in VersionsOf(o) /\ v \in Versions /\ j # p
    BY <1>1 DEF KitchenInv, JobsAreOwned, VersionsOf, StoredJob
<1>3. jobs[p] \in JobRow /\ jobs[p].attempt + 1 \in Nat
    BY <1>1 DEF KitchenTypeOK, JobRow
<1>4. /\ new \in JobRow /\ new.state = "stored" /\ new.order = o
      /\ new.version = v /\ ~ new.accepted /\ ~ new.acknowledged
      /\ ~ new.superseded /\ new.rejected = "no"
    BY <1>1, <1>2, <1>3, NewAttempt DEF Optional
<1>5. /\ old \in JobRow /\ old.state = jobs[p].state /\ old.order = o /\ old.version = v
      /\ old.accepted = jobs[p].accepted /\ old.acknowledged = jobs[p].acknowledged
      /\ old.rejected = jobs[p].rejected
      /\ old.superseded => jobs[p].superseded \/ Live(p)
    <2> DEFINE s == jobs[p].superseded \/ Live(p)
    <2>1. s \in BOOLEAN
        OBVIOUS
    <2>2. old = [jobs[p] EXCEPT !.superseded = s]
        OBVIOUS
    <2> HIDE DEF s
    <2>3. /\ old \in JobRow /\ old.state = jobs[p].state /\ old.order = o /\ old.version = v
          /\ old.accepted = jobs[p].accepted /\ old.acknowledged = jobs[p].acknowledged
          /\ old.rejected = jobs[p].rejected /\ old.superseded = s
        <3> HIDE DEF old
        <3> QED BY <1>3, <2>1, <2>2 DEF JobRow
    <2> QED BY <2>3 DEF s
<1> HIDE DEF new, old
<1>6. /\ one \in [Jobs -> JobRow] /\ one[p] = old
      /\ \A i \in Jobs : i # p => one[i] = jobs[i]
    BY <1>1, <1>5 DEF KitchenTypeOK
<1> HIDE DEF one
<1>7. /\ jobs' \in [Jobs -> JobRow] /\ jobs'[j] = new
      /\ \A i \in Jobs : i # j => jobs'[i] = one[i]
    BY <1>1, <1>4, <1>6
<1>8. \A i \in Jobs : i # j =>
        /\ jobs'[i].state = jobs[i].state /\ jobs'[i].order = jobs[i].order
        /\ jobs'[i].version = jobs[i].version
        /\ jobs'[i].accepted = jobs[i].accepted
        /\ jobs'[i].acknowledged = jobs[i].acknowledged
        /\ jobs'[i].rejected = jobs[i].rejected
        /\ jobs'[i].superseded => jobs[i].superseded \/ Live(i)
    BY <1>5, <1>6, <1>7
<1> QED BY <1>1, <1>2, <1>4, <1>7, <1>8, AttemptBegins

LEMMA PrintAsked ==
    ASSUME KitchenInv, NEW v \in Versions, NEW j \in Jobs,
           ApiPrints(v, j) \/ PanelPrints(v, j)
    PROVE  KitchenInv'
<1>1. \/ \E o \in Orders : RequestPrint(o, v, j)
      \/ \E p \in Jobs : Reprint(p, j)
    BY DEF ApiPrints, PanelPrints, AttemptsOf
<1> QED BY <1>1, RequestStep, ReprintStep

-----------------------------------------------------------------------------
(* The theorems. *)

LEMMA KitchenInductive ==
    ASSUME KitchenInv, [KitchenNext]_kitchenVars
    PROVE  KitchenInv'
<1>1. CASE UNCHANGED kitchenVars
    <2>1. /\ UNCHANGED <<orders, versions, pauses, jobs, now, paper>>
          /\ kitchen' = kitchen /\ agent' = agent
        BY <1>1 DEF kitchenVars
    <2>2. CoreInv' /\ JobsAreOwned' /\ ConfirmationHasPaper' /\ SettledOnce'
        BY <2>1, QuietCore, NothingStays DEF KitchenInv
    <2>3. KitchenTypeOK'
        BY <2>1, <2>2 DEF KitchenInv, KitchenTypeOK, CoreInv
    <2>4. /\ \A j \in Jobs : OneSheet(j)'
          /\ AgentHolds' /\ KitchenHolds'
        BY <2>1 DEF KitchenInv, OneSheet, Claimed, HandsOut, Printing, Used,
           AgentHolds, KitchenHolds, StoredJob
    <2> QED BY <2>2, <2>3, <2>4 DEF KitchenInv
<1>2. CASE KitchenStep
    BY <1>2, ClaimStep, OrderReadStep, RejectStep, AckReadStep, AckWriteStep,
       ReplyStep DEF KitchenStep
<1>3. CASE AgentStep
    BY <1>3, AgentAsks, PrintStep DEF AgentStep
<1>4. CASE AgentCrashes \/ KitchenFails
    BY <1>4, CrashSteps
<1>5. CASE \E o \in Orders : PurgesOrder(o)
    BY <1>5, PurgeStep
<1>6. CASE Tick \/ HandlesOrder
    BY <1>6, TickStep, HandlerStep
<1>7. CASE \E v \in Versions, j \in Jobs : ApiPrints(v, j) \/ PanelPrints(v, j)
    BY <1>7, PrintAsked
<1> QED BY <1>1, <1>2, <1>3, <1>4, <1>5, <1>6, <1>7 DEF KitchenNext, CommonNext

LEMMA KitchenInvariant == KitchenSpec => []KitchenInv
<1>1. KitchenInit => KitchenInv
    BY InitKitchen
<1>2. KitchenInv /\ [KitchenNext]_kitchenVars => KitchenInv'
    BY KitchenInductive
<1> QED BY <1>1, <1>2, PTL DEF KitchenSpec

\* Every row and request keeps the shape of its table, whatever the office, the
\* kitchen API and the agent do between each other's steps.
THEOREM KitchenRowsAreWellFormed == KitchenSpec => []KitchenTypeOK
<1>1. KitchenInv => KitchenTypeOK
    BY DEF KitchenInv
<1> QED BY <1>1, KitchenInvariant, PTL

\* No attempt is printed twice: the claim that is handed out exists once, and a
\* crash of the agent or of the kitchen API loses it.
THEOREM AnAttemptIsPrintedOnce == KitchenSpec => []PaperAtMostOnce
<1>1. KitchenInv => PaperAtMostOnce
    BY DEF KitchenInv, OneSheet, PaperAtMostOnce
<1> QED BY <1>1, KitchenInvariant, PTL

\* An attempt that was rejected because its order was cancelled has no sheet, now
\* or later.
THEOREM ARefusedClaimStaysUnprinted == KitchenSpec => []StornoStopsClaim
<1>1. KitchenInv => StornoStopsClaim
    BY DEF KitchenInv, OneSheet, StornoStopsClaim
<1> QED BY <1>1, KitchenInvariant, PTL

\* An attempt is acknowledged, rejected or superseded, never two of them.
THEOREM AnAttemptEndsOnce == KitchenSpec => []SettledOnce
<1>1. KitchenInv => SettledOnce
    BY DEF KitchenInv
<1> QED BY <1>1, KitchenInvariant, PTL

\* The stored confirmation of a version stands for a sheet in the kitchen.
THEOREM ConfirmedIsPrinted == KitchenSpec => []ConfirmationHasPaper
<1>1. KitchenInv => ConfirmationHasPaper
    BY DEF KitchenInv
<1> QED BY <1>1, KitchenInvariant, PTL

\* With the acknowledgement split into its reads and its write, an order is still
\* released for the newest of its stands only: the pointers are compared again.
THEOREM TheKitchenReleasesTheNewestStand == KitchenSpec => []ReadyReleasesNewestStand
<1>1. KitchenInv => ReadyReleasesNewestStand
    <2> SUFFICES ASSUME KitchenInv, NEW o \in Orders, Ready(o)
                 PROVE  /\ versions[orders[o].effective].number = LatestNumber(o)
                        /\ versions[orders[o].effective].confirmed
        BY DEF ReadyReleasesNewestStand
    <2>1. /\ Exists(o) /\ orders[o].candidate = None
          /\ orders[o].effective # None
          /\ versions[orders[o].effective].confirmed
        BY DEF Ready, Active, Exists
    <2> QED BY <2>1 DEF KitchenInv, CoreInv, NewestIsPointedAt
<1> QED BY <1>1, KitchenInvariant, PTL

\* What the split acknowledgement does to the effective stands.
LEMMA AckMovesForward ==
    ASSUME KitchenInv, AckWrites, NEW q \in Orders
    PROVE  MovesForward(q)
<1> DEFINE j == kitchen.job
           o == kitchen.order
           v == jobs[j].version
           row == kitchen.row
           new == ActivatedByPrint(row, v)
<1>0. /\ CoreInv /\ KitchenTypeOK /\ KitchenHolds /\ kitchen.pc = "write" /\ j \in Jobs
      /\ NewestIsPointedAt /\ VersionsHaveOwners
      /\ orders \in [Orders -> OrderRow] /\ versions \in [Versions -> VersionRow]
    BY DEF KitchenInv, KitchenHolds, AckWrites, CoreInv, TypeOK
<1>1. ASSUME orders'[q].effective = orders[q].effective \/ orders[q].effective = None
      PROVE  MovesForward(q)
    BY <1>1 DEF MovesForward
<1>2. CASE UNCHANGED orders
    BY <1>1, <1>2
<1>3. CASE ~ UNCHANGED orders
    <2>1. /\ Live(j)
          /\ versions' = [versions EXCEPT ![v].confirmed = TRUE]
          /\ orders[o].candidate = row.candidate
          /\ orders[o].effective = row.effective
          /\ orders' = [orders EXCEPT ![o] = new]
        BY <1>3 DEF AckWrites
    <2>2. o \in Orders /\ jobs[j].order = o /\ StoredJob(j)
        BY <1>0, <2>1 DEF KitchenHolds, Live
    <2>3. v \in VersionsOf(o) /\ v \in Versions /\ v # None /\ Exists(o) /\ row \in OrderRow
        BY <1>0, <2>2, NoneAssumption DEF KitchenInv, JobsAreOwned, VersionsOf, Owned,
           VersionsHaveOwners, KitchenTypeOK, Request
    <2>4. \/ new.effective = row.effective
          \/ row.effective = None
          \/ new.effective = v /\ row.candidate = v
        BY <2>3 DEF ActivatedByPrint, OrderRow
    <2> HIDE DEF new
    <2>5. orders'[o] = new /\ \A p \in Orders : p # o => orders'[p] = orders[p]
        BY <1>0, <2>1, <2>2
    <2>6. CASE q # o \/ new.effective = row.effective \/ row.effective = None
        BY <1>1, <2>1, <2>5, <2>6
    <2>7. CASE q = o /\ new.effective = v /\ row.candidate = v
        <3>1. versions[v].number = LatestNumber(o)
            BY <1>0, <2>1, <2>2, <2>3, <2>7 DEF NewestIsPointedAt
        <3>2. \A w \in Versions : versions'[w].number = versions[w].number
            BY <1>0, <2>1 DEF VersionRow
        <3> HIDE DEF v, o, row
        <3> QED BY <1>0, <2>2, <2>3, <2>5, <2>7, <3>1, <3>2, NewestIsSelected
    <2> QED BY <2>4, <2>6, <2>7
<1> QED BY <1>2, <1>3

\* The kitchen never goes back to an older stand, although the office writes between
\* the reads and the write of an acknowledgement.
THEOREM TheKitchenMovesForward == KitchenSpec => EffectiveMovesForward
<1>1. ASSUME KitchenInv, [KitchenNext]_kitchenVars, NEW q \in Orders
      PROVE  MovesForward(q)
    <2>0. CoreInv
        BY <1>1 DEF KitchenInv
    <2>1. CASE Next \/ UNCHANGED coreVars
        BY <2>0, <2>1, StepsMoveForward
    <2>2. CASE AckWrites
        BY <1>1, <2>2, AckMovesForward
    <2>3. CASE HandlesOrder \/ \E o \in Orders : PurgesOrder(o)
        BY <2>1, <2>3 DEF HandlesOrder, PurgesOrder, Next, OfficeNext
    <2>4. CASE \/ Tick \/ ClaimOldest \/ ClaimReadsOrder \/ RejectJob \/ AckReads \/ Reply
               \/ AgentStep \/ AgentCrashes \/ KitchenFails \/ UNCHANGED kitchenVars
        BY <2>1, <2>4 DEF Tick, ClaimOldest, ClaimReadsOrder, RejectJob, AckReads, Reply,
           AgentStep, AgentPolls, AgentPrints, AgentReports, AgentCrashes, KitchenFails,
           kitchenVars, coreVars
    <2>5. CASE \E v \in Versions, j \in Jobs : ApiPrints(v, j) \/ PanelPrints(v, j)
        BY <2>1, <2>5 DEF ApiPrints, PanelPrints, RequestPrint, Reprint, coreVars
    <2> QED BY <1>1, <2>2, <2>3, <2>4, <2>5 DEF KitchenNext, CommonNext, KitchenStep
<1>2. KitchenInv /\ [KitchenNext]_kitchenVars => [\A o \in Orders : MovesForward(o)]_coreVars
    BY <1>1
<1>3. [\A o \in Orders : MovesForward(o)]_coreVars <=>
        [\A o \in Orders :
           LET e == orders[o].effective
               f == orders'[o].effective
           IN  e # None /\ f # None /\ e # f =>
                 versions'[f].number > versions'[e].number]_coreVars
    BY DEF MovesForward
<1> QED BY <1>2, <1>3, KitchenInvariant, PTL DEF KitchenSpec, EffectiveMovesForward

-----------------------------------------------------------------------------
(* The facts of an attempt. *)

\* A row that is replaced by one with a fact more; the other rows stay.
LEMMA OneFactMore ==
    ASSUME KitchenTypeOK, NEW i \in Jobs, NEW j \in Jobs, NEW row \in JobRow,
           jobs' = [jobs EXCEPT ![j] = row],
           i = j =>
             /\ row.state = jobs[j].state /\ row.order = jobs[j].order
             /\ row.version = jobs[j].version /\ row.attempt = jobs[j].attempt
             /\ row.supersedes = jobs[j].supersedes /\ row.requested = jobs[j].requested
             /\ jobs[j].accepted => row.accepted /\ row.acceptedAt = jobs[j].acceptedAt
             /\ jobs[j].rejected # "no" => row.rejected = jobs[j].rejected
             /\ jobs[j].acknowledged => row.acknowledged
             /\ jobs[j].superseded => row.superseded
    PROVE  FactsAreAdded(i)
    BY OneRowMoves DEF FactsAreAdded

LEMMA ClaimAddsFacts ==
    ASSUME KitchenInv, ClaimOldest, NEW i \in Jobs
    PROVE  FactsAreAdded(i)
<1>0. KitchenTypeOK /\ kitchen.time \in Nat
    BY DEF KitchenInv, KitchenTypeOK, Request
<1>1. CASE UNCHANGED jobs
    BY <1>1 DEF FactsAreAdded
<1>2. ASSUME NEW j \in EligibleAt(kitchen.time),
             jobs' = [jobs EXCEPT ![j] = [@ EXCEPT !.accepted = TRUE,
                                            !.acceptedAt = kitchen.time]]
      PROVE  FactsAreAdded(i)
    <2>1. j \in Jobs /\ ~ jobs[j].accepted /\ jobs[j] \in JobRow
        BY <1>0 DEF EligibleAt, KitchenTypeOK
    <2>2. PICK row : row = Accepted(jobs[j], kitchen.time)
        OBVIOUS
    <2>3. jobs' = [jobs EXCEPT ![j] = row]
        BY <1>2, <2>2 DEF Accepted
    <2> HIDE <1>2
    <2>4. /\ row \in JobRow /\ row.accepted
          /\ row.state = jobs[j].state /\ row.order = jobs[j].order
          /\ row.version = jobs[j].version /\ row.attempt = jobs[j].attempt
          /\ row.supersedes = jobs[j].supersedes /\ row.requested = jobs[j].requested
          /\ row.rejected = jobs[j].rejected /\ row.acknowledged = jobs[j].acknowledged
          /\ row.superseded = jobs[j].superseded
        BY <1>0, <2>1, <2>2, AcceptedRow
    <2> HIDE <2>2
    <2> QED BY <1>0, <2>1, <2>3, <2>4, OneFactMore
<1> QED BY <1>1, <1>2 DEF ClaimOldest

LEMMA ReportsAddFacts ==
    ASSUME KitchenInv, RejectJob \/ AckWrites, NEW i \in Jobs
    PROVE  FactsAreAdded(i)
<1> DEFINE j == kitchen.job
           cause == IF kitchen.claims THEN "order_cancelled" ELSE "printer"
           rejected == [jobs[j] EXCEPT !.rejected = cause]
           acknowledged == [jobs[j] EXCEPT !.acknowledged = TRUE]
<1>0. KitchenTypeOK /\ (UNCHANGED jobs \/ j \in Jobs)
    BY DEF KitchenInv, KitchenHolds, RejectJob, AckWrites
<1>1. CASE UNCHANGED jobs
    BY <1>1 DEF FactsAreAdded
<1>2. ASSUME j \in Jobs, jobs' = [jobs EXCEPT ![j] = rejected],
             jobs[j].rejected = cause \/ ~ Settled(j)
      PROVE  FactsAreAdded(i)
    <2>1. /\ rejected \in JobRow /\ rejected.rejected = cause
          /\ rejected.state = jobs[j].state /\ rejected.order = jobs[j].order
          /\ rejected.version = jobs[j].version /\ rejected.attempt = jobs[j].attempt
          /\ rejected.supersedes = jobs[j].supersedes
          /\ rejected.requested = jobs[j].requested
          /\ rejected.accepted = jobs[j].accepted
          /\ rejected.acceptedAt = jobs[j].acceptedAt
          /\ rejected.acknowledged = jobs[j].acknowledged
          /\ rejected.superseded = jobs[j].superseded
        <3>1. jobs[j] \in JobRow /\ cause \in {"no", "printer", "order_cancelled"}
            BY <1>0, <1>2 DEF KitchenTypeOK
        <3> HIDE DEF cause
        <3> QED BY <3>1 DEF JobRow
    <2>2. jobs[j].rejected # "no" => jobs[j].rejected = cause
        BY <1>2 DEF Settled
    <2> HIDE DEF rejected, cause
    <2> QED BY <1>0, <1>2, <2>1, <2>2, OneFactMore
<1>3. ASSUME j \in Jobs, jobs' = [jobs EXCEPT ![j] = acknowledged]
      PROVE  FactsAreAdded(i)
    <2>1. /\ acknowledged \in JobRow /\ acknowledged.acknowledged
          /\ acknowledged.state = jobs[j].state /\ acknowledged.order = jobs[j].order
          /\ acknowledged.version = jobs[j].version
          /\ acknowledged.attempt = jobs[j].attempt
          /\ acknowledged.supersedes = jobs[j].supersedes
          /\ acknowledged.requested = jobs[j].requested
          /\ acknowledged.accepted = jobs[j].accepted
          /\ acknowledged.acceptedAt = jobs[j].acceptedAt
          /\ acknowledged.rejected = jobs[j].rejected
          /\ acknowledged.superseded = jobs[j].superseded
        <3>1. jobs[j] \in JobRow
            BY <1>0, <1>3 DEF KitchenTypeOK
        <3> QED BY <3>1 DEF JobRow
    <2> HIDE DEF acknowledged
    <2> QED BY <1>0, <1>3, <2>1, OneFactMore
<1>4. \/ UNCHANGED jobs
      \/ jobs' = [jobs EXCEPT ![j] = rejected] /\ (jobs[j].rejected = cause \/ ~ Settled(j))
      \/ jobs' = [jobs EXCEPT ![j] = acknowledged]
    BY DEF RejectJob, AckWrites
<1> HIDE DEF rejected, acknowledged, cause
<1> QED BY <1>0, <1>1, <1>2, <1>3, <1>4

LEMMA PrintsAddFacts ==
    ASSUME KitchenInv, NEW i \in Jobs, StoredJob(i), NEW j \in Jobs,
           \/ \E o \in Orders, v \in Versions : RequestPrint(o, v, j)
           \/ \E p \in Jobs : Reprint(p, j)
    PROVE  FactsAreAdded(i)
<1>0. KitchenTypeOK
    BY DEF KitchenInv
<1>1. ASSUME NEW o \in Orders, NEW v \in Versions, RequestPrint(o, v, j)
      PROVE  FactsAreAdded(i)
    <2>1. jobs[j].state = "unborn" /\ jobs' = [jobs EXCEPT ![j] = NewJob(o, v, 1, None)]
        BY <1>1 DEF RequestPrint
    <2>2. i # j
        BY <2>1 DEF StoredJob
    <2>3. jobs'[i] = jobs[i]
        BY <1>0, <2>1, <2>2 DEF KitchenTypeOK
    <2> QED BY <2>3 DEF FactsAreAdded
<1>2. ASSUME NEW p \in Jobs, Reprint(p, j)
      PROVE  FactsAreAdded(i)
    <2> DEFINE s == jobs[p].superseded \/ Live(p)
               old == [jobs[p] EXCEPT !.superseded = s]
               one == [jobs EXCEPT ![p] = old]
               new == NewJob(jobs[p].order, jobs[p].version, jobs[p].attempt + 1, p)
    <2>1. jobs[j].state = "unborn" /\ jobs' = [one EXCEPT ![j] = new]
        BY <1>2 DEF Reprint
    <2>2. i # j /\ jobs[p] \in JobRow /\ s \in BOOLEAN /\ (jobs[p].superseded => s)
        BY <1>0, <2>1 DEF StoredJob, KitchenTypeOK
    <2> HIDE DEF s, new
    <2>3. /\ old \in JobRow /\ old.superseded = s
          /\ old.state = jobs[p].state /\ old.order = jobs[p].order
          /\ old.version = jobs[p].version /\ old.attempt = jobs[p].attempt
          /\ old.supersedes = jobs[p].supersedes /\ old.requested = jobs[p].requested
          /\ old.accepted = jobs[p].accepted /\ old.acceptedAt = jobs[p].acceptedAt
          /\ old.rejected = jobs[p].rejected /\ old.acknowledged = jobs[p].acknowledged
        BY <2>2 DEF JobRow
    <2> HIDE DEF old
    <2>4. one \in [Jobs -> JobRow] /\ one[p] = old /\ (i # p => one[i] = jobs[i])
        BY <1>0, <2>3 DEF KitchenTypeOK
    <2> HIDE DEF one
    <2>5. jobs'[i] = one[i]
        BY <2>1, <2>2, <2>4
    <2>6. CASE i = p
        BY <2>2, <2>3, <2>4, <2>5, <2>6 DEF FactsAreAdded
    <2>7. CASE i # p
        BY <2>4, <2>5, <2>7 DEF FactsAreAdded
    <2> QED BY <2>6, <2>7
<1> QED BY <1>1, <1>2

\* An attempt ends once, and what is recorded of it stays until its order is deleted.
THEOREM AnAttemptEndsForGood == KitchenSpec => AttemptsEndOnce
<1>1. ASSUME KitchenInv, [KitchenNext]_kitchenVars, NEW i \in Jobs, StoredJob(i)
      PROVE  FactsAreAdded(i) \/ jobs'[i].state = "purged"
    <2>1. CASE UNCHANGED jobs
        BY <2>1 DEF FactsAreAdded
    <2>2. CASE ClaimOldest
        BY <1>1, <2>2, ClaimAddsFacts
    <2>3. CASE RejectJob \/ AckWrites
        BY <1>1, <2>3, ReportsAddFacts
    <2>4. ASSUME NEW o \in Orders, PurgesOrder(o)
          PROVE  FactsAreAdded(i) \/ jobs'[i].state = "purged"
        <3>1. \/ jobs'[i] = [NoJob EXCEPT !.state = "purged"]
              \/ jobs'[i] = jobs[i]
            BY <2>4 DEF PurgesOrder
        <3> QED BY <3>1 DEF FactsAreAdded, NoJob
    <2>5. ASSUME NEW v \in Versions, NEW j \in Jobs, ApiPrints(v, j) \/ PanelPrints(v, j)
          PROVE  FactsAreAdded(i)
        <3>1. \/ \E o \in Orders : RequestPrint(o, v, j)
              \/ \E p \in Jobs : Reprint(p, j)
            BY <2>5 DEF ApiPrints, PanelPrints, AttemptsOf
        <3> QED BY <1>1, <3>1, PrintsAddFacts
    <2>6. CASE \/ Tick \/ HandlesOrder \/ ClaimReadsOrder \/ AckReads \/ Reply
               \/ AgentStep \/ AgentCrashes \/ KitchenFails \/ UNCHANGED kitchenVars
        BY <2>1, <2>6 DEF Tick, HandlesOrder, ClaimReadsOrder, AckReads, Reply,
           AgentStep, AgentPolls, AgentPrints, AgentReports, AgentCrashes, KitchenFails,
           kitchenVars
    <2> QED BY <1>1, <2>2, <2>3, <2>4, <2>5, <2>6 DEF KitchenNext, CommonNext, KitchenStep
<1>2. KitchenInv /\ [KitchenNext]_kitchenVars =>
        [\A j \in Jobs :
           StoredJob(j) => FactsAreAdded(j) \/ jobs'[j].state = "purged"]_kitchenVars
    BY <1>1
<1>3. KitchenInv => KitchenTypeOK /\ SettledOnce
    BY DEF KitchenInv
<1> QED BY <1>2, <1>3, KitchenInvariant, PTL DEF KitchenSpec, JobFactsAreFinal,
           AttemptsEndOnce

\* Paper and database agree, whatever fails between them.
THEOREM PaperAndDatabaseAgree == KitchenSpec => []PaperTrail
<1>1. PaperAtMostOnce /\ StornoStopsClaim /\ ConfirmationHasPaper => PaperTrail
    BY DEF PaperTrail
<1> QED BY <1>1, AnAttemptIsPrintedOnce, ARefusedClaimStaysUnprinted,
           ConfirmedIsPrinted, PTL

-----------------------------------------------------------------------------
(* The chain of the attempts of a version. *)

Chained(v) ==
    LET A == AttemptsOf(v)
    IN  /\ IsFiniteSet(A)
        /\ {jobs[j].attempt : j \in A} = 1..Cardinality(A)
        /\ \A i, j \in A : jobs[i].attempt = jobs[j].attempt => i = j
        /\ \A j \in A :
             /\ Live(j) => jobs[j].attempt = Cardinality(A)
             /\ jobs[j].attempt > 1 =>
                  /\ jobs[j].supersedes \in A
                  /\ jobs[jobs[j].supersedes].attempt = jobs[j].attempt - 1

ChainInv == KitchenInv /\ \A v \in Versions : Chained(v)

LEMMA ChainedAttempts == ChainInv => AttemptsAreChained
<1> SUFFICES ASSUME ChainInv, NEW v \in Versions
             PROVE  /\ {jobs[j].attempt : j \in AttemptsOf(v)} = 1..Cardinality(AttemptsOf(v))
                    /\ \A j \in AttemptsOf(v) :
                         /\ Live(j) => IsLatestAttempt(j)
                         /\ jobs[j].attempt > 1 =>
                              /\ jobs[j].supersedes \in AttemptsOf(v)
                              /\ jobs[jobs[j].supersedes].attempt = jobs[j].attempt - 1
    BY DEF AttemptsAreChained
<1> DEFINE A == AttemptsOf(v)
<1>1. /\ IsFiniteSet(A) /\ {jobs[j].attempt : j \in A} = 1..Cardinality(A)
      /\ \A j \in A : /\ Live(j) => jobs[j].attempt = Cardinality(A)
                      /\ jobs[j].attempt > 1 =>
                           /\ jobs[j].supersedes \in A
                           /\ jobs[jobs[j].supersedes].attempt = jobs[j].attempt - 1
    BY DEF ChainInv, Chained
<1>2. ASSUME NEW j \in A, Live(j) PROVE IsLatestAttempt(j)
    <2>1. jobs[j].version = v /\ StoredJob(j)
        BY DEF AttemptsOf
    <2>2. \A i \in A : jobs[i].attempt \in 1..Cardinality(A)
        BY <1>1
    <2>3. \A i \in A : jobs[i].attempt <= jobs[j].attempt
        BY <1>1, <1>2, <2>2
    <2> QED BY <2>1, <2>3 DEF IsLatestAttempt
<1> QED BY <1>1, <1>2

\* The attempt keeps its place in the chain, and nothing opens it again.
KeepsPlace(j) ==
    /\ jobs'[j].state = jobs[j].state
    /\ jobs'[j].version = jobs[j].version
    /\ jobs'[j].attempt = jobs[j].attempt
    /\ jobs'[j].supersedes = jobs[j].supersedes
    /\ jobs[j].acknowledged => jobs'[j].acknowledged
    /\ jobs[j].rejected # "no" => jobs'[j].rejected # "no"
    /\ jobs[j].superseded => jobs'[j].superseded

LEMMA SamePlaces ==
    ASSUME NEW v, Chained(v), AttemptsOf(v)' = AttemptsOf(v),
           \A j \in AttemptsOf(v) : KeepsPlace(j)
    PROVE  Chained(v)'
<1>1. \A j \in AttemptsOf(v) : /\ jobs'[j].attempt = jobs[j].attempt
                               /\ jobs'[j].supersedes = jobs[j].supersedes
                               /\ Live(j)' => Live(j)
    BY DEF KeepsPlace, Live, StoredJob, Settled
<1>2. {jobs'[j].attempt : j \in AttemptsOf(v)} = {jobs[j].attempt : j \in AttemptsOf(v)}
    BY <1>1
<1> QED BY <1>1, <1>2 DEF Chained

LEMMA PlacesAreKept ==
    ASSUME ChainInv, \A j \in Jobs : KeepsPlace(j)
    PROVE  \A v \in Versions : Chained(v)'
<1> SUFFICES ASSUME NEW v \in Versions PROVE Chained(v)'
    OBVIOUS
<1>1. AttemptsOf(v)' = AttemptsOf(v)
    BY DEF KeepsPlace, AttemptsOf, StoredJob
<1>2. \A j \in AttemptsOf(v) : KeepsPlace(j)
    BY DEF AttemptsOf
<1> QED BY <1>1, <1>2, SamePlaces DEF ChainInv

LEMMA ReportsKeepPlaces ==
    ASSUME KitchenInv, ClaimOldest \/ RejectJob \/ AckWrites, NEW i \in Jobs
    PROVE  KeepsPlace(i)
<1>0. /\ jobs \in [Jobs -> JobRow]
      /\ kitchen.pc \in {"reject", "write"} => kitchen.job \in Jobs
    BY DEF KitchenInv, KitchenTypeOK, KitchenHolds
<1>1. CASE UNCHANGED jobs
    BY <1>1 DEF KeepsPlace
<1>2. ASSUME NEW j \in Jobs,
             jobs' = [jobs EXCEPT ![j] = [@ EXCEPT !.accepted = TRUE,
                                            !.acceptedAt = kitchen.time]]
      PROVE  KeepsPlace(i)
    <2>1. PICK row : row = Accepted(jobs[j], kitchen.time)
        OBVIOUS
    <2>2. jobs' = [jobs EXCEPT ![j] = row]
        BY <1>2, <2>1 DEF Accepted
    <2>3. kitchen.time \in Nat
        BY DEF KitchenInv, KitchenTypeOK, Request
    <2>4. /\ row.state = jobs[j].state /\ row.version = jobs[j].version
          /\ row.attempt = jobs[j].attempt /\ row.supersedes = jobs[j].supersedes
          /\ row.acknowledged = jobs[j].acknowledged
          /\ row.rejected = jobs[j].rejected /\ row.superseded = jobs[j].superseded
        BY <1>0, <1>2, <2>1, <2>3, AcceptedRow
    <2> HIDE <1>2, <2>1
    <2> QED BY <1>0, <2>2, <2>4 DEF KeepsPlace
<1>3. ASSUME NEW c \in {"printer", "order_cancelled"}, NEW j \in Jobs,
             jobs' = [jobs EXCEPT ![j].rejected = c]
      PROVE  KeepsPlace(i)
    BY <1>0, <1>3 DEF KeepsPlace, JobRow
<1>4. ASSUME NEW j \in Jobs, jobs' = [jobs EXCEPT ![j].acknowledged = TRUE]
      PROVE  KeepsPlace(i)
    BY <1>0, <1>4 DEF KeepsPlace, JobRow
<1>5. CASE ClaimOldest
    <2>1. \/ UNCHANGED jobs
          \/ \E j \in Jobs : jobs' = [jobs EXCEPT ![j] =
               [@ EXCEPT !.accepted = TRUE, !.acceptedAt = kitchen.time]]
        BY <1>5 DEF ClaimOldest, EligibleAt
    <2> QED BY <1>1, <1>2, <2>1
<1>6. CASE RejectJob
    <2>1. kitchen.job \in Jobs
        BY <1>0, <1>6 DEF RejectJob
    <2>2. \/ UNCHANGED jobs
          \/ \E c \in {"printer", "order_cancelled"} :
               jobs' = [jobs EXCEPT ![kitchen.job].rejected = c]
        BY <1>6 DEF RejectJob
    <2> QED BY <1>1, <1>3, <2>1, <2>2
<1>7. CASE AckWrites
    <2>1. kitchen.job \in Jobs
        BY <1>0, <1>7 DEF AckWrites
    <2>2. UNCHANGED jobs \/ jobs' = [jobs EXCEPT ![kitchen.job].acknowledged = TRUE]
        BY <1>7 DEF AckWrites
    <2> QED BY <1>1, <1>4, <2>1, <2>2
<1> QED BY <1>5, <1>6, <1>7

LEMMA PurgeKeepsChains ==
    ASSUME ChainInv, NEW o \in Orders, PurgesOrder(o), NEW v \in Versions
    PROVE  Chained(v)'
<1>1. \A j \in Jobs : jobs'[j] = IF StoredJob(j) /\ jobs[j].order = o
                                 THEN [NoJob EXCEPT !.state = "purged"] ELSE jobs[j]
    BY DEF PurgesOrder
<1>2. \A i \in AttemptsOf(v) : i \in Jobs /\ StoredJob(i) /\ jobs[i].version = v
                               /\ jobs[i].order = versions[v].order
    BY DEF ChainInv, KitchenInv, JobsAreOwned, AttemptsOf, VersionsOf, Owned
<1>3. [NoJob EXCEPT !.state = "purged"].state = "purged"
    BY DEF NoJob
<1>4. CASE versions[v].order = o
    <2>1. AttemptsOf(v)' = {}
        <3> SUFFICES ASSUME NEW j \in Jobs, jobs'[j].state = "stored", jobs'[j].version = v
                     PROVE  FALSE
            BY DEF AttemptsOf, StoredJob
        <3>1. jobs'[j] = jobs[j] /\ ~ (StoredJob(j) /\ jobs[j].order = o)
            BY <1>1, <1>3
        <3>2. j \in AttemptsOf(v)
            BY <3>1 DEF AttemptsOf, StoredJob
        <3> QED BY <1>2, <1>4, <3>1, <3>2
    <2>2. IsFiniteSet({}) /\ Cardinality({}) = 0
        BY FS_EmptySet
    <2> QED BY <2>1, <2>2 DEF Chained
<1>5. CASE versions[v].order # o
    <2>1. \A j \in AttemptsOf(v) : jobs'[j] = jobs[j]
        BY <1>1, <1>2, <1>5
    <2>2. \A j \in Jobs : jobs'[j].state = "stored" => jobs'[j] = jobs[j]
        BY <1>1, <1>3
    <2>3. AttemptsOf(v)' = AttemptsOf(v)
        BY <1>2, <2>1, <2>2 DEF AttemptsOf, StoredJob
    <2>4. \A j \in AttemptsOf(v) : KeepsPlace(j)
        BY <2>1 DEF KeepsPlace
    <2> QED BY <2>3, <2>4, SamePlaces DEF ChainInv
<1> QED BY <1>4, <1>5

\* The successor of the newest attempt extends the chain; the only attempt that may
\* have been open is the one it supersedes.
LEMMA ChainGrows ==
    ASSUME KitchenInv, NEW w, Chained(w), NEW j, j \notin AttemptsOf(w),
           AttemptsOf(w)' = AttemptsOf(w) \cup {j},
           jobs'[j].attempt = Cardinality(AttemptsOf(w)) + 1,
           jobs'[j].attempt > 1 =>
              /\ jobs'[j].supersedes \in AttemptsOf(w)
              /\ jobs[jobs'[j].supersedes].attempt = Cardinality(AttemptsOf(w)),
           \A i \in AttemptsOf(w) :
              /\ jobs'[i].attempt = jobs[i].attempt
              /\ jobs'[i].supersedes = jobs[i].supersedes
              /\ ~ Live(i)'
    PROVE  Chained(w)'
<1> DEFINE A == AttemptsOf(w)
           n == Cardinality(A)
           B == A \cup {j}
<1>1. /\ IsFiniteSet(A) /\ {jobs[i].attempt : i \in A} = 1..n
      /\ \A i, k \in A : jobs[i].attempt = jobs[k].attempt => i = k
      /\ \A i \in A : jobs[i].attempt > 1 =>
           /\ jobs[i].supersedes \in A
           /\ jobs[jobs[i].supersedes].attempt = jobs[i].attempt - 1
    BY DEF Chained
<1>2. n \in Nat /\ IsFiniteSet(B) /\ Cardinality(B) = n + 1
    <2>1. IsFiniteSet(B) /\ Cardinality(B) = n + 1
        BY <1>1, FS_AddElement
    <2>2. n \in Nat
        BY <1>1, FS_CardinalityType
    <2> QED BY <2>1, <2>2
<1>3. /\ jobs'[j].attempt = n + 1
      /\ \A i \in A : jobs'[i].attempt = jobs[i].attempt /\ jobs[i].attempt \in 1..n
    BY <1>1
<1> HIDE DEF n
<1>4. {jobs'[i].attempt : i \in B} = 1..(n + 1)
    <2>1. {jobs'[i].attempt : i \in B} = {jobs[i].attempt : i \in A} \cup {n + 1}
        BY <1>3
    <2>2. (1..n) \cup {n + 1} = 1..(n + 1)
        BY <1>2
    <2> QED BY <1>1, <2>1, <2>2
<1>5. \A i, k \in B : jobs'[i].attempt = jobs'[k].attempt => i = k
    BY <1>1, <1>2, <1>3
<1>6. \A i \in B : Live(i)' => jobs'[i].attempt = n + 1
    BY <1>3
<1>7. ASSUME NEW i \in B, jobs'[i].attempt > 1
      PROVE  /\ jobs'[i].supersedes \in B
             /\ jobs'[jobs'[i].supersedes].attempt = jobs'[i].attempt - 1
    <2>1. CASE i = j
        <3>1. /\ jobs'[j].supersedes \in A
              /\ jobs[jobs'[j].supersedes].attempt = n
            BY <1>7, <2>1 DEF n
        <3> QED BY <1>2, <1>3, <2>1, <3>1
    <2>2. CASE i \in A
        <3>1. /\ jobs[i].supersedes \in A
              /\ jobs[jobs[i].supersedes].attempt = jobs[i].attempt - 1
              /\ jobs'[i].supersedes = jobs[i].supersedes
            BY <1>1, <1>3, <1>7, <2>2
        <3> QED BY <1>3, <2>2, <3>1
    <2> QED BY <2>1, <2>2
<1> HIDE DEF A
<1>8. AttemptsOf(w)' = B
    BY DEF A
<1> HIDE DEF B
<1> QED BY <1>2, <1>4, <1>5, <1>6, <1>7, <1>8 DEF Chained

LEMMA PrintKeepsChains ==
    ASSUME ChainInv, NEW u \in Versions, NEW j \in Jobs, ApiPrints(u, j) \/ PanelPrints(u, j),
           NEW w \in Versions
    PROVE  Chained(w)'
<1>0. KitchenInv /\ KitchenTypeOK /\ Chained(w) /\ jobs \in [Jobs -> JobRow]
    BY DEF ChainInv, KitchenInv, KitchenTypeOK
<1>1. ASSUME NEW o \in Orders, RequestPrint(o, u, j)
      PROVE  Chained(w)'
    <2> DEFINE new == NewJob(o, u, 1, None)
    <2>1. /\ AttemptsOf(u) = {} /\ jobs[j].state = "unborn"
          /\ jobs' = [jobs EXCEPT ![j] = new]
        BY <1>1 DEF RequestPrint
    <2>2. new.state = "stored" /\ new.version = u /\ new.attempt = 1
        BY DEF NewJob
    <2> HIDE DEF new
    <2>3. jobs'[j] = new /\ \A i \in Jobs : i # j => jobs'[i] = jobs[i]
        BY <1>0, <2>1
    <2>4. CASE w = u
        <3>1. AttemptsOf(w)' = AttemptsOf(w) \cup {j} /\ j \notin AttemptsOf(w)
            BY <2>1, <2>2, <2>3, <2>4 DEF AttemptsOf, StoredJob
        <3>2. Cardinality(AttemptsOf(w)) = 0
            BY <2>1, <2>4, FS_EmptySet
        <3> QED BY <1>0, <2>1, <2>2, <2>3, <2>4, <3>1, <3>2, ChainGrows
    <2>5. CASE w # u
        <3>1. AttemptsOf(w)' = AttemptsOf(w)
            BY <2>1, <2>2, <2>3, <2>5 DEF AttemptsOf, StoredJob
        <3>2. \A i \in AttemptsOf(w) : KeepsPlace(i)
            BY <2>1, <2>3 DEF AttemptsOf, KeepsPlace, StoredJob
        <3> QED BY <1>0, <3>1, <3>2, SamePlaces
    <2> QED BY <2>4, <2>5
<1>2. ASSUME NEW p \in AttemptsOf(u), Reprint(p, j)
      PROVE  Chained(w)'
    <2> DEFINE new == NewJob(jobs[p].order, u, jobs[p].attempt + 1, p)
               s == jobs[p].superseded \/ Live(p)
               one == [jobs EXCEPT ![p].superseded = s]
    <2>1. /\ p \in Jobs /\ StoredJob(p) /\ jobs[p].version = u
          /\ jobs[j].state = "unborn" /\ j # p
          /\ \A i \in AttemptsOf(u) : jobs[i].attempt <= jobs[p].attempt
          /\ jobs' = [one EXCEPT ![j] = new]
        BY <1>2 DEF Reprint, IsLatestAttempt, AttemptsOf, StoredJob
    <2>2. /\ new.state = "stored" /\ new.version = u /\ new.attempt = jobs[p].attempt + 1
          /\ new.supersedes = p
        BY DEF NewJob
    <2>3. s \in BOOLEAN
        OBVIOUS
    <2>4. jobs[p].superseded \/ Live(p) <=> s
        OBVIOUS
    <2> HIDE DEF new, s
    <2>5. /\ one \in [Jobs -> JobRow] /\ one[p] = [jobs[p] EXCEPT !.superseded = s]
          /\ \A i \in Jobs : i # p => one[i] = jobs[i]
        BY <1>0, <2>1, <2>3 DEF JobRow
    <2> HIDE DEF one
    <2>6. jobs'[j] = new /\ \A i \in Jobs : i # j => jobs'[i] = one[i]
        BY <2>1, <2>5
    <2>7. /\ one[p].state = jobs[p].state /\ one[p].version = jobs[p].version
          /\ one[p].attempt = jobs[p].attempt /\ one[p].supersedes = jobs[p].supersedes
          /\ one[p].acknowledged = jobs[p].acknowledged
          /\ one[p].rejected = jobs[p].rejected /\ one[p].superseded = s
        <3>1. jobs[p] \in JobRow
            BY <1>0, <2>1
        <3> QED BY <2>3, <2>5, <3>1 DEF JobRow
    <2>8. \A i \in Jobs : i # j => KeepsPlace(i)
        BY <2>4, <2>5, <2>6, <2>7 DEF KeepsPlace
    <2>9. CASE w = u
        <3> DEFINE A == AttemptsOf(w)
                   n == Cardinality(A)
        <3>1. /\ IsFiniteSet(A) /\ {jobs[i].attempt : i \in A} = 1..n
              /\ \A i, k \in A : jobs[i].attempt = jobs[k].attempt => i = k
              /\ \A i \in A : Live(i) => jobs[i].attempt = n
            BY <1>0 DEF Chained
        <3>2. n \in Nat /\ p \in A
            BY <1>2, <2>9, <3>1, FS_CardinalityType
        <3>3. jobs[p].attempt = n
            <4>1. jobs[p].attempt \in 1..n
                BY <3>1, <3>2
            <4>2. n \in {jobs[i].attempt : i \in A}
                BY <3>1, <3>2, <4>1
            <4>3. PICK i \in A : jobs[i].attempt = n
                BY <4>2
            <4>4. n <= jobs[p].attempt
                BY <2>1, <2>9, <4>3
            <4> QED BY <3>2, <4>1, <4>4
        <3>4. A' = A \cup {j} /\ j \notin A
            <4>1. A' = {i \in Jobs : jobs'[i].state = "stored" /\ jobs'[i].version = w}
                BY DEF AttemptsOf, StoredJob
            <4>2. A = {i \in Jobs : jobs[i].state = "stored" /\ jobs[i].version = w}
                BY DEF AttemptsOf, StoredJob
            <4> HIDE DEF A
            <4> QED BY <2>1, <2>2, <2>6, <2>8, <2>9, <4>1, <4>2 DEF KeepsPlace
        <3>5. ASSUME NEW i \in A PROVE ~ Live(i)'
            <4>1. i \in Jobs /\ i # j
                BY <3>4 DEF AttemptsOf
            <4>2. CASE i = p
                BY <2>4, <2>6, <2>7, <4>1, <4>2 DEF Live, StoredJob, Settled
            <4>3. CASE i # p
                <5>1. ~ Live(i)
                    BY <3>1, <3>2, <3>3, <4>3
                <5>2. jobs'[i] = jobs[i]
                    BY <2>5, <2>6, <4>1, <4>3
                <5> QED BY <5>1, <5>2 DEF Live, StoredJob, Settled
            <4> QED BY <4>2, <4>3
        <3>6. \A i \in A : /\ jobs'[i].attempt = jobs[i].attempt
                           /\ jobs'[i].supersedes = jobs[i].supersedes
            BY <2>8, <3>4 DEF KeepsPlace, AttemptsOf
        <3>7. /\ jobs'[j].attempt = n + 1 /\ jobs'[j].supersedes = p
              /\ jobs[jobs'[j].supersedes].attempt = n
            BY <2>2, <2>6, <3>3
        <3>8. AttemptsOf(w)' = AttemptsOf(w) \cup {j}
            BY <3>4
        <3> QED BY <1>0, <3>2, <3>4, <3>5, <3>6, <3>7, <3>8, ChainGrows
    <2>10. CASE w # u
        <3>1. AttemptsOf(w)' = AttemptsOf(w)
            BY <2>1, <2>2, <2>6, <2>8, <2>10 DEF AttemptsOf, StoredJob, KeepsPlace
        <3>2. \A i \in AttemptsOf(w) : KeepsPlace(i)
            BY <2>1, <2>8 DEF AttemptsOf, StoredJob
        <3> QED BY <1>0, <3>1, <3>2, SamePlaces
    <2> QED BY <2>9, <2>10
<1>3. CASE \E o \in Orders : RequestPrint(o, u, j)
    BY <1>1, <1>3
<1>4. CASE \E p \in AttemptsOf(u) : Reprint(p, j)
    BY <1>2, <1>4
<1> QED BY <1>3, <1>4 DEF ApiPrints, PanelPrints

\* The attempts of a version form one chain of which only the last is open: the unique
\* indexes and the chain trigger of kitchen_print_jobs never have to fire.
THEOREM AttemptsFormAChain == KitchenSpec => []AttemptsAreChained
<1>1. KitchenInit => ChainInv
    <2> SUFFICES ASSUME KitchenInit PROVE ChainInv
        OBVIOUS
    <2>1. KitchenInv
        BY InitKitchen
    <2>2. \A j \in Jobs : jobs[j].state = "unborn"
        BY BlankRows DEF KitchenInit
    <2>3. \A v \in Versions : AttemptsOf(v) = {}
        BY <2>2 DEF AttemptsOf, StoredJob
    <2>4. IsFiniteSet({}) /\ Cardinality({}) = 0
        BY FS_EmptySet
    <2>5. \A v \in Versions : Chained(v)
        BY <2>3, <2>4 DEF Chained
    <2> QED BY <2>1, <2>5 DEF ChainInv
<1>2. ChainInv /\ [KitchenNext]_kitchenVars => ChainInv'
    <2> SUFFICES ASSUME ChainInv, [KitchenNext]_kitchenVars PROVE ChainInv'
        OBVIOUS
    <2>1. KitchenInv /\ KitchenInv'
        BY KitchenInductive DEF ChainInv
    <2>2. CASE UNCHANGED jobs
        <3>1. \A j \in Jobs : KeepsPlace(j)
            BY <2>2 DEF KeepsPlace
        <3> QED BY <2>1, <3>1, PlacesAreKept DEF ChainInv
    <2>3. CASE ClaimOldest \/ RejectJob \/ AckWrites
        <3>1. \A j \in Jobs : KeepsPlace(j)
            BY <2>1, <2>3, ReportsKeepPlaces
        <3> QED BY <2>1, <3>1, PlacesAreKept DEF ChainInv
    <2>4. CASE \E o \in Orders : PurgesOrder(o)
        BY <2>1, <2>4, PurgeKeepsChains DEF ChainInv
    <2>5. CASE \E v \in Versions, j \in Jobs : ApiPrints(v, j) \/ PanelPrints(v, j)
        BY <2>1, <2>5, PrintKeepsChains DEF ChainInv
    <2>6. CASE \/ Tick \/ HandlesOrder \/ ClaimReadsOrder \/ AckReads \/ Reply
               \/ AgentStep \/ AgentCrashes \/ KitchenFails \/ UNCHANGED kitchenVars
        BY <2>2, <2>6 DEF Tick, HandlesOrder, ClaimReadsOrder, AckReads, Reply,
           AgentStep, AgentPolls, AgentPrints, AgentReports, AgentCrashes, KitchenFails,
           kitchenVars
    <2> QED BY <2>2, <2>3, <2>4, <2>5, <2>6 DEF KitchenNext, CommonNext, KitchenStep
<1> QED BY <1>1, <1>2, ChainedAttempts, PTL DEF KitchenSpec

-----------------------------------------------------------------------------
(* The split acknowledgement against the one of OrderCore, which is one step, while *)
(* no Storno falls between its reads and its write.                                 *)

\* The order an acknowledgement has read may have moved on, but then the version that
\* was printed is not waited for any more; where it is, the row is as it was read.
ReadStands ==
    kitchen.pc = "write" /\ StoredJob(kitchen.job) =>
        LET o == kitchen.order
            v == jobs[kitchen.job].version
        IN  /\ Active(o)
            /\ orders[o].candidate = v => orders[o] = kitchen.row
            /\ orders[o].candidate = None /\ orders[o].effective = None =>
                 orders[o] = kitchen.row

\* What a command of the office does to an active order beside the version v: a new
\* version becomes the candidate, or a candidate the stand.
LEMMA HandlersMoveOn ==
    ASSUME TypeOK, HandlerNext, NEW o \in Orders, Active(o),
           orders'[o].state # "cancelled", NEW v \in Versions, Stored(v)
    PROVE  /\ orders'[o].state = "active"
           /\ \/ orders'[o] = orders[o]
              \/ orders'[o].candidate \notin {v, None}
              \/ orders'[o].candidate = None /\ orders'[o].effective # None
<1>0. orders \in [Orders -> OrderRow]
    BY DEF TypeOK
<1>1. ASSUME NEW p \in Orders, NEW w \in Versions, versions[w].state = "unborn",
             orders' = [orders EXCEPT ![p].candidate = w]
      PROVE  orders'[o].state = "active"
             /\ (orders'[o] = orders[o] \/ orders'[o].candidate \notin {v, None})
  <2>1. w # v /\ w # None
    BY <1>1, NoneAssumption DEF Stored
  <2>2. CASE p = o
    BY <1>0, <1>1, <2>1, <2>2 DEF OrderRow, Active
  <2>3. CASE p # o
    BY <1>0, <1>1, <2>3 DEF Active
  <2> QED
    BY <2>2, <2>3
<1>2. ASSUME NEW p \in Orders, NEW w \in Versions, MakeEffective(p, w)
      PROVE  /\ orders'[o].state = "active"
             /\ \/ orders'[o] = orders[o]
                \/ orders'[o].candidate = None /\ orders'[o].effective # None
    BY <1>0, <1>2, EffectiveIsSet, NoneAssumption DEF Active
<1>3. ASSUME NEW p \in Orders, CancelOrder(p)
      PROVE  orders'[o] = orders[o]
  <2>1. orders' = [orders EXCEPT ![p].state = "cancelled"]
    BY <1>3 DEF CancelOrder
  <2>2. p # o
    BY <1>0, <2>1 DEF OrderRow
  <2> QED
    BY <1>0, <2>1, <2>2
<1>4. ASSUME NEW p \in Orders, orders[p].state = "unborn", NEW row,
             orders' = [orders EXCEPT ![p] = row]
      PROVE  orders'[o] = orders[o]
    BY <1>0, <1>4 DEF Active
<1>5. CASE ChangeNext
  <2>1. PICK p \in Orders :
          \/ \E w \in Versions, f \in Facts : ProposeChange(p, w, f)
          \/ \E w, x \in Versions, a \in Addresses : ProposeAddress(p, w, x, a)
          \/ \E w \in Versions : MakeEffective(p, w)
          \/ CancelOrder(p) \/ PauseOrder(p) \/ ResumeOrder(p)
    BY <1>5 DEF ChangeNext
  <2>2. CASE \/ \E w \in Versions, f \in Facts : ProposeChange(p, w, f)
             \/ \E w, x \in Versions, a \in Addresses : ProposeAddress(p, w, x, a)
    BY <1>1, <2>2 DEF ProposeChange, ProposeAddress, AppendVersion
  <2>3. CASE PauseOrder(p) \/ ResumeOrder(p)
    BY <2>3 DEF PauseOrder, ResumeOrder, Active
  <2> QED
    BY <1>2, <1>3, <2>1, <2>2, <2>3 DEF Active
<1>6. CASE \E p \in Orders, w \in Versions, i \in Inquiries, row \in InitialContents :
             CreateOrder(p, w, i, row)
    BY <1>4, <1>6 DEF CreateOrder, Active
<1> QED
    BY <1>5, <1>6 DEF HandlerNext

\* What is asked of the kitchen API, and what it answers, is no write.
LEMMA OtherStepsDoNotWrite ==
    ASSUME KitchenTypeOK,
           \/ AgentPolls \/ AgentReports \/ ClaimOldest \/ ClaimReadsOrder
           \/ RejectJob \/ AckWrites \/ Reply \/ KitchenFails
    PROVE  kitchen'.pc # "write"
<1>0. kitchen \in Request
    BY DEF KitchenTypeOK
<1>1. ASSUME NEW a \in {"empty", "job", "done", "error"}, Answer(a)
      PROVE  kitchen'.pc # "write"
    BY <1>0, <1>1, Answering
<1>2. CASE AgentPolls
    BY <1>2 DEF AgentPolls, NoRequest
<1>3. CASE AgentReports
    BY <1>3 DEF AgentReports, NoRequest
<1>4. CASE ClaimOldest
  <2>1. \/ Answer("empty") \/ Answer("error")
        \/ \E j \in Jobs : kitchen' = [kitchen EXCEPT !.pc = "order", !.job = j,
                                                      !.order = jobs[j].order]
    BY <1>4 DEF ClaimOldest, EligibleAt
  <2>2. ASSUME NEW j \in Jobs, kitchen' = [kitchen EXCEPT !.pc = "order", !.job = j,
                                                          !.order = jobs[j].order]
        PROVE  kitchen'.pc = "order"
    BY <1>0, <2>2 DEF Request
  <2> QED
    BY <1>1, <2>1, <2>2
<1>5. CASE ClaimReadsOrder
  <2>1. Answer("error") \/ Answer("job") \/ kitchen' = [kitchen EXCEPT !.pc = "reject"]
    BY <1>5 DEF ClaimReadsOrder
  <2>2. CASE kitchen' = [kitchen EXCEPT !.pc = "reject"]
    BY <1>0, <2>2 DEF Request
  <2> QED
    BY <1>1, <2>1, <2>2
<1>6. CASE RejectJob
  <2>1. Answer("empty") \/ Answer("done") \/ Answer("error")
    BY <1>6 DEF RejectJob
  <2> QED
    BY <1>1, <2>1
<1>7. CASE AckWrites
  <2>1. Answer("done") \/ Answer("error")
    BY <1>7 DEF AckWrites
  <2> QED
    BY <1>1, <2>1
<1>8. CASE Reply \/ KitchenFails
    BY <1>8 DEF Reply, KitchenFails, NoRequest
<1> QED
    BY <1>2, <1>3, <1>4, <1>5, <1>6, <1>7, <1>8

\* The job of a request at its write has been born.
LEMMA WrittenJobIsBorn ==
    ASSUME KitchenInv, kitchen.pc = "write"
    PROVE  kitchen.job \in Jobs /\ jobs[kitchen.job].state # "unborn"
    BY DEF KitchenInv, KitchenHolds, OneSheet, Used

LEMMA CalmReadStands ==
    ASSUME KitchenInv, ReadStands, KitchenNext, StornoWaits
    PROVE  ReadStands'
<1>0. /\ KitchenTypeOK /\ TypeOK /\ KitchenHolds /\ kitchen \in Request
      /\ jobs \in [Jobs -> JobRow]
    BY DEF KitchenInv, KitchenTypeOK
<1>1. CASE UNCHANGED <<orders, kitchen, jobs>>
    BY <1>1 DEF ReadStands, StoredJob, Active
<1>2. CASE HandlesOrder
  <2>1. HandlerNext /\ UNCHANGED <<jobs, kitchen>>
    BY <1>2 DEF HandlesOrder
  <2>2. SUFFICES ASSUME kitchen.pc = "write", StoredJob(kitchen.job)
                 PROVE  ReadStands'
    BY <2>1 DEF ReadStands, StoredJob
  <2> DEFINE o == kitchen.order
             v == jobs[kitchen.job].version
  <2>3. /\ o \in Orders /\ Active(o)
        /\ orders[o].candidate = v => orders[o] = kitchen.row
        /\ orders[o].candidate = None /\ orders[o].effective = None =>
             orders[o] = kitchen.row
    BY <1>0, <2>2 DEF ReadStands, KitchenHolds
  <2>4. v \in Versions /\ Stored(v)
    BY <1>0, <2>2 DEF KitchenInv, JobsAreOwned, VersionsOf, Owned, KitchenHolds
  <2>5. orders'[o].state # "cancelled"
    BY <2>2, <2>3 DEF StornoWaits
  <2> HIDE DEF o, v
  <2>6. /\ orders'[o].state = "active"
        /\ \/ orders'[o] = orders[o]
           \/ orders'[o].candidate \notin {v, None}
           \/ orders'[o].candidate = None /\ orders'[o].effective # None
    BY <1>0, <2>1, <2>3, <2>4, <2>5, HandlersMoveOn
  <2>7. v # None
    BY <2>4, NoneAssumption
  <2>8. /\ orders'[o].candidate = v => orders'[o] = kitchen.row
        /\ orders'[o].candidate = None /\ orders'[o].effective = None =>
             orders'[o] = kitchen.row
    BY <2>3, <2>6, <2>7
  <2> QED
    BY <2>1, <2>6, <2>8 DEF ReadStands, Active, o, v
<1>3. ASSUME NEW p \in Orders, PurgesOrder(p) PROVE ReadStands'
  <2>1. /\ orders' = [orders EXCEPT ![p] = [NoOrder EXCEPT !.state = "purged"]]
        /\ UNCHANGED kitchen
        /\ jobs' = [j \in Jobs |-> IF StoredJob(j) /\ jobs[j].order = p
                                   THEN [NoJob EXCEPT !.state = "purged"] ELSE jobs[j]]
    BY <1>3 DEF PurgesOrder, PurgeOrder
  <2>2. [NoJob EXCEPT !.state = "purged"].state = "purged"
    BY DEF NoJob
  <2>3. SUFFICES ASSUME kitchen.pc = "write", StoredJob(kitchen.job)'
                 PROVE  ReadStands'
    BY <2>1 DEF ReadStands, StoredJob
  <2>4. kitchen.job \in Jobs /\ kitchen.order \in Orders
    BY <1>0, <2>3 DEF KitchenHolds
  <2>5. /\ StoredJob(kitchen.job) /\ jobs[kitchen.job].order # p
        /\ jobs'[kitchen.job] = jobs[kitchen.job]
    BY <2>1, <2>2, <2>3, <2>4 DEF StoredJob
  <2>6. kitchen.order # p
    BY <1>0, <2>3, <2>5 DEF KitchenHolds
  <2>7. orders'[kitchen.order] = orders[kitchen.order]
    BY <1>0, <2>1, <2>4, <2>6 DEF TypeOK
  <2> QED
    BY <2>1, <2>3, <2>5, <2>7 DEF ReadStands, Active
<1>4. CASE AckReads
  <2>1. UNCHANGED <<orders, jobs>>
    BY <1>4 DEF AckReads
  <2>2. SUFFICES ASSUME kitchen'.pc = "write" PROVE ReadStands'
    BY DEF ReadStands
  <2>3. kitchen.pc = "ack"
    BY <1>4 DEF AckReads
  <2>4. PICK k : k = [kitchen EXCEPT !.pc = "write", !.order = jobs[kitchen.job].order,
                                     !.row = orders[jobs[kitchen.job].order]]
    OBVIOUS
  <2>5. Active(jobs[kitchen.job].order) /\ kitchen' = k
    <3>1. ~ Answer("error") /\ ~ Answer("done")
      BY <1>0, <2>2, Answering
    <3> QED
      BY <1>4, <2>2, <2>4, <3>1 DEF AckReads
  <2>6. k.order = jobs[kitchen.job].order /\ k.row = orders[jobs[kitchen.job].order]
    BY <1>0, <2>4 DEF Request
  <2> QED
    BY <2>1, <2>5, <2>6 DEF ReadStands, Active
<1>5. CASE \/ AgentPolls \/ AgentReports \/ ClaimOldest \/ ClaimReadsOrder
           \/ RejectJob \/ AckWrites \/ Reply \/ KitchenFails
  <2>1. kitchen'.pc # "write"
    BY <1>0, <1>5, OtherStepsDoNotWrite
  <2> QED
    BY <2>1 DEF ReadStands
<1>6. CASE AgentCrashes
  <2>1. UNCHANGED <<orders, jobs>> /\ kitchen' = [kitchen EXCEPT !.heard = FALSE]
    BY <1>6 DEF AgentCrashes
  <2>2. /\ kitchen'.pc = kitchen.pc /\ kitchen'.job = kitchen.job
        /\ kitchen'.order = kitchen.order /\ kitchen'.row = kitchen.row
    BY <1>0, <2>1 DEF Request
  <2> QED
    BY <2>1, <2>2 DEF ReadStands, StoredJob, Active
<1>7. CASE \E v \in Versions, j \in Jobs : ApiPrints(v, j) \/ PanelPrints(v, j)
  <2>1. \/ \E o \in Orders, v \in Versions, j \in Jobs : RequestPrint(o, v, j)
        \/ \E p \in Jobs, j \in Jobs : Reprint(p, j)
    BY <1>7 DEF ApiPrints, PanelPrints, AttemptsOf
  <2>2. UNCHANGED <<orders, kitchen>>
    BY <2>1 DEF RequestPrint, Reprint
  <2>3. \A j \in Jobs : jobs[j].state # "unborn" =>
          jobs'[j].state = jobs[j].state /\ jobs'[j].version = jobs[j].version
    <3>1. ASSUME NEW o \in Orders, NEW v \in Versions, NEW j \in Jobs, RequestPrint(o, v, j)
          PROVE  \A i \in Jobs : i # j => jobs'[i] = jobs[i]
      BY <1>0, <3>1 DEF RequestPrint
    <3>2. ASSUME NEW p \in Jobs, NEW j \in Jobs, Reprint(p, j)
          PROVE  \A i \in Jobs : i # j =>
                   jobs'[i].state = jobs[i].state /\ jobs'[i].version = jobs[i].version
      <4>1. p # j
        BY <3>2 DEF Reprint, IsLatestAttempt, StoredJob
      <4>2. \A i \in Jobs : i \notin {p, j} => jobs'[i] = jobs[i]
        BY <1>0, <3>2 DEF Reprint
      <4>3. jobs'[p] = [jobs[p] EXCEPT !.superseded = @ \/ Live(p)]
        BY <1>0, <3>2, <4>1 DEF Reprint
      <4>4. jobs'[p].state = jobs[p].state /\ jobs'[p].version = jobs[p].version
        BY <1>0, <4>3 DEF JobRow
      <4> QED
        BY <4>2, <4>4
    <3> QED
      BY <2>1, <3>1, <3>2 DEF RequestPrint, Reprint
  <2>4. kitchen.pc = "write" => kitchen.job \in Jobs /\ jobs[kitchen.job].state # "unborn"
    BY WrittenJobIsBorn
  <2> QED
    BY <2>2, <2>3, <2>4 DEF ReadStands, StoredJob, Active
<1>8. CASE Tick \/ AgentPrints
    BY <1>1, <1>8 DEF Tick, AgentPrints
<1> QED
    BY <1>2, <1>3, <1>4, <1>5, <1>6, <1>7, <1>8
       DEF KitchenNext, CommonNext, KitchenStep, AgentStep

\* A write that finds its attempt open is the acknowledgement of OrderCore.
LEMMA CalmWriteAcknowledges ==
    ASSUME KitchenInv, ReadStands, AckWrites
    PROVE  Next \/ UNCHANGED coreVars
<1> DEFINE j == kitchen.job
           o == kitchen.order
           v == jobs[j].version
           row == kitchen.row
<1>0. /\ TypeOK /\ KitchenHolds /\ kitchen.pc = "write" /\ j \in Jobs
      /\ o \in Orders /\ row \in OrderRow
    BY DEF KitchenInv, KitchenHolds, AckWrites, KitchenTypeOK, Request
<1>1. CASE ~ Live(j)
    BY <1>1 DEF AckWrites, coreVars
<1>2. CASE Live(j)
  <2>1. /\ versions' = [versions EXCEPT ![v].confirmed = TRUE]
        /\ orders' = IF /\ ActivatedByPrint(row, v) # row
                        /\ orders[o].candidate = row.candidate
                        /\ orders[o].effective = row.effective
                     THEN [orders EXCEPT ![o] = ActivatedByPrint(row, v)]
                     ELSE orders
        /\ UNCHANGED pauses
    BY <1>2 DEF AckWrites
  <2>2. StoredJob(j) /\ jobs[j].order = o
    BY <1>0, <1>2 DEF Live, KitchenHolds
  <2>3. Owned(o, v) /\ v \in Versions
    BY <1>0, <2>2 DEF KitchenInv, JobsAreOwned, VersionsOf
  <2>4. /\ Active(o)
        /\ orders[o].candidate = v => orders[o] = row
        /\ orders[o].candidate = None /\ orders[o].effective = None => orders[o] = row
    BY <1>0, <2>2 DEF ReadStands
  <2>5. orders \in [Orders -> OrderRow] /\ v # None
    BY <1>0, <2>3, NoneAssumption DEF TypeOK
  <2> HIDE DEF o, v, row, j
  <2>6. orders' = [orders EXCEPT ![o] = ActivatedByPrint(orders[o], v)]
    <3>1. CASE orders[o] = row
      <4>1. CASE ActivatedByPrint(row, v) # row
        BY <2>1, <3>1, <4>1
      <4>2. CASE ActivatedByPrint(row, v) = row
        <5>1. orders' = orders
          BY <2>1, <4>2
        <5>2. [orders EXCEPT ![o] = orders[o]] = orders
          BY <1>0, <2>5
        <5> QED
          BY <3>1, <4>2, <5>1, <5>2
      <4> QED
        BY <4>1, <4>2
    <3>2. CASE orders[o] # row
      <4>1. /\ orders[o].candidate # v
            /\ ~ (orders[o].candidate = None /\ orders[o].effective = None)
        BY <2>4, <3>2
      <4>2. ActivatedByPrint(orders[o], v) = orders[o]
        BY <4>1 DEF ActivatedByPrint
      <4>3. ASSUME orders[o].candidate = row.candidate, orders[o].effective = row.effective
            PROVE  ActivatedByPrint(row, v) = row
        BY <4>1, <4>3 DEF ActivatedByPrint
      <4>4. orders' = orders
        BY <2>1, <4>3
      <4>5. [orders EXCEPT ![o] = orders[o]] = orders
        BY <1>0, <2>5
      <4> QED
        BY <4>2, <4>4, <4>5
    <3> QED
      BY <3>1, <3>2
  <2>7. AcknowledgePrint(o, v)
    BY <2>1, <2>3, <2>4, <2>6 DEF AcknowledgePrint
  <2> QED
    BY <1>0, <2>3, <2>7 DEF Next, OfficeNext
<1> QED
    BY <1>1, <1>2

\* Unless a Storno falls between its reads and its write, the acknowledgement that the
\* kitchen API takes apart is the one step OrderCore takes it for: whatever else the
\* office writes meanwhile, every behaviour of the kitchen and the office is one of
\* OrderCore, and its theorems hold of it.
THEOREM SplitAckImplementsOrderCore == CalmSpec => Spec
<1>1. KitchenInit => Init /\ KitchenInv /\ ReadStands
  <2>1. KitchenInit => ReadStands
    BY DEF KitchenInit, ReadStands, NoRequest
  <2> QED
    BY <2>1, InitKitchen DEF KitchenInit
<1>2. KitchenInv /\ ReadStands /\ [KitchenNext /\ StornoWaits]_kitchenVars
        => (KitchenInv /\ ReadStands)'
  <2>1. CASE UNCHANGED kitchenVars
    BY <2>1, KitchenInductive DEF kitchenVars, ReadStands, StoredJob, Active
  <2> QED
    BY <2>1, KitchenInductive, CalmReadStands
<1>3. KitchenInv /\ ReadStands /\ [KitchenNext /\ StornoWaits]_kitchenVars => [Next]_coreVars
  <2> SUFFICES ASSUME KitchenInv, ReadStands, [KitchenNext /\ StornoWaits]_kitchenVars
               PROVE  Next \/ UNCHANGED coreVars
    OBVIOUS
  <2>1. CASE HandlesOrder \/ \E o \in Orders : PurgesOrder(o)
    BY <2>1 DEF HandlesOrder, PurgesOrder, Next, OfficeNext
  <2>2. CASE \/ Tick \/ ClaimOldest \/ ClaimReadsOrder \/ RejectJob \/ AckReads \/ Reply
             \/ AgentStep \/ AgentCrashes \/ KitchenFails \/ UNCHANGED kitchenVars
    BY <2>2 DEF Tick, ClaimOldest, ClaimReadsOrder, RejectJob, AckReads, Reply,
       AgentStep, AgentPolls, AgentPrints, AgentReports, AgentCrashes, KitchenFails,
       kitchenVars, coreVars
  <2>3. CASE \E v \in Versions, j \in Jobs : ApiPrints(v, j) \/ PanelPrints(v, j)
    BY <2>3 DEF ApiPrints, PanelPrints, RequestPrint, Reprint, coreVars
  <2> QED
    BY <2>1, <2>2, <2>3, CalmWriteAcknowledges DEF KitchenNext, CommonNext, KitchenStep
<1> QED
    BY <1>1, <1>2, <1>3, PTL DEF CalmSpec, Spec

\* The Storno between the reads and the write is the only way back from one: where it
\* waits, a cancelled order is never active again.
THEOREM OnlyTheOvertakenAckUndoesAStorno == CalmSpec => StornoIsIrreversible
<1>1. [\A o \in Orders : orders[o].state = "cancelled" =>
         orders'[o] = orders[o] \/ orders'[o].state = "purged"]_coreVars
      => [\A o \in Orders : orders[o].state = "cancelled" =>
            orders'[o].state # "active"]_kitchenVars
    BY DEF coreVars, kitchenVars
<1> QED
    BY <1>1, SplitAckImplementsOrderCore, StornoIsFinal, PTL
       DEF CancellationIsFinal, StornoIsIrreversible

=============================================================================
