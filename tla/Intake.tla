-------------------------------- MODULE Intake --------------------------------
(****************************************************************************)
(* How requests of customers reach the Core.                                *)
(*   web    a visitor's form goes through a door (the Cloudflare Worker, the *)
(*          staging site, or the HTTP tool of the telephone assistant) to one *)
(*          of several receiver processes, which look the submission up and  *)
(*          then insert an inquiry.  Answers get lost, callers give up, the  *)
(*          processes restart, the visitor sends the same submission again.  *)
(*   phone  summaries of telephone calls arrive as mails; worker rounds read *)
(*          the newest of them and store calls, which the office turns into  *)
(*          an inquiry, a Richtangebot or a task.                            *)
(* Both write inquiries that carry an external reference, unique per source. *)
(* They use different references, so a behaviour follows one of the two.     *)
(****************************************************************************)
EXTENDS Naturals, FiniteSets

CONSTANTS
    Channels,      \* the channels to follow, of "web" and "phone"
    Submissions,   \* submission ids of the web forms
    Threads,       \* request threads of the doors
    Receivers,     \* receiver processes of the Core
    None,
    Mails,         \* bound: mails arrive as 1..Mails
    Resent,        \* the mails that repeat the call of the mail before
    Unreadable,    \* the mails the parser or the model's facts can never pass
    Dated,         \* the mails whose facts suffice for an inquiry
    MaxResults,    \* how many of the newest mails a round looks at
    Handled,       \* bound: the calls the office works on
    Workers,       \* worker processes: the service, an operator's --once
    MaxMade        \* bound of the tasks made of one call

ASSUME ChannelAssumption == Channels \subseteq {"web", "phone"}

ASSUME MailAssumption == /\ Mails \in Nat /\ MaxResults \in Nat \ {0} /\ MaxMade \in Nat
                         /\ Resent \subseteq 2..Mails /\ Unreadable \subseteq 1..Mails
                         /\ Handled \subseteq 1..Mails

ASSUME NoneAssumption == None \notin Threads \cup Submissions

VARIABLES
    channel,
    form,       \* per submission: the door, the contact given, what the visitor sees
    threads,    \* the doors' requests to the Core
    stray,      \* submissions with a request no door waits for any more
    receivers,  \* what each receiver process works on
    inquiries,  \* number of inquiry rows per external reference
    audit,      \* the staging site's copies of accepted submissions
    arrived,    \* mails that have arrived
    workers,    \* the round of each worker
    calls,      \* rows of ai_telefon_calls, by the mail they came from
    made        \* per call: its tasks and Richtangebote

webVars == <<form, threads, stray, receivers, audit>>
phoneVars == <<arrived, workers, calls, made>>
intakeVars == <<channel, inquiries, webVars, phoneVars>>

Doors == {"worker", "staging", "telephone"}

\* form.at: draft, waiting (for the answer of a thread), failed, accepted, refused.
Form == [door : Doors, contact : {"both", "one"},
         at : {"draft", "waiting", "failed", "accepted", "refused"},
         thread : Threads \cup {None}]

Thread == [step : {"idle", "posted", "forwarding", "confirmed"},
           sub : Submissions \cup {None}]

Receiver == [step : {"idle", "insert"}, sub : Submissions \cup {None},
             thread : Threads \cup {None}]

Resting == [step |-> "idle", sub |-> None]
Listening == [step |-> "idle", sub |-> None, thread |-> None]

-----------------------------------------------------------------------------
(* The unique indexes over source and external reference. *)

\* SQLiteInquiryRepository.save: a second row raises DuplicateExternalReference.
Insert(ref) == IF inquiries[ref] > 0 THEN inquiries
               ELSE [inquiries EXCEPT ![ref] = @ + 1]

-----------------------------------------------------------------------------
(* The visitor. *)

Shown(s, at) == [form EXCEPT ![s] = [@ EXCEPT !.at = at, !.thread = None]]

\* The Worker insists on email and phone, the staging site on one of them.
DoorRefuses(s) == form[s].door = "worker" /\ form[s].contact = "one"

\* The submission id stays the same until a success.
Submit(s, t) ==
    /\ form[s].at \in {"draft", "failed"}
    /\ threads[t].step = "idle"
    /\ IF DoorRefuses(s)
       THEN /\ form' = Shown(s, "refused")
            /\ UNCHANGED threads
       ELSE /\ form' = [form EXCEPT ![s] = [@ EXCEPT !.at = "waiting", !.thread = t]]
            /\ threads' = [threads EXCEPT ![t] = [step |-> "posted", sub |-> s]]
    /\ UNCHANGED <<stray, receivers, inquiries, audit>>

\* The browser gives up or the rate limiter turns the request away.
GivesUp(s) ==
    /\ form[s].at = "waiting"
    /\ form' = Shown(s, "failed")
    /\ UNCHANGED <<threads, stray, receivers, inquiries, audit>>

-----------------------------------------------------------------------------
(* The doors. *)

\* What the visitor of thread t sees; nobody may be waiting there any more.
Tells(t, at) == [s \in Submissions |->
    IF form[s].thread = t THEN [form[s] EXCEPT !.at = at, !.thread = None] ELSE form[s]]

\* CoreIntakeClient.forward times out; the receiver may yet read the request.
ForwardTimesOut(t) ==
    /\ threads[t].step \in {"posted", "forwarding"}
    /\ stray' = IF threads[t].step = "posted" THEN stray \cup {threads[t].sub} ELSE stray
    /\ receivers' = [r \in Receivers |-> IF receivers[r].thread # t THEN receivers[r]
                                        ELSE [receivers[r] EXCEPT !.thread = None]]
    /\ threads' = [threads EXCEPT ![t] = Resting]
    /\ form' = Tells(t, "failed")
    /\ UNCHANGED <<inquiries, audit>>

\* The staging site's copy, INSERT OR IGNORE.
Copied(s) == IF form[s].door = "staging" THEN audit \cup {s} ELSE audit

\* The Core has confirmed: the site stores its copy and the visitor is told.
Confirms(t) ==
    /\ threads[t].step = "confirmed"
    /\ audit' = Copied(threads[t].sub)
    /\ form' = Tells(t, "accepted")
    /\ threads' = [threads EXCEPT ![t] = Resting]
    /\ UNCHANGED <<stray, receivers, inquiries>>

\* The site restarts: its requests are gone, the Core finishes what it has begun.
DoorRestarts ==
    /\ \E t \in Threads : threads[t].step # "idle"
    /\ threads' = [t \in Threads |-> Resting]
    /\ receivers' = [r \in Receivers |-> [receivers[r] EXCEPT !.thread = None]]
    /\ form' = [s \in Submissions |->
         IF form[s].at = "waiting" THEN [form[s] EXCEPT !.at = "failed", !.thread = None]
         ELSE form[s]]
    /\ UNCHANGED <<stray, inquiries, audit>>

-----------------------------------------------------------------------------
(* The receivers: one request at a time each. *)

\* The answer to the thread, if it still waits.
Answer(t, accepted) ==
    IF t = None THEN UNCHANGED <<threads, form>>
    ELSE IF accepted
    THEN threads' = [threads EXCEPT ![t].step = "confirmed"] /\ UNCHANGED form
    ELSE threads' = [threads EXCEPT ![t] = Resting] /\ form' = Tells(t, "failed")

\* A known submission is answered at once, another goes on to the adapter.
LooksUp(r, s, t) ==
    IF inquiries[s] > 0
    THEN Answer(t, TRUE) /\ UNCHANGED receivers
    ELSE /\ receivers' = [receivers EXCEPT ![r] =
                            [step |-> "insert", sub |-> s, thread |-> t]]
         /\ threads' = IF t = None THEN threads ELSE [threads EXCEPT ![t].step = "forwarding"]
         /\ UNCHANGED form

Receive(r, t) ==
    /\ receivers[r].step = "idle"
    /\ threads[t].step = "posted"
    /\ LooksUp(r, threads[t].sub, t)
    /\ UNCHANGED <<stray, inquiries, audit>>

ReceiveStray(r, s) ==
    /\ receivers[r].step = "idle"
    /\ s \in stray
    /\ stray' = stray \ {s}
    /\ LooksUp(r, s, None)
    /\ UNCHANGED <<inquiries, audit>>

\* create_inquiry: a website form without email and phone is refused (400).
Complete(s) == form[s].door = "telephone" \/ form[s].contact = "both"

\* The adapter validates and inserts; a duplicate is answered like a new row.
InsertInquiry(r) ==
    LET w == receivers[r]
    IN  /\ w.step = "insert"
        /\ inquiries' = IF Complete(w.sub) THEN Insert(w.sub) ELSE inquiries
        /\ Answer(w.thread, Complete(w.sub))
        /\ receivers' = [receivers EXCEPT ![r] = Listening]
        /\ UNCHANGED <<stray, audit>>

ReceiverRestarts(r) ==
    /\ receivers[r].step # "idle"
    /\ Answer(receivers[r].thread, FALSE)
    /\ receivers' = [receivers EXCEPT ![r] = Listening]
    /\ UNCHANGED <<stray, inquiries, audit>>

-----------------------------------------------------------------------------
(* The mails and the worker. *)

\* The reference of a call: the id in the text of its mail.
StratoId(m) == IF m \in Resent THEN m - 1 ELSE m

NoCall == [rows |-> 0, status |-> "none", result |-> "none"]

CallRow == [rows : Nat, status : {"none", "NEW", "PROCESSED", "DONE"},
            result : {"none", "INQUIRY", "RICHTANGEBOT", "TASK", "LINKED"}]

Stored(m) == calls[m].rows > 0

\* find_by_strato_id
KnownCall(m) == \E n \in 1..Mails : Stored(n) /\ StratoId(n) = StratoId(m)

\* parse_strato_summary_mail and the checks of the facts pass.
Parses(m) == m \notin Unreadable

\* The mails whose call is still missing.
Waiting == {m \in 1..arrived : ~ KnownCall(m)}

Window == {m \in 1..arrived : m > arrived - MaxResults}

\* No more mails wait than one round looks at.
MailArrives ==
    /\ arrived < Mails
    /\ Cardinality(Waiting) < MaxResults
    /\ arrived' = arrived + 1
    /\ UNCHANGED <<workers, calls, made, inquiries>>

\* A round: the next mail and the last one of the list it got from the mailbox.
Round == [step : {"idle", "look", "facts"}, mail : Nat, last : Nat]

NoRound == [step |-> "idle", mail |-> 0, last |-> 0]

\* The list of a round, oldest mail first.
ListMails(w) ==
    /\ workers[w].step = "idle"
    /\ Window # {}
    /\ workers' = [workers EXCEPT ![w] =
         [step |-> "look", last |-> arrived,
          mail |-> CHOOSE m \in Window : \A n \in Window : m <= n]]
    /\ UNCHANGED <<arrived, calls, made, inquiries>>

\* The rest of the round.
Onward(w) == IF workers[w].mail = workers[w].last THEN NoRound
             ELSE [workers[w] EXCEPT !.step = "look", !.mail = @ + 1]

\* A mail or call that is known is skipped.  A mail that cannot be parsed ends
\* the round.
LookAt(w) ==
    LET m == workers[w].mail
    IN  /\ workers[w].step = "look"
        /\ workers' = [workers EXCEPT ![w] =
             IF Stored(m) THEN Onward(w)
             ELSE IF ~ Parses(m) THEN NoRound
             ELSE IF KnownCall(m) THEN Onward(w)
             ELSE [@ EXCEPT !.step = "facts"]]
        /\ UNCHANGED <<arrived, calls, made, inquiries>>

\* Faulty variant: the failure is logged and the round goes on.
SkipsMail(w) == Onward(w)

\* An exception leaves the loop over the mails.
EndsRound(w) == NoRound

\* The language model fails, or the worker is stopped.
FactsFail(w) ==
    /\ workers[w].step = "facts"
    /\ workers' = [workers EXCEPT ![w] = EndsRound(w)]
    /\ UNCHANGED <<arrived, calls, made, inquiries>>

\* Faulty variant: inserts what was unknown when the round looked.
WithCallBlindly(m) ==
    [calls EXCEPT ![m] = [rows |-> @.rows + 1, status |-> "NEW", result |-> "none"]]

\* AiTelefonCallService.ingest: a call or mail that is there by now is replayed.
WithCall(m) ==
    IF KnownCall(m) THEN calls
    ELSE [calls EXCEPT ![m] = [rows |-> @.rows + 1, status |-> "NEW", result |-> "none"]]

Ingest(w) ==
    /\ workers[w].step = "facts"
    /\ calls' = WithCall(workers[w].mail)
    /\ workers' = [workers EXCEPT ![w] = Onward(w)]
    /\ UNCHANGED <<arrived, made, inquiries>>

-----------------------------------------------------------------------------
(* The office works on the calls; each command is one transaction, sent from *)
(* a page that may be old.                                                   *)

Processed(c, result) ==
    [calls EXCEPT ![c] = [@ EXCEPT !.status = "PROCESSED", !.result = result]]

\* The facts hold the date, the name and the telephone number.
CanBeInquiry(c) == c \in Dated

ConvertToInquiry(c) ==
    /\ Stored(c)
    /\ calls[c].result # "INQUIRY"
    /\ CanBeInquiry(c)
    /\ inquiries' = Insert(StratoId(c))
    /\ calls' = Processed(c, "INQUIRY")
    /\ UNCHANGED <<arrived, workers, made>>

\* One Richtangebot per call: a second one finds the first.
WithRichtangebot(c) == [made EXCEPT ![c].richtangebote = IF @ = 0 THEN 1 ELSE @]

ConvertToRichtangebot(c) ==
    /\ calls[c].status = "NEW"
    /\ made' = WithRichtangebot(c)
    /\ calls' = Processed(c, "RICHTANGEBOT")
    /\ UNCHANGED <<arrived, workers, inquiries>>

WithTask(c) == [made EXCEPT ![c].tasks = @ + 1]

ConvertToTask(c) ==
    /\ Stored(c)
    /\ calls[c].result # "TASK"
    /\ made[c].tasks < MaxMade
    /\ made' = WithTask(c)
    /\ calls' = Processed(c, "TASK")
    /\ UNCHANGED <<arrived, workers, inquiries>>

LinkExisting(c) ==
    /\ Stored(c)
    /\ calls' = Processed(c, "LINKED")
    /\ UNCHANGED <<arrived, workers, made, inquiries>>

MarkDone(c) ==
    /\ Stored(c)
    /\ calls[c].status # "DONE"
    /\ calls' = [calls EXCEPT ![c].status = "DONE"]
    /\ UNCHANGED <<arrived, workers, made, inquiries>>

-----------------------------------------------------------------------------
References == Submissions \cup (1..Mails)

IntakeInit ==
    /\ channel \in Channels
    /\ form \in [Submissions -> {f \in Form : f.at = "draft" /\ f.thread = None}]
    /\ threads = [t \in Threads |-> Resting]
    /\ stray = {}
    /\ receivers = [r \in Receivers |-> Listening]
    /\ inquiries = [ref \in References |-> 0]
    /\ audit = {}
    /\ arrived = 0
    /\ workers = [w \in Workers |-> NoRound]
    /\ calls = [m \in 1..Mails |-> NoCall]
    /\ made = [m \in 1..Mails |-> [tasks |-> 0, richtangebote |-> 0]]

VisitorStep == \E s \in Submissions : GivesUp(s) \/ \E t \in Threads : Submit(s, t)

DoorStep == DoorRestarts \/ \E t \in Threads : ForwardTimesOut(t) \/ Confirms(t)

ReceiverStep == \E r \in Receivers :
    \/ InsertInquiry(r) \/ ReceiverRestarts(r)
    \/ \E t \in Threads : Receive(r, t)
    \/ \E s \in Submissions : ReceiveStray(r, s)

WorkerStep == \E w \in Workers : ListMails(w) \/ LookAt(w) \/ FactsFail(w) \/ Ingest(w)

OfficeStep == \E c \in Handled :
    ConvertToInquiry(c) \/ ConvertToRichtangebot(c) \/ ConvertToTask(c)
    \/ LinkExisting(c) \/ MarkDone(c)

Web(A) == channel = "web" /\ A /\ UNCHANGED <<channel, phoneVars>>

Phone(A) == channel = "phone" /\ A /\ UNCHANGED <<channel, webVars>>

IntakeNext ==
    \/ Web(VisitorStep) \/ Web(DoorStep) \/ Web(ReceiverStep)
    \/ Phone(MailArrives) \/ Phone(WorkerStep) \/ Phone(OfficeStep)

IntakeSpec == IntakeInit /\ [][IntakeNext]_intakeVars

\* Nothing fails for ever: a visitor who keeps trying is heard at times, and a
\* language model that fails answers at times.
Fairness ==
    /\ \A s \in Submissions :
         /\ WF_intakeVars(Web(\E t \in Threads : Submit(s, t)))
         /\ SF_intakeVars(Web(\E r \in Receivers, t \in Threads :
                                threads[t].sub = s /\ form[s].thread = t /\ Receive(r, t)))
         /\ SF_intakeVars(Web(\E r \in Receivers :
                                receivers[r].sub = s /\ InsertInquiry(r)))
         /\ SF_intakeVars(Web(\E t \in Threads : form[s].thread = t /\ Confirms(t)))
    /\ \A t \in Threads : WF_intakeVars(Web(ForwardTimesOut(t) \/ Confirms(t)))
    /\ \A r \in Receivers : WF_intakeVars(Web(InsertInquiry(r)))
    /\ \A w \in Workers :
         /\ WF_intakeVars(Phone(ListMails(w)))
         /\ WF_intakeVars(Phone(LookAt(w)))
         /\ SF_intakeVars(Phone(Ingest(w)))

FairIntakeSpec == IntakeSpec /\ Fairness

-----------------------------------------------------------------------------
(* Properties. *)

\* Type invariant.
IntakeTypeOK ==
    /\ form \in [Submissions -> Form]
    /\ threads \in [Threads -> Thread]
    /\ receivers \in [Receivers -> Receiver]
    /\ stray \subseteq Submissions /\ audit \subseteq Submissions
    /\ inquiries \in [References -> Nat]
    /\ workers \in [Workers -> Round]
    /\ \A w \in Workers : workers[w].mail <= workers[w].last /\ workers[w].last <= arrived
    /\ calls \in [1..Mails -> CallRow]

\* However often a submission is sent, answered late, looked up by two receivers
\* at once or a call converted again: no reference has two inquiries.
OneInquiryPerReference == \A ref \in References : inquiries[ref] <= 1

\* A visitor who is told that the form has arrived, and a copy in the staging
\* site's audit, have their inquiry in the Core.
AcceptedIsInTheCore ==
    \A s \in Submissions : form[s].at = "accepted" \/ s \in audit => inquiries[s] > 0

\* No call is stored twice, not by two workers in one round, nor when the mail
\* was sent again.
OneRowPerCall ==
    \A m, n \in 1..Mails :
        Stored(m) /\ Stored(n) /\ StratoId(m) = StratoId(n) => m = n /\ calls[m].rows = 1

\* A call that stands as NEW in the inbox is untouched: nothing was made of it.
NewIsUntouched ==
    \A c \in 1..Mails : calls[c].status = "NEW" =>
        made[c].tasks = 0 /\ made[c].richtangebote = 0 /\ inquiries[StratoId(c)] = 0

\* What is said to have come in has, and once: a form over two receivers, a mail
\* over two workers, and a call that is made into a task, an inquiry or an offer.
ArrivesOnce ==
    /\ IntakeTypeOK /\ AcceptedIsInTheCore
    /\ OneInquiryPerReference /\ OneRowPerCall /\ NewIsUntouched

\* A form with email and phone, and a request of the telephone assistant, that is
\* sent again and again is accepted in the end.
RetriedFormIsAccepted ==
    \A s \in Submissions :
        channel = "web" /\ (form[s].contact = "both" \/ form[s].door = "telephone")
            ~> form[s].at = "accepted"

\* Every mail becomes a call, unless an older unreadable mail bars the way: a
\* round that failed does not let newer mails push the older ones out of view.
EveryMailBecomesACall ==
    \A m \in 1..Mails : arrived >= m ~>
        KnownCall(m) \/ \E p \in Unreadable : p <= m /\ p \in Window

\* Whoever keeps asking is heard, in a form, on the phone or by mail.
EverybodyIsHeard == RetriedFormIsAccepted /\ EveryMailBecomesACall

=============================================================================
