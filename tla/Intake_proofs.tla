----------------------------- MODULE Intake_proofs -----------------------------
(* Proofs about the requests of customers, for any number of submissions, threads *)
(* of the doors, receivers, mails and workers.                                    *)
EXTENDS Intake, TLAPS

-----------------------------------------------------------------------------
(* The inductive invariant of the web forms. *)

WebTypes ==
    /\ form \in [Submissions -> Form]
    /\ threads \in [Threads -> Thread]
    /\ receivers \in [Receivers -> Receiver]
    /\ stray \subseteq Submissions /\ audit \subseteq Submissions
    /\ inquiries \in [References -> Nat]

\* A visitor waits for a thread that works on the visitor's own submission.
VisitorsHaveTheirThread ==
    \A s \in Submissions : form[s].thread # None =>
        /\ form[s].at = "waiting"
        /\ form[s].thread \in Threads
        /\ threads[form[s].thread].step # "idle"
        /\ threads[form[s].thread].sub = s

\* A receiver that will answer works on the submission of the thread it answers, and
\* is the only one that will answer it.
ReceiversHaveTheirThread ==
    /\ \A r \in Receivers : receivers[r].step = "insert" => receivers[r].sub \in Submissions
    /\ \A r \in Receivers : receivers[r].thread # None =>
         /\ receivers[r].step = "insert"
         /\ threads[receivers[r].thread].step = "forwarding"
         /\ threads[receivers[r].thread].sub = receivers[r].sub
    /\ \A q, r \in Receivers :
         receivers[q].thread = receivers[r].thread /\ receivers[q].thread # None => q = r

\* A thread is only told of a success when there is an inquiry.
ConfirmedIsInTheCore ==
    \A t \in Threads :
        /\ threads[t].step # "idle" => threads[t].sub \in Submissions
        /\ threads[t].step = "confirmed" => inquiries[threads[t].sub] > 0

WebInv ==
    /\ WebTypes
    /\ VisitorsHaveTheirThread /\ ReceiversHaveTheirThread /\ ConfirmedIsInTheCore
    /\ OneInquiryPerReference /\ AcceptedIsInTheCore

-----------------------------------------------------------------------------
(* The inductive invariant of the telephone calls. *)

PhoneTypes ==
    /\ arrived \in 0..Mails
    /\ workers \in [Workers -> Round]
    /\ \A w \in Workers : workers[w].mail <= workers[w].last /\ workers[w].last <= arrived
    /\ calls \in [1..Mails -> CallRow]
    /\ made \in [1..Mails -> [tasks : Nat, richtangebote : Nat]]

RoundsHaveAMail ==
    \A w \in Workers : workers[w].step # "idle" => workers[w].mail \in 1..Mails

\* Something is made of rows of the inbox only.
OnlyRowsAreWorkedOn ==
    \A m \in 1..Mails : calls[m].status # "none"
                        \/ made[m].tasks > 0 \/ made[m].richtangebote > 0 => Stored(m)

PhoneInv == PhoneTypes /\ RoundsHaveAMail /\ OnlyRowsAreWorkedOn /\ OneRowPerCall

-----------------------------------------------------------------------------
(* What holds of both: the references of calls get an inquiry from their rows.  *)

OneChannel ==
    /\ channel \in {"web", "phone"}
    /\ channel = "web" => \A m \in 1..Mails : ~ Stored(m)
    /\ channel = "phone" => \A m \in 1..Mails : inquiries[StratoId(m)] > 0 => KnownCall(m)

IntakeInv == WebInv /\ PhoneInv /\ OneChannel /\ NewIsUntouched

-----------------------------------------------------------------------------
(* The first state. *)

LEMMA StratoIdIsAMail == \A m \in 1..Mails : StratoId(m) \in 1..Mails /\ StratoId(m) \in References
  BY MailAssumption DEF StratoId, References

LEMMA InitIntake == IntakeInit => IntakeInv
<1> SUFFICES ASSUME IntakeInit PROVE IntakeInv
    OBVIOUS
<1> USE DEF IntakeInit
<1>1. WebTypes
  BY DEF WebTypes, Thread, Receiver, Resting, Listening, References
<1>2. VisitorsHaveTheirThread /\ ReceiversHaveTheirThread /\ ConfirmedIsInTheCore
  BY DEF VisitorsHaveTheirThread, ReceiversHaveTheirThread, ConfirmedIsInTheCore,
         Resting, Listening
<1>3. OneInquiryPerReference /\ AcceptedIsInTheCore
  BY DEF OneInquiryPerReference, AcceptedIsInTheCore
<1>4. PhoneTypes
  BY MailAssumption DEF PhoneTypes, Round, NoRound, CallRow, NoCall
<1>5. RoundsHaveAMail /\ OnlyRowsAreWorkedOn /\ OneRowPerCall
  BY DEF RoundsHaveAMail, OnlyRowsAreWorkedOn, OneRowPerCall, Stored, NoCall, NoRound
<1>6. OneChannel
  BY StratoIdIsAMail, ChannelAssumption DEF OneChannel, Stored, NoCall
<1>7. NewIsUntouched
  BY DEF NewIsUntouched, NoCall
<1> QED
  BY <1>1, <1>2, <1>3, <1>4, <1>5, <1>6, <1>7 DEF IntakeInv, WebInv, PhoneInv

-----------------------------------------------------------------------------
(* The web forms. *)

\* A second row of a reference is refused, and none goes.
LEMMA InsertCounts ==
    ASSUME WebTypes, OneInquiryPerReference, NEW ref \in References
    PROVE  /\ Insert(ref) \in [References -> Nat]
           /\ Insert(ref)[ref] > 0
           /\ \A x \in References : Insert(ref)[x] <= 1
           /\ \A x \in References : inquiries[x] > 0 => Insert(ref)[x] > 0
           /\ \A x \in References : x # ref => Insert(ref)[x] = inquiries[x]
  BY DEF WebTypes, OneInquiryPerReference, Insert

\* What a thread tells reaches the visitor who waits for it.
LEMMA TellsTheVisitor ==
    ASSUME WebTypes, NEW t \in Threads, NEW at \in {"failed", "accepted"}
    PROVE  /\ Tells(t, at) \in [Submissions -> Form]
           /\ \A s \in Submissions : form[s].thread = t =>
                Tells(t, at)[s].at = at /\ Tells(t, at)[s].thread = None
           /\ \A s \in Submissions : form[s].thread # t => Tells(t, at)[s] = form[s]
<1>1. ASSUME NEW f \in Form PROVE [f EXCEPT !.at = at, !.thread = None] \in Form
    BY DEF Form
<1>2. ASSUME NEW f \in Form
      PROVE  /\ [f EXCEPT !.at = at, !.thread = None].at = at
             /\ [f EXCEPT !.at = at, !.thread = None].thread = None
    BY DEF Form
<1>3. \A s \in Submissions : form[s] \in Form
    BY DEF WebTypes
<1> QED
    BY <1>1, <1>2, <1>3 DEF Tells

LEMMA ShownForms ==
    ASSUME WebTypes, NEW s \in Submissions, NEW at \in {"failed", "refused"},
           form' = Shown(s, at)
    PROVE  /\ form' \in [Submissions -> Form]
           /\ form'[s].at = at /\ form'[s].thread = None
           /\ \A x \in Submissions : x # s => form'[x] = form[x]
<1>1. PICK f : f = [form[s] EXCEPT !.at = at, !.thread = None]
    OBVIOUS
<1>2. form[s] \in Form
    BY DEF WebTypes
<1>3. f \in Form /\ f.at = at /\ f.thread = None
    BY <1>1, <1>2 DEF Form
<1>4. form' = [form EXCEPT ![s] = f]
    BY <1>1 DEF Shown
<1> QED
    BY <1>3, <1>4 DEF WebTypes

\* A visitor who stops waiting changes nothing for the others.
LEMMA LeavesKeeps ==
    ASSUME WebInv, NEW s \in Submissions, NEW at \in {"failed", "refused"},
           form' = Shown(s, at),
           UNCHANGED <<threads, stray, receivers, inquiries, audit>>
    PROVE  WebInv'
<1>0. WebTypes
    BY DEF WebInv
<1>1. /\ form' \in [Submissions -> Form]
      /\ form'[s].at = at /\ form'[s].thread = None
      /\ \A x \in Submissions : x # s => form'[x] = form[x]
    BY <1>0, ShownForms
<1>2. WebTypes'
    BY <1>0, <1>1 DEF WebTypes
<1>3. VisitorsHaveTheirThread'
    BY <1>1 DEF WebInv, VisitorsHaveTheirThread
<1>4. ReceiversHaveTheirThread' /\ ConfirmedIsInTheCore' /\ OneInquiryPerReference'
    BY DEF WebInv, ReceiversHaveTheirThread, ConfirmedIsInTheCore, OneInquiryPerReference
<1>5. AcceptedIsInTheCore'
    BY <1>1 DEF WebInv, AcceptedIsInTheCore
<1> QED
    BY <1>2, <1>3, <1>4, <1>5 DEF WebInv

LEMMA SubmitKeeps ==
    ASSUME WebInv, NEW s \in Submissions, NEW t \in Threads, Submit(s, t)
    PROVE  WebInv'
<1>1. CASE DoorRefuses(s)
  <2>1. form' = Shown(s, "refused") /\ UNCHANGED <<threads, stray, receivers, inquiries, audit>>
    BY <1>1 DEF Submit
  <2> QED
    BY <2>1, LeavesKeeps
<1>2. CASE ~ DoorRefuses(s)
  <2>1. /\ form[s].at \in {"draft", "failed"} /\ threads[t].step = "idle"
        /\ UNCHANGED <<stray, receivers, inquiries, audit>>
    BY <1>2 DEF Submit
  <2>2. form[s] \in Form /\ form \in [Submissions -> Form] /\ threads \in [Threads -> Thread]
    BY DEF WebInv, WebTypes
  <2>3. PICK f : f = [form[s] EXCEPT !.at = "waiting", !.thread = t]
    OBVIOUS
  <2>4. f \in Form /\ f.at = "waiting" /\ f.thread = t
    BY <2>2, <2>3 DEF Form
  <2>5. form' = [form EXCEPT ![s] = f]
    BY <1>2, <2>3 DEF Submit
  <2>6. /\ form' \in [Submissions -> Form] /\ form'[s].at = "waiting" /\ form'[s].thread = t
        /\ \A x \in Submissions : x # s => form'[x] = form[x]
    BY <2>2, <2>4, <2>5
  <2>7. threads' = [threads EXCEPT ![t] = [step |-> "posted", sub |-> s]]
    BY <1>2 DEF Submit
  <2>8. /\ threads' \in [Threads -> Thread]
        /\ threads'[t].step = "posted" /\ threads'[t].sub = s
        /\ \A x \in Threads : x # t => threads'[x] = threads[x]
    BY <2>2, <2>7 DEF Thread
  <2> HIDE <2>3, <2>5, <2>7
  <2>9. WebTypes'
    BY <2>1, <2>6, <2>8 DEF WebInv, WebTypes
  <2>10. VisitorsHaveTheirThread'
    BY <2>1, <2>6, <2>8 DEF WebInv, VisitorsHaveTheirThread
  <2>11. ReceiversHaveTheirThread'
    <3>1. \A r \in Receivers : receivers[r].thread # t
      BY <2>1, NoneAssumption DEF WebInv, ReceiversHaveTheirThread
    <3>2. \A r \in Receivers : receivers[r].thread \in Threads \cup {None}
      BY DEF WebInv, WebTypes, Receiver
    <3> QED
      BY <2>1, <2>8, <3>1, <3>2 DEF WebInv, ReceiversHaveTheirThread
  <2>12. ConfirmedIsInTheCore'
    BY <2>1, <2>8 DEF WebInv, ConfirmedIsInTheCore
  <2>13. OneInquiryPerReference' /\ AcceptedIsInTheCore'
    BY <2>1, <2>6 DEF WebInv, OneInquiryPerReference, AcceptedIsInTheCore
  <2> QED
    BY <2>9, <2>10, <2>11, <2>12, <2>13 DEF WebInv
<1> QED
    BY <1>1, <1>2

LEMMA GivesUpKeeps ==
    ASSUME WebInv, NEW s \in Submissions, GivesUp(s)
    PROVE  WebInv'
    BY LeavesKeeps DEF GivesUp

-----------------------------------------------------------------------------
(* Answers to the threads of the doors. *)

\* Inquiries are only added, and no second one of a reference.
CoreGrows ==
    /\ inquiries' \in [References -> Nat]
    /\ \A ref \in References : inquiries[ref] > 0 => inquiries'[ref] > 0
    /\ \A ref \in References : inquiries'[ref] <= 1

\* A receiver goes on as it was, is done, or has lost the thread it would have told.
GoesOn(r) ==
    \/ receivers'[r] = receivers[r]
    \/ receivers'[r] = Listening
    \/ /\ receivers'[r].thread = None
       /\ receivers'[r].step = receivers[r].step /\ receivers'[r].sub = receivers[r].sub

LEMMA CoreStays == ASSUME WebInv, UNCHANGED inquiries PROVE CoreGrows
    BY DEF WebInv, WebTypes, OneInquiryPerReference, CoreGrows

LEMMA AcceptedStays ==
    ASSUME WebInv, CoreGrows,
           \A s \in Submissions : form'[s].at = "accepted" =>
             form[s].at = "accepted" \/ inquiries'[s] > 0,
           \A s \in audit' : s \in Submissions /\ (s \in audit \/ inquiries'[s] > 0)
    PROVE  OneInquiryPerReference' /\ AcceptedIsInTheCore'
    BY DEF WebInv, CoreGrows, OneInquiryPerReference, AcceptedIsInTheCore, References

\* A thread is done, and its visitor told.
LEMMA ThreadEnds ==
    ASSUME WebInv, CoreGrows, NEW t \in Threads, NEW at \in {"failed", "accepted"},
           threads[t].step # "idle",
           form' = Tells(t, at), threads' = [threads EXCEPT ![t] = Resting],
           receivers' \in [Receivers -> Receiver],
           \A r \in Receivers : GoesOn(r) /\ receivers'[r].thread # t,
           at = "accepted" => inquiries'[threads[t].sub] > 0,
           \A s \in audit' : s \in Submissions /\ (s \in audit \/ inquiries'[s] > 0),
           stray' \subseteq Submissions
    PROVE  WebInv'
<1>0. WebTypes /\ t # None
    BY NoneAssumption DEF WebInv
<1>1. /\ form' \in [Submissions -> Form]
      /\ \A s \in Submissions : form[s].thread = t =>
           form'[s].at = at /\ form'[s].thread = None
      /\ \A s \in Submissions : form[s].thread # t => form'[s] = form[s]
    BY <1>0, TellsTheVisitor
<1>2. /\ threads' \in [Threads -> Thread] /\ threads'[t] = Resting
      /\ \A x \in Threads : x # t => threads'[x] = threads[x]
    BY <1>0 DEF WebTypes, Thread, Resting
<1>3. WebTypes'
    BY <1>0, <1>1, <1>2 DEF WebTypes, CoreGrows
<1>4. VisitorsHaveTheirThread'
    BY <1>1, <1>2 DEF WebInv, VisitorsHaveTheirThread
<1>5. ReceiversHaveTheirThread'
  <2>1. \A r \in Receivers : receivers'[r].thread \in {receivers[r].thread, None}
    BY DEF GoesOn, Listening
  <2>2. \A r \in Receivers : receivers'[r].step = "insert" =>
          receivers[r].step = "insert" /\ receivers'[r].sub = receivers[r].sub
    BY DEF GoesOn, Listening
  <2>3. \A r \in Receivers : receivers'[r].thread # None =>
          /\ receivers'[r] = receivers[r] /\ receivers[r].thread \in Threads
          /\ threads'[receivers[r].thread] = threads[receivers[r].thread]
    BY <1>0, <1>2 DEF GoesOn, Listening, WebTypes, Receiver
  <2> QED
    BY <2>1, <2>2, <2>3 DEF WebInv, ReceiversHaveTheirThread
<1>6. ConfirmedIsInTheCore'
  <2>1. \A x \in Threads : threads[x].step # "idle" => threads[x].sub \in References
    BY DEF WebInv, ConfirmedIsInTheCore, References
  <2> QED
    BY <1>2, <2>1 DEF WebInv, ConfirmedIsInTheCore, CoreGrows, Resting
<1>7. \A s \in Submissions : form'[s].at = "accepted" =>
        form[s].at = "accepted" \/ inquiries'[s] > 0
    BY <1>0, <1>1 DEF WebInv, VisitorsHaveTheirThread
<1> QED
    BY <1>3, <1>4, <1>5, <1>6, <1>7, AcceptedStays DEF WebInv

\* The thread of a request that succeeded.
LEMMA ThreadIsConfirmed ==
    ASSUME WebInv, CoreGrows, NEW t \in Threads, threads[t].step # "idle",
           inquiries'[threads[t].sub] > 0,
           threads' = [threads EXCEPT ![t].step = "confirmed"],
           receivers' \in [Receivers -> Receiver],
           \A r \in Receivers : GoesOn(r) /\ receivers'[r].thread # t,
           UNCHANGED <<form, audit>>, stray' \subseteq Submissions
    PROVE  WebInv'
<1>0. WebTypes /\ t # None
    BY NoneAssumption DEF WebInv
<1>1. /\ threads' \in [Threads -> Thread]
      /\ threads'[t].step = "confirmed" /\ threads'[t].sub = threads[t].sub
      /\ \A x \in Threads : x # t => threads'[x] = threads[x]
    BY <1>0 DEF WebTypes, Thread
<1>2. WebTypes'
    BY <1>0, <1>1 DEF WebTypes, CoreGrows
<1>3. VisitorsHaveTheirThread'
    BY <1>1 DEF WebInv, VisitorsHaveTheirThread
<1>4. ReceiversHaveTheirThread'
  <2>1. \A r \in Receivers : receivers'[r].thread \in {receivers[r].thread, None}
    BY DEF GoesOn, Listening
  <2>2. \A r \in Receivers : receivers'[r].step = "insert" =>
          receivers[r].step = "insert" /\ receivers'[r].sub = receivers[r].sub
    BY DEF GoesOn, Listening
  <2>3. \A r \in Receivers : receivers'[r].thread # None =>
          /\ receivers'[r] = receivers[r] /\ receivers[r].thread \in Threads
          /\ threads'[receivers[r].thread] = threads[receivers[r].thread]
    BY <1>0, <1>1 DEF GoesOn, Listening, WebTypes, Receiver
  <2> QED
    BY <2>1, <2>2, <2>3 DEF WebInv, ReceiversHaveTheirThread
<1>5. ConfirmedIsInTheCore'
  <2>1. \A x \in Threads : threads[x].step # "idle" => threads[x].sub \in References
    BY DEF WebInv, ConfirmedIsInTheCore, References
  <2> QED
    BY <1>1, <2>1 DEF WebInv, ConfirmedIsInTheCore, CoreGrows
<1> QED
    BY <1>2, <1>3, <1>4, <1>5, AcceptedStays DEF WebInv, WebTypes

\* A receiver that nobody waits for is done.
LEMMA NobodyIsTold ==
    ASSUME WebInv, CoreGrows, UNCHANGED <<threads, form, audit>>,
           receivers' \in [Receivers -> Receiver],
           \A r \in Receivers : GoesOn(r), stray' \subseteq Submissions
    PROVE  WebInv'
<1>0. WebTypes
    BY DEF WebInv
<1>1. WebTypes'
    BY <1>0 DEF WebTypes, CoreGrows
<1>2. VisitorsHaveTheirThread'
    BY DEF WebInv, VisitorsHaveTheirThread
<1>3. ReceiversHaveTheirThread'
    BY DEF WebInv, ReceiversHaveTheirThread, GoesOn, Listening
<1>4. ConfirmedIsInTheCore'
  <2>1. \A x \in Threads : threads[x].step # "idle" => threads[x].sub \in References
    BY DEF WebInv, ConfirmedIsInTheCore, References
  <2> QED
    BY <2>1 DEF WebInv, ConfirmedIsInTheCore, CoreGrows
<1> QED
    BY <1>1, <1>2, <1>3, <1>4, AcceptedStays DEF WebInv, WebTypes

\* The answer of a receiver that is done with its request.
LEMMA AnswerKeeps ==
    ASSUME WebInv, CoreGrows, NEW t \in Threads \cup {None}, NEW accepted \in BOOLEAN,
           Answer(t, accepted), UNCHANGED audit, stray' \subseteq Submissions,
           t # None => /\ threads[t].step # "idle"
                       /\ accepted => inquiries'[threads[t].sub] > 0,
           receivers' \in [Receivers -> Receiver],
           \A r \in Receivers : GoesOn(r) /\ (t # None => receivers'[r].thread # t)
    PROVE  WebInv'
<1>1. CASE t = None
    BY <1>1, NobodyIsTold DEF Answer
<1>2. CASE t # None /\ accepted
  <2>1. threads' = [threads EXCEPT ![t].step = "confirmed"] /\ form' = form
    BY <1>2 DEF Answer
  <2> QED
    BY <1>2, <2>1, ThreadIsConfirmed
<1>3. CASE t # None /\ ~ accepted
  <2>1. threads' = [threads EXCEPT ![t] = Resting] /\ form' = Tells(t, "failed")
    BY <1>3 DEF Answer
  <2>2. \A s \in audit' : s \in Submissions /\ (s \in audit \/ inquiries'[s] > 0)
    BY DEF WebInv, WebTypes
  <2> QED
    BY <1>3, <2>1, <2>2, ThreadEnds
<1> QED
    BY <1>1, <1>2, <1>3

-----------------------------------------------------------------------------
(* The steps of the doors and the receivers. *)

LEMMA ForwardTimesOutKeeps ==
    ASSUME WebInv, NEW t \in Threads, ForwardTimesOut(t)
    PROVE  WebInv'
<1>1. /\ threads[t].step # "idle" /\ UNCHANGED <<inquiries, audit>>
      /\ threads' = [threads EXCEPT ![t] = Resting] /\ form' = Tells(t, "failed")
    BY DEF ForwardTimesOut
<1>2. CoreGrows
    BY <1>1, CoreStays
<1>3. stray' \subseteq Submissions
    BY DEF ForwardTimesOut, WebInv, WebTypes, ConfirmedIsInTheCore
<1>4. ASSUME NEW r \in Receivers
      PROVE  receivers'[r] \in Receiver /\ GoesOn(r) /\ receivers'[r].thread # t
  <2>1. receivers[r] \in Receiver
    BY DEF WebInv, WebTypes
  <2>2. receivers'[r] = IF receivers[r].thread # t THEN receivers[r]
                        ELSE [receivers[r] EXCEPT !.thread = None]
    BY DEF ForwardTimesOut
  <2> QED
    BY <2>1, <2>2, NoneAssumption DEF GoesOn, Receiver
<1>5. receivers' \in [Receivers -> Receiver]
  <2>1. receivers' = [r \in Receivers |-> receivers'[r]]
    BY DEF ForwardTimesOut
  <2> QED
    BY <1>4, <2>1
<1>6. \A s \in audit' : s \in Submissions /\ (s \in audit \/ inquiries'[s] > 0)
    BY <1>1 DEF WebInv, WebTypes
<1> QED
    BY <1>1, <1>2, <1>3, <1>4, <1>5, <1>6, ThreadEnds

LEMMA ConfirmsKeeps ==
    ASSUME WebInv, NEW t \in Threads, Confirms(t)
    PROVE  WebInv'
<1>1. /\ threads[t].step = "confirmed" /\ UNCHANGED <<stray, receivers, inquiries>>
      /\ threads' = [threads EXCEPT ![t] = Resting] /\ form' = Tells(t, "accepted")
    BY DEF Confirms
<1>2. CoreGrows
    BY <1>1, CoreStays
<1>3. threads[t].sub \in Submissions /\ inquiries'[threads[t].sub] > 0
    BY <1>1 DEF WebInv, ConfirmedIsInTheCore
<1>4. \A s \in audit' : s \in Submissions /\ (s \in audit \/ inquiries'[s] > 0)
    BY <1>3 DEF Confirms, Copied, WebInv, WebTypes
<1>5. \A r \in Receivers : GoesOn(r) /\ receivers'[r].thread # t
    BY <1>1, NoneAssumption DEF GoesOn, WebInv, ReceiversHaveTheirThread
<1>6. receivers' \in [Receivers -> Receiver] /\ stray' \subseteq Submissions
    BY <1>1 DEF WebInv, WebTypes
<1> QED
    BY <1>1, <1>2, <1>3, <1>4, <1>5, <1>6, ThreadEnds

LEMMA DoorRestartsKeeps ==
    ASSUME WebInv, DoorRestarts
    PROVE  WebInv'
<1>0. WebTypes
    BY DEF WebInv
<1>1. /\ threads' = [t \in Threads |-> Resting] /\ UNCHANGED <<stray, inquiries, audit>>
    BY DEF DoorRestarts
<1>2. \A s \in Submissions :
        /\ form'[s] \in Form /\ form'[s].thread = None
        /\ form'[s].at = "accepted" => form[s].at = "accepted"
  <2>1. ASSUME NEW s \in Submissions
        PROVE  /\ form'[s] \in Form /\ form'[s].thread = None
               /\ form'[s].at = "accepted" => form[s].at = "accepted"
    <3>1. form[s] \in Form
      BY <1>0 DEF WebTypes
    <3>2. form'[s] = IF form[s].at = "waiting"
                     THEN [form[s] EXCEPT !.at = "failed", !.thread = None] ELSE form[s]
      BY DEF DoorRestarts
    <3>3. form[s].at # "waiting" => form[s].thread = None
      BY DEF WebInv, VisitorsHaveTheirThread
    <3>4. CASE form[s].at = "waiting"
      <4>1. form'[s] = [form[s] EXCEPT !.at = "failed", !.thread = None]
        BY <3>2, <3>4
      <4> QED
        BY <3>1, <4>1 DEF Form
    <3>5. CASE form[s].at # "waiting"
      BY <3>1, <3>2, <3>3, <3>5
    <3> QED
      BY <3>4, <3>5
  <2> QED
    BY <2>1
<1>3. \A r \in Receivers :
        /\ receivers'[r] \in Receiver /\ receivers'[r].thread = None
        /\ receivers'[r].step = receivers[r].step /\ receivers'[r].sub = receivers[r].sub
  <2>1. ASSUME NEW r \in Receivers
        PROVE  /\ receivers'[r] \in Receiver /\ receivers'[r].thread = None
               /\ receivers'[r].step = receivers[r].step
               /\ receivers'[r].sub = receivers[r].sub
    <3>1. receivers[r] \in Receiver
      BY <1>0 DEF WebTypes
    <3>2. receivers'[r] = [receivers[r] EXCEPT !.thread = None]
      BY DEF DoorRestarts
    <3> QED
      BY <3>1, <3>2 DEF Receiver
  <2> QED
    BY <2>1
<1>4. form' = [s \in Submissions |-> form'[s]] /\ receivers' = [r \in Receivers |-> receivers'[r]]
    BY DEF DoorRestarts
<1>5. WebTypes'
    BY <1>0, <1>1, <1>2, <1>3, <1>4 DEF WebTypes, Thread, Resting
<1>6. VisitorsHaveTheirThread' /\ ConfirmedIsInTheCore'
    BY <1>1, <1>2 DEF VisitorsHaveTheirThread, ConfirmedIsInTheCore, Resting
<1>7. ReceiversHaveTheirThread'
    BY <1>3 DEF WebInv, ReceiversHaveTheirThread
<1>8. OneInquiryPerReference' /\ AcceptedIsInTheCore'
    BY <1>1, <1>2 DEF WebInv, OneInquiryPerReference, AcceptedIsInTheCore
<1> QED
    BY <1>5, <1>6, <1>7, <1>8 DEF WebInv

\* A receiver takes a request that no other answers: it answers at once or goes on to
\* insert.
LEMMA LooksUpKeeps ==
    ASSUME WebInv, NEW r \in Receivers, NEW s \in Submissions,
           NEW t \in Threads \cup {None}, LooksUp(r, s, t),
           receivers[r].step = "idle",
           t # None => threads[t].step = "posted" /\ threads[t].sub = s,
           UNCHANGED <<inquiries, audit>>, stray' \subseteq Submissions
    PROVE  WebInv'
<1>0. WebTypes /\ CoreGrows
    BY CoreStays DEF WebInv
<1>1. \A q \in Receivers : t # None => receivers[q].thread # t
    BY DEF WebInv, ReceiversHaveTheirThread
<1>2. CASE inquiries[s] > 0
  <2>1. Answer(t, TRUE) /\ receivers' = receivers
    BY <1>2 DEF LooksUp
  <2>2. \A q \in Receivers : GoesOn(q)
    BY <2>1 DEF GoesOn
  <2>3. receivers' \in [Receivers -> Receiver]
    BY <1>0, <2>1 DEF WebTypes
  <2> QED
    BY <1>0, <1>1, <1>2, <2>1, <2>2, <2>3, AnswerKeeps
<1>3. CASE ~ (inquiries[s] > 0)
  <2>1. /\ receivers' = [receivers EXCEPT ![r] = [step |-> "insert", sub |-> s, thread |-> t]]
        /\ threads' = IF t = None THEN threads ELSE [threads EXCEPT ![t].step = "forwarding"]
        /\ form' = form
    BY <1>3 DEF LooksUp
  <2>2. /\ receivers' \in [Receivers -> Receiver]
        /\ receivers'[r].step = "insert" /\ receivers'[r].sub = s /\ receivers'[r].thread = t
        /\ \A q \in Receivers : q # r => receivers'[q] = receivers[q]
    BY <1>0, <2>1 DEF WebTypes, Receiver
  <2>3. /\ threads' \in [Threads -> Thread]
        /\ \A x \in Threads : threads'[x].sub = threads[x].sub
        /\ \A x \in Threads : x # t => threads'[x] = threads[x]
        /\ t # None => threads'[t].step = "forwarding" /\ t \in Threads
    BY <1>0, <2>1 DEF WebTypes, Thread
  <2> HIDE <2>1
  <2>4. form' = form
    BY <2>1
  <2>5. WebTypes'
    BY <1>0, <2>2, <2>3, <2>4 DEF WebTypes
  <2>6. VisitorsHaveTheirThread'
    BY <2>3, <2>4 DEF WebInv, VisitorsHaveTheirThread
  <2>7. ReceiversHaveTheirThread'
    <3>1. \A q \in Receivers : receivers[q].thread # None =>
            receivers[q].thread \in Threads /\ receivers[q].thread # t
      BY <1>0, <1>1 DEF WebTypes, Receiver
    <3>2. \A q \in Receivers : receivers'[q].step = "insert" => receivers'[q].sub \in Submissions
      BY <2>2 DEF WebInv, ReceiversHaveTheirThread
    <3>3. \A q \in Receivers : receivers'[q].thread # None =>
            /\ receivers'[q].step = "insert"
            /\ threads'[receivers'[q].thread].step = "forwarding"
            /\ threads'[receivers'[q].thread].sub = receivers'[q].sub
      BY <2>2, <2>3, <3>1 DEF WebInv, ReceiversHaveTheirThread
    <3>4. \A p, q \in Receivers :
            receivers'[p].thread = receivers'[q].thread /\ receivers'[p].thread # None => p = q
      BY <2>2, <3>1 DEF WebInv, ReceiversHaveTheirThread
    <3> QED
      BY <3>2, <3>3, <3>4 DEF ReceiversHaveTheirThread
  <2>8. ConfirmedIsInTheCore'
    BY <2>3, NoneAssumption DEF WebInv, ConfirmedIsInTheCore
  <2>9. OneInquiryPerReference' /\ AcceptedIsInTheCore'
    BY <2>4 DEF WebInv, OneInquiryPerReference, AcceptedIsInTheCore
  <2> QED
    BY <2>5, <2>6, <2>7, <2>8, <2>9 DEF WebInv
<1> QED
    BY <1>2, <1>3

LEMMA ReceiveKeeps ==
    ASSUME WebInv, NEW r \in Receivers, NEW t \in Threads, Receive(r, t)
    PROVE  WebInv'
<1>1. /\ receivers[r].step = "idle" /\ threads[t].step = "posted"
      /\ LooksUp(r, threads[t].sub, t) /\ UNCHANGED <<stray, inquiries, audit>>
    BY DEF Receive
<1>2. threads[t].sub \in Submissions /\ stray' \subseteq Submissions
    BY <1>1 DEF WebInv, WebTypes, ConfirmedIsInTheCore
<1> QED
    BY <1>1, <1>2, LooksUpKeeps

LEMMA ReceiveStrayKeeps ==
    ASSUME WebInv, NEW r \in Receivers, NEW s \in Submissions, ReceiveStray(r, s)
    PROVE  WebInv'
<1>1. /\ receivers[r].step = "idle" /\ LooksUp(r, s, None)
      /\ UNCHANGED <<inquiries, audit>> /\ stray' \subseteq Submissions
    BY DEF ReceiveStray, WebInv, WebTypes
<1> QED
    BY <1>1, LooksUpKeeps

\* The receiver is done with its request and tells the thread that waits, if one does.
LEMMA ReceiverEnds ==
    ASSUME WebInv, CoreGrows, NEW r \in Receivers, NEW accepted \in BOOLEAN,
           receivers[r].step = "insert", Answer(receivers[r].thread, accepted),
           accepted => inquiries'[receivers[r].sub] > 0,
           receivers' = [receivers EXCEPT ![r] = Listening], UNCHANGED <<stray, audit>>
    PROVE  WebInv'
<1> DEFINE t == receivers[r].thread
<1>1. receivers \in [Receivers -> Receiver] /\ stray' \subseteq Submissions
    BY DEF WebInv, WebTypes
<1>2. t \in Threads \cup {None} /\ receivers' \in [Receivers -> Receiver]
    BY <1>1 DEF Receiver, Listening
<1>3. \A q \in Receivers : GoesOn(q) /\ (t # None => receivers'[q].thread # t)
    BY <1>1 DEF WebInv, ReceiversHaveTheirThread, GoesOn, Listening
<1>4. t # None => /\ threads[t].step # "idle"
                  /\ accepted => inquiries'[threads[t].sub] > 0
    BY DEF WebInv, ReceiversHaveTheirThread
<1> QED
    BY <1>1, <1>2, <1>3, <1>4, AnswerKeeps

LEMMA InsertInquiryKeeps ==
    ASSUME WebInv, NEW r \in Receivers, InsertInquiry(r)
    PROVE  WebInv'
<1>1. receivers[r].step = "insert" /\ receivers[r].sub \in References
    BY DEF InsertInquiry, WebInv, ReceiversHaveTheirThread, References
<1>2. CoreGrows /\ (Complete(receivers[r].sub) => inquiries'[receivers[r].sub] > 0)
  <2>1. CASE Complete(receivers[r].sub)
    <3>1. inquiries' = Insert(receivers[r].sub)
      BY <2>1 DEF InsertInquiry
    <3> QED
      BY <1>1, <2>1, <3>1, InsertCounts DEF CoreGrows, WebInv
  <2>2. CASE ~ Complete(receivers[r].sub)
    BY <2>2, CoreStays DEF InsertInquiry
  <2> QED
    BY <2>1, <2>2
<1>3. /\ Answer(receivers[r].thread, Complete(receivers[r].sub))
      /\ receivers' = [receivers EXCEPT ![r] = Listening] /\ UNCHANGED <<stray, audit>>
      /\ Complete(receivers[r].sub) \in BOOLEAN
    BY DEF InsertInquiry, Complete
<1> QED
    BY <1>1, <1>2, <1>3, ReceiverEnds

LEMMA ReceiverRestartsKeeps ==
    ASSUME WebInv, NEW r \in Receivers, ReceiverRestarts(r)
    PROVE  WebInv'
<1>1. /\ receivers[r].step = "insert" /\ Answer(receivers[r].thread, FALSE)
      /\ receivers' = [receivers EXCEPT ![r] = Listening]
      /\ UNCHANGED <<stray, inquiries, audit>>
    BY DEF ReceiverRestarts, WebInv, WebTypes, Receiver
<1> QED
    BY <1>1, CoreStays, ReceiverEnds

\* The steps of the web forms together.
LEMMA WebKeeps ==
    ASSUME WebInv, VisitorStep \/ DoorStep \/ ReceiverStep
    PROVE  WebInv'
<1>1. CASE VisitorStep
    BY <1>1, SubmitKeeps, GivesUpKeeps DEF VisitorStep
<1>2. CASE DoorStep
    BY <1>2, ForwardTimesOutKeeps, ConfirmsKeeps, DoorRestartsKeeps DEF DoorStep
<1>3. CASE ReceiverStep
    BY <1>3, ReceiveKeeps, ReceiveStrayKeeps, InsertInquiryKeeps, ReceiverRestartsKeeps
       DEF ReceiverStep
<1> QED
    BY <1>1, <1>2, <1>3

-----------------------------------------------------------------------------
(* The mails and the calls. *)

\* What a round of a worker must be.
FitsMails(round) ==
    /\ round \in Round /\ round.mail <= round.last /\ round.last <= arrived
    /\ round.step # "idle" => round.mail \in 1..Mails

\* The next mail of a round.
LookNext(round, m) == [round EXCEPT !.step = "look", !.mail = m]

LEMMA LookNextFields ==
    ASSUME NEW round \in Round, NEW m \in Nat
    PROVE  /\ LookNext(round, m) \in Round
           /\ LookNext(round, m).mail = m /\ LookNext(round, m).last = round.last
    BY DEF LookNext, Round

LEMMA OnwardFits ==
    ASSUME PhoneInv, NEW w \in Workers, workers[w].step # "idle"
    PROVE  FitsMails(Onward(w))
<1>1. /\ workers[w] \in Round /\ workers[w].mail <= workers[w].last
      /\ workers[w].last <= arrived /\ workers[w].mail \in 1..Mails
      /\ arrived \in 0..Mails /\ Mails \in Nat
    BY MailAssumption DEF PhoneInv, PhoneTypes, RoundsHaveAMail
<1>2. CASE workers[w].mail = workers[w].last
    BY <1>1, <1>2 DEF Onward, FitsMails, NoRound, Round
<1>3. CASE workers[w].mail # workers[w].last
  <2>1. workers[w].mail + 1 \in Nat /\ workers[w].last \in Nat
    BY <1>1 DEF Round
  <2>2. PICK round : round = LookNext(workers[w], workers[w].mail + 1)
    OBVIOUS
  <2>3. /\ round \in Round /\ round.last = workers[w].last
        /\ round.mail = workers[w].mail + 1
    BY <1>1, <2>1, <2>2, LookNextFields
  <2>4. Onward(w) = round
    BY <1>3, <2>2 DEF Onward, LookNext
  <2>5. round.mail <= round.last /\ round.last <= arrived /\ round.mail \in 1..Mails
    BY <1>1, <1>3, <2>1, <2>3
  <2> QED
    BY <2>3, <2>4, <2>5 DEF FitsMails
<1> QED
    BY <1>2, <1>3

LEMMA RoundsFit ==
    ASSUME PhoneInv, NEW w \in Workers, NEW round, FitsMails(round), arrived' = arrived,
           workers' = [workers EXCEPT ![w] = round]
    PROVE  /\ workers' \in [Workers -> Round] /\ RoundsHaveAMail'
           /\ \A x \in Workers : workers'[x].mail <= workers'[x].last
                                 /\ workers'[x].last <= arrived'
    BY DEF PhoneInv, PhoneTypes, RoundsHaveAMail, FitsMails

\* The round of a worker that lists the mails starts with the oldest one in view.
LEMMA ListFits ==
    ASSUME PhoneInv, NEW w \in Workers, ListMails(w)
    PROVE  \E round : FitsMails(round) /\ workers' = [workers EXCEPT ![w] = round]
<1>0. arrived \in 0..Mails /\ Mails \in Nat /\ MaxResults \in Nat \ {0}
    BY MailAssumption DEF PhoneInv, PhoneTypes
<1> DEFINE first == CHOOSE m \in Window : \A n \in Window : m <= n
           low == IF arrived > MaxResults THEN arrived - MaxResults + 1 ELSE 1
<1>1. Window # {} /\ Window \subseteq 1..arrived
    BY DEF ListMails, Window
<1>2. arrived # 0
  <2>1. PICK m \in Window : TRUE
    BY <1>1
  <2>2. m \in 1..arrived
    BY <1>1
  <2> QED
    BY <1>0, <2>2
<1>3. low \in Window /\ \A n \in Window : low <= n
    BY <1>0, <1>2 DEF Window
<1>4. first \in Window
    BY <1>3
<1>5. workers' = [workers EXCEPT ![w] = [step |-> "look", last |-> arrived, mail |-> first]]
    BY DEF ListMails
<1> HIDE DEF first, low
<1>6. FitsMails([step |-> "look", last |-> arrived, mail |-> first])
    BY <1>0, <1>1, <1>4 DEF FitsMails, Round
<1> QED
    BY <1>5, <1>6

\* While the inbox and the inquiries stay, everything said of them stays.
LEMMA InboxStays ==
    ASSUME IntakeInv, UNCHANGED <<channel, webVars, calls, made, inquiries>>,
           PhoneTypes', RoundsHaveAMail'
    PROVE  IntakeInv'
<1>1. WebInv'
    BY DEF IntakeInv, WebInv, webVars, WebTypes, VisitorsHaveTheirThread,
           ReceiversHaveTheirThread, ConfirmedIsInTheCore, OneInquiryPerReference,
           AcceptedIsInTheCore
<1>2. OnlyRowsAreWorkedOn' /\ OneRowPerCall'
    BY DEF IntakeInv, PhoneInv, OnlyRowsAreWorkedOn, OneRowPerCall, Stored
<1>3. OneChannel' /\ NewIsUntouched'
    BY DEF IntakeInv, OneChannel, NewIsUntouched, KnownCall, Stored
<1> QED
    BY <1>1, <1>2, <1>3 DEF IntakeInv, PhoneInv

LEMMA RoundStepsKeep ==
    ASSUME IntakeInv, UNCHANGED <<channel, webVars>>,
           MailArrives \/ \E w \in Workers : ListMails(w) \/ LookAt(w) \/ FactsFail(w)
    PROVE  IntakeInv'
<1>0. PhoneInv /\ PhoneTypes /\ Mails \in Nat
    BY MailAssumption DEF IntakeInv, PhoneInv
<1>1. CASE MailArrives
  <2>1. /\ arrived < Mails /\ arrived' = arrived + 1
        /\ UNCHANGED <<workers, calls, made, inquiries>>
    BY <1>1 DEF MailArrives
  <2>2. PhoneTypes'
    <3>1. arrived' \in 0..Mails
      BY <1>0, <2>1 DEF PhoneTypes
    <3>2. \A w \in Workers : workers'[w].mail <= workers'[w].last
                             /\ workers'[w].last <= arrived'
      BY <1>0, <2>1 DEF PhoneTypes, Round
    <3> QED
      BY <1>0, <2>1, <3>1, <3>2 DEF PhoneTypes
  <2>3. RoundsHaveAMail'
    BY <1>0, <2>1 DEF PhoneInv, RoundsHaveAMail
  <2> QED
    BY <2>1, <2>2, <2>3, InboxStays
<1>2. ASSUME NEW w \in Workers, ListMails(w) \/ LookAt(w) \/ FactsFail(w)
      PROVE  IntakeInv'
  <2>1. UNCHANGED <<arrived, calls, made, inquiries>>
    BY <1>2 DEF ListMails, LookAt, FactsFail
  <2>2. \E round : FitsMails(round) /\ workers' = [workers EXCEPT ![w] = round]
    <3>1. FitsMails(NoRound)
      BY <1>0 DEF FitsMails, NoRound, Round, PhoneTypes
    <3>2. CASE ListMails(w)
      BY <1>0, <3>2, ListFits
    <3>3. CASE LookAt(w)
      <4>1. workers[w].step = "look"
        BY <3>3 DEF LookAt
      <4>2. FitsMails(Onward(w))
        BY <1>0, <4>1, OnwardFits
      <4>3. FitsMails([workers[w] EXCEPT !.step = "facts"])
        BY <1>0, <4>1 DEF FitsMails, PhoneInv, PhoneTypes, RoundsHaveAMail, Round
      <4>4. \E round \in {NoRound, Onward(w), [workers[w] EXCEPT !.step = "facts"]} :
              workers' = [workers EXCEPT ![w] = round]
        BY <3>3 DEF LookAt
      <4> QED
        BY <3>1, <4>2, <4>3, <4>4
    <3>4. CASE FactsFail(w)
      BY <3>1, <3>4 DEF FactsFail, EndsRound
    <3> QED
      BY <1>2, <3>2, <3>3, <3>4
  <2>3. PICK round : FitsMails(round) /\ workers' = [workers EXCEPT ![w] = round]
    BY <2>2
  <2>4. /\ workers' \in [Workers -> Round] /\ RoundsHaveAMail'
        /\ \A x \in Workers : workers'[x].mail <= workers'[x].last
                              /\ workers'[x].last <= arrived'
    BY <1>0, <2>1, <2>3, RoundsFit
  <2>5. PhoneTypes'
    BY <1>0, <2>1, <2>4 DEF PhoneTypes
  <2> QED
    BY <2>1, <2>4, <2>5, InboxStays
<1> QED
    BY <1>1, <1>2

-----------------------------------------------------------------------------
(* The rows of the inbox. *)

\* What is said of the web forms stays true while they and the inquiries stay.
LEMMA InquiriesStay ==
    ASSUME IntakeInv, UNCHANGED <<channel, webVars, inquiries>>
    PROVE  WebInv'
    BY DEF IntakeInv, WebInv, webVars, WebTypes, VisitorsHaveTheirThread,
           ReceiversHaveTheirThread, ConfirmedIsInTheCore, OneInquiryPerReference,
           AcceptedIsInTheCore


LEMMA IngestKeeps ==
    ASSUME IntakeInv, channel = "phone", UNCHANGED <<channel, webVars>>,
           NEW w \in Workers, Ingest(w)
    PROVE  IntakeInv'
<1> DEFINE m == workers[w].mail
<1>0. /\ PhoneInv /\ PhoneTypes /\ workers[w].step # "idle" /\ m \in 1..Mails
      /\ UNCHANGED <<arrived, made, inquiries>> /\ calls' = WithCall(m)
    BY DEF IntakeInv, PhoneInv, Ingest, RoundsHaveAMail
<1>1. /\ workers' \in [Workers -> Round] /\ RoundsHaveAMail'
      /\ \A x \in Workers : workers'[x].mail <= workers'[x].last
                            /\ workers'[x].last <= arrived'
    BY <1>0, OnwardFits, RoundsFit DEF Ingest
<1> HIDE DEF m
<1>2. CASE KnownCall(m)
  <2>1. UNCHANGED calls
    BY <1>0, <1>2 DEF WithCall
  <2>2. PhoneTypes'
    BY <1>0, <1>1, <2>1 DEF PhoneTypes
  <2> QED
    BY <1>0, <1>1, <2>1, <2>2, InboxStays
<1>3. CASE ~ KnownCall(m)
  <2>1. \A n \in 1..Mails : Stored(n) => StratoId(n) # StratoId(m)
    BY <1>3 DEF KnownCall
  <2>2. calls \in [1..Mails -> CallRow] /\ calls[m] \in CallRow /\ calls[m].rows \in Nat
    BY <1>0 DEF PhoneTypes, CallRow
  <2>3. ~ Stored(m) /\ calls[m].rows = 0
    BY <1>0, <2>1, <2>2 DEF Stored
  <2>4. PICK row : row = [rows |-> 1, status |-> "NEW", result |-> "none"]
    OBVIOUS
  <2>5. row \in CallRow /\ row.rows = 1 /\ row.status = "NEW"
    BY <2>4 DEF CallRow
  <2>6. calls' = [calls EXCEPT ![m] = row]
    BY <1>0, <1>3, <2>3, <2>4 DEF WithCall
  <2>7. /\ calls' \in [1..Mails -> CallRow] /\ calls'[m] = row
        /\ \A n \in 1..Mails : n # m => calls'[n] = calls[n]
    BY <1>0, <2>2, <2>5, <2>6
  <2>8. \A n \in 1..Mails : (Stored(n))' <=> (n = m \/ Stored(n))
    BY <2>5, <2>7 DEF Stored
  <2>9. PhoneTypes'
    BY <1>0, <1>1, <2>7 DEF PhoneTypes
  <2>10. OnlyRowsAreWorkedOn'
    BY <1>0, <2>7, <2>8 DEF PhoneInv, OnlyRowsAreWorkedOn
  <2>11. OneRowPerCall'
    BY <1>0, <2>1, <2>5, <2>7, <2>8 DEF PhoneInv, OneRowPerCall, StratoId
  <2>12. OneChannel'
    <3>1. \A n \in 1..Mails : inquiries'[StratoId(n)] > 0 => KnownCall(n)
      BY <1>0 DEF IntakeInv, OneChannel, StratoId
    <3>2. \A n \in 1..Mails : KnownCall(n) => KnownCall(n)'
      BY <2>8 DEF KnownCall, StratoId
    <3>3. channel' = "phone" /\ \A n \in 1..Mails : StratoId(n)' = StratoId(n)
      BY DEF StratoId
    <3> QED
      BY <3>1, <3>2, <3>3 DEF OneChannel
  <2>13. made'[m].tasks = 0 /\ made'[m].richtangebote = 0 /\ inquiries'[StratoId(m)] = 0
    <3>1. made[m].tasks \in Nat /\ made[m].richtangebote \in Nat
      BY <1>0 DEF PhoneTypes
    <3>2. inquiries[StratoId(m)] \in Nat
      BY <1>0, StratoIdIsAMail DEF IntakeInv, WebInv, WebTypes
    <3>3. ~ (inquiries[StratoId(m)] > 0)
      BY <1>0, <1>3 DEF IntakeInv, OneChannel
    <3>4. ~ (made[m].tasks > 0) /\ ~ (made[m].richtangebote > 0)
      BY <1>0, <2>3 DEF PhoneInv, OnlyRowsAreWorkedOn
    <3> QED
      BY <1>0, <3>1, <3>2, <3>3, <3>4
  <2>14. NewIsUntouched'
    BY <1>0, <2>7, <2>13 DEF IntakeInv, NewIsUntouched, StratoId
  <2> QED
    BY <1>0, <1>1, <2>9, <2>10, <2>11, <2>12, <2>14, InquiriesStay DEF IntakeInv, PhoneInv
<1> QED
    BY <1>2, <1>3

-----------------------------------------------------------------------------
(* The office's commands: each one takes a row out of the NEW ones. *)

\* What a command leaves of the row of a call.
RowGoesOn(c) ==
    /\ calls' \in [1..Mails -> CallRow]
    /\ calls'[c].rows = calls[c].rows /\ calls'[c].status \notin {"none", "NEW"}
    /\ \A n \in 1..Mails : n # c => calls'[n] = calls[n]

LEMMA ProcessedGoesOn ==
    ASSUME PhoneTypes, NEW c \in 1..Mails,
           NEW result \in {"INQUIRY", "RICHTANGEBOT", "TASK", "LINKED"},
           calls' = Processed(c, result)
    PROVE  RowGoesOn(c)
<1>1. PICK row : row = [calls[c] EXCEPT !.status = "PROCESSED", !.result = result]
    OBVIOUS
<1>2. calls \in [1..Mails -> CallRow] /\ calls[c] \in CallRow
    BY DEF PhoneTypes
<1>3. row \in CallRow /\ row.rows = calls[c].rows /\ row.status = "PROCESSED"
    BY <1>1, <1>2 DEF CallRow
<1>4. calls' = [calls EXCEPT ![c] = row]
    BY <1>1 DEF Processed
<1> QED
    BY <1>2, <1>3, <1>4 DEF RowGoesOn

LEMMA DoneGoesOn ==
    ASSUME PhoneTypes, NEW c \in 1..Mails, MarkDone(c)
    PROVE  RowGoesOn(c)
<1>1. PICK row : row = [calls[c] EXCEPT !.status = "DONE"]
    OBVIOUS
<1>2. calls \in [1..Mails -> CallRow] /\ calls[c] \in CallRow
    BY DEF PhoneTypes
<1>3. row \in CallRow /\ row.rows = calls[c].rows /\ row.status = "DONE"
    BY <1>1, <1>2 DEF CallRow
<1>4. calls' = [calls EXCEPT ![c] = row]
    BY <1>1 DEF MarkDone
<1> QED
    BY <1>2, <1>3, <1>4 DEF RowGoesOn

\* What may be made of a stored call by a command that works on its row.
LEMMA WorkKeeps ==
    ASSUME IntakeInv, channel = "phone", UNCHANGED <<channel, webVars, arrived, workers>>,
           NEW c \in 1..Mails, Stored(c), RowGoesOn(c),
           made' \in [1..Mails -> [tasks : Nat, richtangebote : Nat]],
           \A n \in 1..Mails : n # c => made'[n] = made[n],
           inquiries' = inquiries \/ inquiries' = Insert(StratoId(c))
    PROVE  IntakeInv'
<1>0. /\ PhoneTypes /\ WebTypes /\ OneInquiryPerReference /\ StratoId(c) \in References
      /\ StratoId(c) \in 1..Mails
    BY StratoIdIsAMail DEF IntakeInv, PhoneInv, WebInv
<1>1. /\ inquiries' \in [References -> Nat]
      /\ \A ref \in References : inquiries'[ref] <= 1
      /\ \A ref \in References : inquiries[ref] > 0 => inquiries'[ref] > 0
      /\ \A ref \in References : ref # StratoId(c) => inquiries'[ref] = inquiries[ref]
    BY <1>0, InsertCounts DEF WebTypes, OneInquiryPerReference
<1>2. \A n \in 1..Mails : (Stored(n))' <=> Stored(n)
    BY DEF RowGoesOn, Stored
<1>3. WebInv'
  <2>1. WebTypes'
    BY <1>1 DEF IntakeInv, WebInv, WebTypes, webVars
  <2>2. VisitorsHaveTheirThread' /\ ReceiversHaveTheirThread'
    BY DEF IntakeInv, WebInv, VisitorsHaveTheirThread, ReceiversHaveTheirThread, webVars
  <2>3. ConfirmedIsInTheCore'
    BY <1>1 DEF IntakeInv, WebInv, ConfirmedIsInTheCore, webVars, References
  <2>4. OneInquiryPerReference'
    BY <1>1 DEF OneInquiryPerReference, References
  <2>5. AcceptedIsInTheCore'
    BY <1>1 DEF IntakeInv, WebInv, AcceptedIsInTheCore, webVars, References
  <2> QED
    BY <2>1, <2>2, <2>3, <2>4, <2>5 DEF WebInv
<1>4. PhoneTypes' /\ RoundsHaveAMail'
    BY DEF IntakeInv, PhoneInv, PhoneTypes, RoundsHaveAMail, RowGoesOn
<1>5. OnlyRowsAreWorkedOn'
    BY <1>2 DEF IntakeInv, PhoneInv, OnlyRowsAreWorkedOn, RowGoesOn
<1>6. OneRowPerCall'
    BY <1>2 DEF IntakeInv, PhoneInv, OneRowPerCall, RowGoesOn, StratoId
<1>7. OneChannel'
  <2>1. \A n \in 1..Mails : KnownCall(n) => KnownCall(n)'
    BY <1>2 DEF KnownCall, StratoId
  <2>2. \A n \in 1..Mails : StratoId(n) = StratoId(c) => KnownCall(n)
    BY DEF KnownCall
  <2>3. \A n \in 1..Mails : StratoId(n) # StratoId(c) /\ inquiries'[StratoId(n)] > 0
                            => KnownCall(n)
    BY <1>1, StratoIdIsAMail DEF IntakeInv, OneChannel
  <2>4. channel' = "phone" /\ \A n \in 1..Mails : StratoId(n)' = StratoId(n)
    BY DEF StratoId
  <2> QED
    BY <2>1, <2>2, <2>3, <2>4 DEF OneChannel
<1>8. NewIsUntouched'
  <2> SUFFICES ASSUME NEW n \in 1..Mails, calls'[n].status = "NEW"
               PROVE  made'[n].tasks = 0 /\ made'[n].richtangebote = 0
                      /\ inquiries'[StratoId(n)] = 0
      BY DEF NewIsUntouched, StratoId
  <2>1. n # c /\ calls[n].status = "NEW" /\ made'[n] = made[n]
    BY DEF RowGoesOn
  <2>2. Stored(n)
    BY <2>1 DEF IntakeInv, PhoneInv, OnlyRowsAreWorkedOn
  <2>3. StratoId(n) # StratoId(c)
    BY <2>1, <2>2 DEF IntakeInv, PhoneInv, OneRowPerCall
  <2>4. inquiries'[StratoId(n)] = inquiries[StratoId(n)]
    BY <1>1, <2>3, StratoIdIsAMail
  <2> QED
    BY <2>1, <2>4 DEF IntakeInv, NewIsUntouched
<1> QED
    BY <1>3, <1>4, <1>5, <1>6, <1>7, <1>8 DEF IntakeInv, PhoneInv

LEMMA OfficeKeeps ==
    ASSUME IntakeInv, channel = "phone", UNCHANGED <<channel, webVars>>,
           NEW c \in Handled,
           \/ ConvertToInquiry(c) \/ ConvertToRichtangebot(c) \/ ConvertToTask(c)
           \/ LinkExisting(c) \/ MarkDone(c)
    PROVE  IntakeInv'
<1>0. /\ c \in 1..Mails /\ PhoneTypes
      /\ made \in [1..Mails -> [tasks : Nat, richtangebote : Nat]]
    BY MailAssumption DEF IntakeInv, PhoneInv, PhoneTypes
<1>1. CASE ConvertToInquiry(c)
  <2>1. RowGoesOn(c)
    BY <1>0, <1>1, ProcessedGoesOn DEF ConvertToInquiry
  <2> QED
    BY <1>0, <1>1, <2>1, WorkKeeps DEF ConvertToInquiry
<1>2. CASE ConvertToRichtangebot(c)
  <2>1. RowGoesOn(c)
    BY <1>0, <1>2, ProcessedGoesOn DEF ConvertToRichtangebot
  <2>2. Stored(c)
    BY <1>0, <1>2 DEF ConvertToRichtangebot, IntakeInv, PhoneInv, OnlyRowsAreWorkedOn
  <2>3. /\ made' \in [1..Mails -> [tasks : Nat, richtangebote : Nat]]
        /\ \A n \in 1..Mails : n # c => made'[n] = made[n]
    BY <1>0, <1>2 DEF ConvertToRichtangebot, WithRichtangebot
  <2> QED
    BY <1>0, <1>2, <2>1, <2>2, <2>3, WorkKeeps DEF ConvertToRichtangebot
<1>3. CASE ConvertToTask(c)
  <2>1. RowGoesOn(c)
    BY <1>0, <1>3, ProcessedGoesOn DEF ConvertToTask
  <2>3. /\ made' \in [1..Mails -> [tasks : Nat, richtangebote : Nat]]
        /\ \A n \in 1..Mails : n # c => made'[n] = made[n]
    BY <1>0, <1>3 DEF ConvertToTask, WithTask
  <2> QED
    BY <1>0, <1>3, <2>1, <2>3, WorkKeeps DEF ConvertToTask
<1>4. CASE LinkExisting(c)
  <2>1. RowGoesOn(c)
    BY <1>0, <1>4, ProcessedGoesOn DEF LinkExisting
  <2> QED
    BY <1>0, <1>4, <2>1, WorkKeeps DEF LinkExisting
<1>5. CASE MarkDone(c)
  <2>1. RowGoesOn(c)
    BY <1>0, <1>5, DoneGoesOn
  <2> QED
    BY <1>0, <1>5, <2>1, WorkKeeps DEF MarkDone
<1> QED
    BY <1>1, <1>2, <1>3, <1>4, <1>5

-----------------------------------------------------------------------------
(* Both channels. *)

\* A web form is nothing to the calls, and no call is stored while forms come in.
LEMMA WebStepKeeps ==
    ASSUME IntakeInv, channel = "web", UNCHANGED <<channel, phoneVars>>,
           VisitorStep \/ DoorStep \/ ReceiverStep
    PROVE  IntakeInv'
<1>1. WebInv'
    BY WebKeeps DEF IntakeInv
<1>2. PhoneInv'
    BY DEF IntakeInv, PhoneInv, PhoneTypes, RoundsHaveAMail, OnlyRowsAreWorkedOn,
           OneRowPerCall, Stored, phoneVars, StratoId
<1>3. \A m \in 1..Mails : ~ (Stored(m))'
    BY DEF IntakeInv, OneChannel, Stored, phoneVars
<1>4. OneChannel'
    BY <1>3 DEF IntakeInv, OneChannel
<1>5. NewIsUntouched'
    BY <1>2, <1>3 DEF PhoneInv, OnlyRowsAreWorkedOn, NewIsUntouched
<1> QED
    BY <1>1, <1>2, <1>4, <1>5 DEF IntakeInv

LEMMA IntakeStepKeeps == IntakeInv /\ [IntakeNext]_intakeVars => IntakeInv'
<1> SUFFICES ASSUME IntakeInv, [IntakeNext]_intakeVars PROVE IntakeInv'
    OBVIOUS
<1>1. CASE Web(VisitorStep) \/ Web(DoorStep) \/ Web(ReceiverStep)
    BY <1>1, WebStepKeeps DEF Web
<1>2. CASE Phone(MailArrives)
    BY <1>2, RoundStepsKeep DEF Phone
<1>3. CASE Phone(WorkerStep)
  <2>1. /\ channel = "phone" /\ UNCHANGED <<channel, webVars>>
        /\ \E w \in Workers : ListMails(w) \/ LookAt(w) \/ FactsFail(w) \/ Ingest(w)
    BY <1>3 DEF Phone, WorkerStep
  <2>2. CASE \E w \in Workers : ListMails(w) \/ LookAt(w) \/ FactsFail(w)
    BY <2>1, <2>2, RoundStepsKeep
  <2>3. CASE \E w \in Workers : Ingest(w)
    BY <2>1, <2>3, IngestKeeps
  <2> QED
    BY <2>1, <2>2, <2>3
<1>4. CASE Phone(OfficeStep)
    BY <1>4, OfficeKeeps DEF Phone, OfficeStep
<1>5. CASE UNCHANGED intakeVars
  <2>1. UNCHANGED <<channel, webVars, calls, made, inquiries, arrived, workers>>
    BY <1>5 DEF intakeVars, phoneVars
  <2>2. PhoneTypes' /\ RoundsHaveAMail'
    BY <2>1 DEF IntakeInv, PhoneInv, PhoneTypes, RoundsHaveAMail
  <2> QED
    BY <2>1, <2>2, InboxStays
<1> QED
    BY <1>1, <1>2, <1>3, <1>4, <1>5 DEF IntakeNext

LEMMA ArrivalIsInvariant == IntakeInv => ArrivesOnce
<1> SUFFICES ASSUME IntakeInv PROVE ArrivesOnce
    OBVIOUS
<1>1. IntakeTypeOK
    BY DEF IntakeInv, WebInv, PhoneInv, WebTypes, PhoneTypes, IntakeTypeOK
<1> QED
    BY <1>1 DEF IntakeInv, WebInv, PhoneInv, ArrivesOnce

\* What is said to have come in has, and once: no answer that got lost, no second
\* receiver or worker on the same form or mail and no command from an old page leaves a
\* reference with two inquiries, a call with two rows, a visitor told of a success that
\* is not in the Core, or a call in the inbox as new after something was made of it.
THEOREM WhatComesInComesInOnce == IntakeSpec => []ArrivesOnce
<1>1. IntakeSpec => []IntakeInv
    BY InitIntake, IntakeStepKeeps, PTL DEF IntakeSpec
<1> QED
    BY <1>1, ArrivalIsInvariant, PTL

=============================================================================
