# Silberlöffel catering: a verification project

TLA+ models of the catering system's Core, checked with TLC and, where a
property matters for every size of the system, proved with TLAPS.  All paths
below are relative to the repository root; the Python package is
`src/catering_system/` and is left out of paths that start with `services/`,
`repositories/`, `domain/` or `ui/`.

- [1 The system](#1-the-system): inventory, interactions, what is hard
- [2 Modules](#2-modules): which module models what, and how
- [3 Runs](#3-runs): what each run asks, bounds, fairness
- [4 Proofs](#4-proofs): what holds for every value of the constants, and why
- [5 Disagreements found](#5-disagreements-found)
- [6 Not modelled](#6-not-modelled)
- [7 Plan](#7-plan)

## 1 The system

A caterer's office runs on one machine around one SQLite file, the Core
database.  Several operating-system processes share the file:

| process | code | how it writes |
|---|---|---|
| Office API | `ui/office_api.py` | single-threaded HTTP server; every command is one `BEGIN IMMEDIATE` transaction of `repositories/core_transaction.py`, with a ledger row per command |
| Office panel | `ui/office_panel.py`, `ui/remote_core_client.py` | either beside the Core on its own connection, or remote, through the Office API |
| Kitchen API | `ui/kitchen_api.py` | single-threaded; one connection per repository, each database call a transaction of its own |
| kitchen print agent | `infra/kitchen_print_agent/` | talks to the Kitchen API only; prints on CUPS; restarted by systemd |
| website and telephone intake | `ui/website_intake_endpoint.py`, `ui/ai_telefonist_intake_endpoint.py` | own connections |
| kiosk | `ui/kiosk_server.py`, `ui/pickup_signal.py` | reads only; a refresher thread polls a courier service |
| mail worker | `scripts/strato_gmail_worker.py` | reads a mailbox in rounds; stores telephone calls on its own connection |
| staging site, Cloudflare worker | `ui/staging_site.py`, `infra/cloudflare_worker/` | forward website submissions |
| accounts | `ui/employee_auth_api.py`, `ui/employee_auth_admin.py` | a server beside the panel, which runs the same service, each on its own connection; a command line beside both |

### Components, their state and their promises

| component | state | operations | what makes it correct |
|---|---|---|---|
| Order aggregate | `orders`, `order_versions`, pause log | create from an accepted offer, propose a change, propose an address, make effective, Storno, pause, resume, kitchen confirmation, purge | the effective version is a printed version of the order; numbers are gapless; Storno is final; READY_TO_SEND never releases an outdated stand |
| Kitchen print | `kitchen_print_jobs` | request, reprint, claim, reject, acknowledge | attempts of a version form one chain; each is settled once; no attempt is printed twice; a confirmation has its paper; an overdue attempt can be replaced |
| Command execution | `office_api_commands`, the open transaction, buffered events | begin, look up, handle, record, commit, roll back, flush, reply | at most once; on the expected state; the same answer however often it is asked; no event without a commit |
| Offer lifecycle | `offers`, versions, evidence, conversion link | prepare, send, accept, reject, withdraw, convert, replay | only the last open version is accepted, and nothing is added afterwards; order, link and payment method appear and vanish together; the action the panel offers is one the Core accepts |
| Inquiry | `inquiries` | intake, verify, edit, close | an active order's inquiry has its stage; no verification or contact is overwritten by a stale write |
| Payments, courier cash | payment row and log, cash events | record, correct, change method; hand over, confirm | no recorded payment disappears without a trace; cash events and the payment agree |
| Confirmation documents | frozen documents, outbox records | prepare, send, purge | one mail per stand, in the order of the stands; the page previews what is frozen and leaves out nothing that can be sent |
| Remote panel client | rendered pages; the Core's ledger | render, read again, post a command, learn the answer or nothing | nothing is saved over what the page did not show; a refusal never denies what was saved |
| Desk views | none, derived on every read | next action, task list, offer queue, calendar, counters | every step the Core would take is shown; the views agree |
| Employee accounts | accounts, permissions, sessions | log in, change password, grant, change role, deactivate; CLI bootstrap and recovery | one active superadmin remains; no session outlives a reset or a deactivation; rights come from those who may give them |
| Intake of forms and calls | submissions under way, mailbox, calls, inquiries | submit, forward, look up, insert; list, ingest, convert | everything arrives, and once |
| Contact profiles | profiles, aliases, merges | ensure, merge | every alias leads to one profile, for good |
| Chat | threads, messages, read markers | open, send, mark read | no message is missed |
| Catalog | dish, price history | create, edit, switch on and off | no save of an old page undoes another |
| Pickup signal | the last good document | fetch, check, store; copy, check, show | nobody is shown another day's list |
| Offer charges | none, a pure check | compare the declaration with the positions | of the kinds compared, what is accepted is what was declared |
| Start of the servers | `schema_migrations`, tables and triggers, contexts | open a repository, read the history, apply, record, fill, crash | what the history names is there; every server starts |
| Manual tasks, handoff codes, backups, renderers | small tables or none | see `PROJECT.json` | see `PROJECT.json` |

### How they interact, and what is hard

- Shared state.  Panel, Office API and Kitchen API write the same tables.  The
  Office API reads and writes under SQLite's write lock; the Kitchen API reads on
  several connections, decides, and writes later.  Every gap between its calls
  is a place for an office command.
- Repetition.  A form carries a command id and the state it was rendered from
  (`_expect_*`).  The browser, the panel and the user may submit it again, after
  a time-out that was not a failure, with other contents, or after other
  processes changed the row.
- Crashes.  Both APIs and the agent can die between any two of their steps;
  SQLite forgets open transactions, the agent forgets everything.
- Time.  Print attempts have an acceptance and an acknowledgement deadline that
  race the agent, the office and each other.
- Staleness.  Pages are rendered, read again before they post, and posted again
  the next day; the panel derives from several tables what the Core decides from
  others.
- Delivery.  Submissions pass two or three processes that time out, restart and
  repeat; mails are listed newest first and only so many of them.
- Long legal sequences.  Versions are proposed, printed, superseded, cancelled,
  paused and purged in any order by handlers that each look at a few columns.

`PROJECT.json` lists every hazard of this kind at its line, with the properties
that would catch it going wrong.

## 2 Modules

```
OrderCore ─┬─ KitchenPrint, CoreCommand ── MCCoreCommand;  KitchenPrint_proofs
           ├─ Offer ── OfficeDesk ── RemotePanel ── MCOffice, Offer_proofs
           ├─ PaymentCash ── MCPayments, PaymentCash_proofs
           ├─ Confirmation ─┐
           └─ OrderCore_proofs
ContactProfiles ────────────┤
EmployeeChat ───────────────┼─ MCDeskTools, DeskTools_proofs
CatalogDishes ──────────────┤
PickupSignal ───────────────┤
OfferCharges ───────────────┘
EmployeeAuth ── MCEmployeeAuth, EmployeeAuth_proofs
Intake ── MCIntake, Intake_proofs
CoreCommand ── CommandOnce by INSTANCE (done <- ledger)
CoreCommand, SchemaMigrations ── CoreCommand_proofs
KitchenPrint, CoreCommand, SchemaMigrations ── MCCoreServers
```

A line is an EXTENDS.  An MC module that extends modules with different questions has
a variable `part`: the first state says which of them moves, the others stand still.

`OrderCore` is at the same time the abstract specification of the order tables.
Four theorems say that what is built on it implements it: `KitchenPrint` with its
split acknowledgement (apart from the gap of section 5; the run `core_servers`
checks it as well), `Offer`, `PaymentCash`, and, by way of `Offer`, `RemotePanel`.
`CommandOnce` is the abstract specification of `CoreCommand`; that implementation
is checked and proved.

Properties are preceded by the code behaviour they are about.  A run checks few
formulas; where one question has several sides, the property a run names is a
conjunction of named parts (`NothingIsTakenBack == CancellationIsFinal /\
SnapshotsAreImmutable /\ EffectiveMovesForward`), each with its own comment.
Definitions marked *Faulty variant* are plausible mistakes that `PROJECT.json`
uses to show that a property can fail.

### OrderCore: `services/order_service.py`, `services/operational_core_service.py`, `repositories/sqlite_order_repository.py`, `domain/ready_to_send.py`, `repositories/order_purge.py`

Variables are the tables: `orders` (state, inquiry, candidate and effective
pointers), `versions` (owner, number, parent, print confirmation, data) and
`pauses` (the append-only pause log of each order).  One action is one service
call, which in the code is one transaction: `CreateOrder`, `ProposeChange`,
`ProposeAddress`, `AcknowledgePrint`, `MakeEffective`, `CancelOrder`,
`PauseOrder`, `ResumeOrder`, `PurgeOrder`, and the service operations that no
handler calls any more (`AppendRelevantChange`, `SetCandidate`,
`ConfirmPrint`), which only `ServiceSpec` takes.

A version's data is four groups of columns, because the change services treat
these groups differently: planning facts, exact times, delivery window, frozen
address.  An id that has no row yet, or no longer, is `unborn` or `purged`; ids
are uuid4 and never drawn twice.  `READY_TO_SEND` is an operator, as in the code
it is derived on every read.  The pause log is ordered by its insertion; the
code sorts it by wall clock, a hazard of its own without a property.

### KitchenPrint: `services/kitchen_print_service.py`, `services/kitchen_print_application_service.py`, `repositories/sqlite_kitchen_print_job_repository.py`, `ui/kitchen_api.py`, `infra/kitchen_print_agent/agent.py`

Adds `jobs` (print attempts), `now` (the clock), `kitchen` (the one request the
Kitchen API works on, with what it has read), `agent` and `paper` (sheets per
attempt).  A claim is `ClaimOldest` then `ClaimReadsOrder`; a rejection is
`RejectJob`; an acknowledgement is `AckReads` then `AckWrites`; `Reply` answers
and `KitchenFails` is any exception or crash of the server.  The agent polls,
prints, reports, and crashes with a restart.  Office commands (`HandlesOrder`,
`PurgesOrder`, `RequestPrint`, `Reprint`, `ApiPrints`, `PanelPrints`) are single
steps that may fall between any two of these.

Reductions, each argued in the module: consecutive reads of one request are one
step where no office command can make them disagree with a later check;
rejection reads and updates in one step, because its UPDATE repeats the check;
the agent draws a new command id for every request, so the Kitchen API's ledger
never answers from a row and is left out.

### Offer: `services/offer_service.py`, `domain/offer.py`, `domain/inquiry.py`, `services/inquiry_service.py`, `ui/office_api.py`

Adds `inquiries` (the columns that gate offers and orders), `offers` (versions
with their evidence and the accepted number), `links` (the conversion link),
`methods` (the payment method of an order) and `today`.  One action is one office
command, which is one transaction: `UpdateInquiry`, `VerifyInquiry`,
`CompleteContact`, `SetDelivery`, `PrepareOffer`, `PrepareNext`, `RecordSent`,
`RecordAcceptance`, `RecordRejection`, `RecordWithdrawal`, `ConvertAccepted`
(with `CreateOrder` of `OrderCore` and `InitialRow`, the data the order takes
over), `ReplayConversion`, `ChangeMethod`, `PurgeConverted` (`PurgeOrder` and
what else carries the order's id) and `OrderStep`, all that may happen to an
order afterwards.

The state of a version is derived, as in the code, from evidence and the date
(`State`).  `WithdrawalInTime` and `AcceptanceInTime` are the checks of the
`Offer` constructor, which runs on every read and write; a version's `created`
is the clock of the configurator and may lie ahead of `today`.  `Projection` and
`ActionForOffer` are what the panel derives for its primary button.  A rejected
version and a withdrawn one exclude each other, so `closed` is one column.  The
expected state a form sends (`updated_at`) is the subject of `CoreCommand` and
`RemotePanel`.

### OfficeDesk: `services/task_projection_service.py`, `services/offer_queue_projection_service.py`, `services/calendar_projection_service.py`, `services/work_center_service.py`

What the office sees of the commercial side is derived on every read and has no
state, so the module adds operators to `Offer` and no action: `NextAction` (the
one primary action of an inquiry), `Tasks`, `QueueGroup` and `QueueAction` (the
offer queue), `CalendarEntry`, and the counters of the Arbeitszentrale.  Each of
these services reads the same rows with rules of its own; the properties relate
their answers to one another and to the gates of the Core's commands.

### RemotePanel: `ui/remote_core_client.py`, `ui/office_panel_http.py`, `ui/office_panel.py`, `ui/office_panel_offer_detail.py`, `ui/office_api.py`

The panel as a client of the Core.  `pages` holds what each page was rendered
from with its command id; `disturbed` abstracts `updated_at` to whether anything
was written since; `flight` is the command under way; `ledger` the command
recorded under a page's id; `answer` what the panel has just shown.  `OpenPage`
renders one of 13 kinds of page, `SubmitForm` makes the client's own reads and
posts, `HandleFlight` looks up the ledger, compares the expectation, performs the
command of `Offer` (`Perform`) and records it, `LoseFlight` loses request or
answer.  `Elsewhere` is every step of `Offer` by others.  All forms of an offer's
page share one command id, as they do in the code.

### PaymentCash: `services/payment_reminder_service.py`, `domain/order_payment_reminder.py`, `services/courier_cash_service.py`, `domain/courier_cash_handoff.py`

`reminders` is the payment row of an order, `changes` and `corrections` are its
two logs of replaced rows, `cash` the courier's events.  Office commands are
`SavePayment` (with its reminder and dunning marks), `ChangeMethod`,
`CorrectPayment`; the courier's are `CashHandoff` and `CashCorrection`, with the
transition table `Transitions`.  `Context` and `Projected` are the derived view
of the handoff; `NextStep` is the step the panel shows.  Revision, Storno and
deletion of the order (`OrderLife`) are those of `OrderCore`.  Amounts are
present or absent; an instant that is only compared with the creation of versions
is the set of versions that existed then.

### Confirmation: `services/order_confirmation_document_service.py`, `services/order_confirmation_outbound_service.py`, `services/customer_document_*.py`

`customer` is what the inquiry says of contact, address and mode of delivery,
`frozenMode` the mode frozen with a version, `documents` and `outbox` the rows in
order of insertion.  `PrepareDocument` and `SendDocument` are the two commands
with the version their form expects; `Revise` and `Operate` are the order's
steps, `CompleteContact`, `SetAddress`, `SetMode` the inquiry's, `Purge` deletes.
`PreviewedOf`, `OffersDocument` and `OffersSend` are what the panel shows.  The
panel offers less and more than the Core takes: no document for a stand that became
effective after a first document was made (the run `new_stand_document`), and to send
a document that the Core then refuses, because the order is cancelled, not ready or
about to change, or because there is no mail address.

### EmployeeAuth: `services/employee_auth_service.py`, `repositories/sqlite_employee_auth_repository.py`, `ui/employee_auth_api.py`, `ui/employee_auth_account_api.py`, `ui/employee_auth_admin.py`

`accounts`, `grants`, `sessions` are the tables.  `request` is what each server, the
panel and the employee-auth API, has read and not yet written; `api` the session the
Office API is authenticating; `cli` the operator's command.  Each request is split
at its reads and its commits: `LoginReads`/`LoginWrites`/`OpenSession`,
`PasswordReads`/`PasswordWrites`/`RevokeOwn`, `ManageReads` and one action per
account command (whose writes are one transaction that counts the superadmins behind
the write lock), `ApiReads`/`ApiChecks`/`ApiWrites` (which writes back the whole
session row it has read), `Bootstrap`/`BootstrapGrants`, `RecoveryReads`/
`RecoveryWrites`/`RecoveryRevokes`.  All of them interleave, on both servers, and
any of them may stop on the way.

Two variables are history.  `renewed` counts how often an account was closed or its
password set.  `overtaken` holds the accounts of which a write has replaced a row, or
used one, that had changed since it was read: the code writes whole rows and compares
no version, and what is lost by that is the run `last_superadmin`.  The properties
exempt these accounts, and no others.

### Intake: `ui/website_intake_endpoint.py`, `ui/staging_site.py`, `infra/cloudflare_worker/`, `ui/ai_telefonist_intake_endpoint.py`, `services/ai_telefon_call_service.py`, `scripts/strato_gmail_worker.py`

Two channels that share the table of inquiries and are followed one at a time.
*Web*: `form` is what the visitor typed and sees, `threads` the doors' requests,
`stray` the requests no door waits for any more, `receivers` the processes that
look up and then insert; `audit` is the staging site's own copy.  *Phone*:
`arrived` mails, `workers` with the list each round got from the mailbox,
`calls`, and what was `made` of each call.  Time-outs, restarts, lost answers and
resubmissions are steps of their own.

### ContactProfiles: `services/contact_profile_service.py`, `repositories/sqlite_contact_profile_repository.py`

`mergedInto` and `owner` are the tables of profiles and aliases.  A page of the
panel ensures profiles while it renders and commits statement by statement:
`StartEnsure` reads and decides, `CreateProfile`, `MarkMerged`, `UpsertAlias`
write, `PageBreaksOff` ends the process in between; `EnsureForTask` is the Core's
own transaction.  `overtaken` says whether the Core wrote while a page was at it.

### EmployeeChat, CatalogDishes, PickupSignal, OfferCharges

- `EmployeeChat` (`services/chat_service.py`): threads with their
  `members`, the `log` of authors, a read `marker` and the open `chatPage` of
  each employee; a page shows the oldest `PageLimit` messages, and a message that
  would not fit is refused by the readback after the insert.
- `CatalogDishes` (`services/catalog_dish_write_service.py` and the panel's dish form): one
  row, its price history, and per clerk the open page with what the save has read
  a second time.
- `PickupSignal` (`ui/pickup_signal.py`): the refresher's `round`, what is `kept`
  under the lock, the serving thread's `reader` with its copy; both look at the
  day and the monotonic clock in steps of their own.
- `OfferCharges` (`services/offer_snapshot_validation.py`, `domain/offer_charges.py`): a pure check.  One
  action puts in an offer; `Accepts` is the check as coded, `DeclaredCharges` the
  reference: the bag of charges the declaration stands for, the list `DeclaredList`.
  The check compares four kinds of charge: delivery, dishware, buffet fee and the fee
  that is *named* as the return pickup (`ComparedAs`).  Any other fee is accepted
  beside every declaration, in the code and in the model, and the property speaks of
  the compared kinds only.

These four, `Confirmation` and `ContactProfiles` share no state.  `MCDeskTools`
checks them in one run: its first state says which of them moves.

### SchemaMigrations: `repositories/sqlite_migrations.py`, `repositories/sqlite_order*_repository.py`, `repositories/core_transaction.py`

`recorded` is the table `schema_migrations`, `built` what the statements of the
migrations have created, `documents` and `contexts` the rows that migration 8 of the
orders, and every later start, carries over, and `starting` how far each server has
come: which repository it has open, which versions it believes applied, which
statement of a script is next.  `ApplyAtomic` is a migration between `BEGIN
IMMEDIATE` and its commit; `BeginScript`, `RunStatement` and `RecordScript` are one
that calls `executescript`.  `Opens` is the order in which the servers open the
repositories that have scripts, and `Crash` a server that is killed or gives up on a
locked file.  `MCCoreServers` checks it together with the liveness of `CoreCommand`
and `KitchenPrint`, with which it shares no state.

## 3 Runs

| run | properties | question |
|---|---|---|
| `orders_payments` | `EffectiveIsPrinted`, `VersionsFormAHistory`, `PauseLogBalances`; `CashBooksAgree`, `DemandsAreDue`, `NothingVanishes` | does the aggregate survive every order of the handlers and of the service operations nobody calls any more; do the courier's and the office's books agree, and is nobody asked for money that is not owed? |
| `commands_prints` | `LedgerIsTheTruth`, `NoLostUpdate`, `OnceSpec`; `ReadyReleasesNewestStand`, `AttemptsAreChained`, `PaperTrail`, `AttemptsEndOnce` | is a command carried out at most once, on the expected state, announced and answered truthfully, whatever is repeated, refused, lost or crashed; with office commands between any two database calls of the kitchen API, crashes, lost answers and deadlines, do paper, attempts and database agree? |
| `core_servers` | `ServersFindTheirTables`, `StartsSucceed`, `SubmittedIsAnswered`, `Spec`, `OverdueIsReplaced` | do two servers start on one file, in spite of each other and of crashes, and find their tables; does a form that is submitted until it is not answered 503 get an answer; is the split acknowledgement the atomic one of `OrderCore`, apart from the Storno gap, and is an overdue attempt always replaced on the local panel? |
| `office` | `ConversionIsWhole`, `StageFollowsOrder`, `OfferedActionsAreAccepted`, `EveryStepIsShown`, `NothingIsTakenBack`, `AcceptanceIsFinal`, `ViewsAgree`; `RefusalIsJust`, `PageIsOneDecision` | with inquiry, offer and order commands in every order: is an acceptance the end of the negotiation, are order, link and payment method one unit, does the desk show what the Core would do, and do its tasks, counters, queue and calendar agree with one another and with READY_TO_SEND; does a page, sent again and late, save nothing over what it did not show, and is its refusal true? |
| `accounts` | `SuperadminRemains`, `OldSessionsStayDead`, `RightsComeFromHolders` | two servers, the Office API's stale session write and the operator's command line: can they lock everybody out, revive a session or spread a right? |
| `intake` | `ArrivesOnce`, `EverybodyIsHeard` | does every form and every mail arrive, and once? |
| `desk_tools` | `MailFollowsTheOrder`, `PageFollowsTheDocuments`, `NoMessageIsMissed`, `ChargesAreDeclared`, `ContactIsOneTree`, `SavesAreAsAsked`, `SignalIsHonest` | the parts of the desk that share no state, one property or two each |
| `storno_during_ack`, `last_superadmin`, `new_stand_document`, `reconversion`, `migration_half_done` | one each | the disagreements of section 5; TLC is expected to refute each |

Every property comes with a mutant of the code that breaks it (`PROJECT.json`).

### Bounds, and why they are enough

- `orders_payments` (770 000 states), two parts.  *Orders*: two orders of two
  inquiries, so that ownership and cross-order parents can go wrong; three versions,
  so that one order can have an effective one, a candidate and a superseded one, or
  two orders share them; two values of facts, so that a value is changed and changed
  back; a pause log of two events on the first order, and one pause of the second
  beside it (`FewPauses`).  Exact times and windows are single values here.
  *Payments* (`OneSmallOrder`): one order with a revision, on which neither date nor
  recipient changes, and no pauses; an event on day 8 and the days 2, 17 and 24, on
  which an invoice is sent, due and to be dunned; one change of method, one
  correction, three cash events: handover, confirmation and a correction.
- `commands_prints` (2.6 million), two parts.  *Commands*: two pages of which one is
  guarded, two fillings of a form, one fault (crash, lost answer or failed commit, at
  any step) and one foreign write, which makes any page stale between any two steps;
  two requests wait while a third is carried out (`CommandBound`), and the page
  without a guard, whose stamp nobody compares, is rendered first.
  *Prints*: one order with two versions (an attempt of an outdated stand) and three
  attempts (a reprint of a reprint), time-outs of one tick and a clock of two, so
  that both deadlines can pass before, at and after every step; the third attempt
  of an order that has both versions is used before the last tick (`PrintBound`).
- `core_servers` (330 000 in all, with liveness and no symmetry): its first state
  says which of three independent things moves.  Two servers, one that shares a
  connection in autocommit mode and one that does not, start on an empty database
  or on one with two documents from before the operational context, and crash
  twice: one crash can leave a script half done and another hit its repetition.
  Two forms with one filling.  Two print attempts and a clock of one: the first
  attempt lapses and the second, for which there is no further one, can be printed.
- `office` (720 000), two parts.  *Desk*: one inquiry and its offer, because no command reads two;
  two order ids, so that a deleted order can be followed by another; two offer
  versions and three days, so that a version can expire, be overtaken, withdrawn
  and followed, and a configurator clock can lie one or two days ahead; two
  payment methods, so that a replay can disagree.
  A third version id lets an order have one version that is effective, one printed too
  late to become so, and one waiting for its print.  The bound `DeskBound` of
  `MCOffice` admits it in the first two days, and changes of an order next to an offer
  of one version: what an earlier offer version left behind, no order reads.  Two
  versions are too few: a clause of `ViewsAgree` that took a confirmed event for the
  last stand that was printed held with two, failed in the proof (section 4), and
  fails here with three.
  *Page* (`PageBound`): one page of any kind on one inquiry, offer and order, two
  versions, two offer versions, a pause log of three; no day passes, and changes and
  pauses of the order are looked at next to an offer of one version.  Other pages
  are steps of `Elsewhere`, without a flight of their own: the panel serves one
  request at a time.
- `accounts` (1.5 million): three accounts (who acts, on whom, and who remains),
  three roles, two sessions, two servers, five requests and commands, two further
  password versions.
- `intake` (77 000): one submission with two threads and two receivers (an
  abandoned request beside its repetition); four mails, of which the third repeats
  the second and the fourth can never be read, rounds of two mails by two workers.
  No more mails wait at a time than a round looks at (`MailArrives`): beyond that
  a mail is never listed, as section 5 says.
- `desk_tools` (950 000 in all): one order with three versions; four profiles and
  three aliases (a merge of merged ones); two employees, two threads, pages of two
  messages and logs of up to three; two clerks, two prices, five saves; six ticks
  and two days with documents fresh for two ticks; three positions and two lines.

Accounts, sessions, servers, employees, clerks and forms' contents are symmetric where
no liveness is checked.  Ids of orders, versions and print jobs are numbers drawn one
after another, which stands for their symmetry.  The proofs of section 4 need none of
these bounds.
`CHECK_DEADLOCK FALSE` stands where ids, days, commands or mails run out
(`orders_payments`, `office`, `accounts`, `intake`, `desk_tools` and the runs to be
refuted but `storno_during_ack`): the bounds of the model stop it, not the code.

### Fairness

Safety runs have none.  The runs with liveness state:

- `PrintFairness` of `KitchenPrint`: for every version, the office's own button
  (`PanelPrints`) is pressed again while it is enabled.  It is the only
  assumption: an agent that never polls is the very case `OverdueIsReplaced` is
  about.  `StornoWaits` besides: no Storno falls into the gap of section 5.
- `ServersSpec` of `MCCoreServers`: each server goes on with its start, and one that
  is down is started again (`Restart=on-failure` in `infra/systemd/`; crashes are
  bounded by `MaxCrashes`).
- `CommandFairness`: weak fairness of the server's own steps (a single-threaded
  loop never idles with work), of the other process's COMMIT (a transaction
  ends), of submitting again until settled (the user), and strong fairness of
  taking a given page's request (the accept queue of the HTTP server is first
  come, first served).  Faults are bounded by `MaxFaults`: a machine that crashes
  for ever answers nobody.
- `FairIntakeSpec`: the visitor goes on submitting (weak) and the door's time-outs,
  the receivers' inserts and the confirmations happen (weak); a request that is
  posted again and again is at some time received, inserted and confirmed (strong,
  because time-outs and restarts may cut in any single time); each worker's timer
  starts rounds and goes through its list (weak); the language model answers at
  times (strong fairness of `Ingest`, which an LLM failure disables).

## 4 Proofs

Eight modules hold proofs.  They hold for every set of orders, versions, attempts,
offers, pages, accounts, employees, profiles, mails and every bound, from the
assumptions named in the modules:

- NULL is not a value: `NoneAssumption` (of each module that has one),
  `NothingAssumption`, `NoJobAssumption`, `NoOfferAssumption`, `NoThreadAssumption`,
  `PaymentNoneAssumption`, `AnswersAssumption`;
- times, days, limits and bounds are numbers: `PauseAssumption`, `TimeoutAssumption`,
  `BoundAssumption`, `CalendarAssumption`, `DaysAssumption`, `MailAssumption`,
  `ChatLimits`, `DishWritesBound`, `PickupBounds`, `CrashAssumption`;
- what the code fixes: the stages the office gives an inquiry (`StagesAssumption`),
  the roles (`RolesAssumption`), the channels of the intake (`ChannelAssumption`), the
  servers that open the file (`ServersAssumption`), profiles ordered by their creation
  (`ProfilesAreOrdered`), guarded pages are pages (`GuardedAssumption`), having no
  delivery address is one of the things a version can freeze (`AddressAssumption`).

TLC evaluates each of them on the runs.

| module | theorem | property it states | says |
|---|---|---|---|
| `OrderCore_proofs` | `TypeCorrectness` | | the tables keep their types |
| | `EffectiveStandIsPrinted` | `EffectiveIsPrinted` | the effective version is a printed version of its order |
| | `VersionsHaveOneHistory` | `VersionsFormAHistory` | numbers 1..n, a parent is an older version of the same order, and every change of data is named |
| | `PausesAreBalanced` | `PauseLogBalances` | as many resumes as pauses, and one pause more exactly while the order is on hold |
| | `PendingChangesAreUnprinted` | | a candidate has no print: the print is what makes a change effective (for `Spec`) |
| | `DecisionsStand` | `NothingIsTakenBack` | no Storno, snapshot or effective stand is ever taken back (for `Spec`: the service operation `SetCandidate`, which no handler calls, could name an older version) |
| | `ReadyIsTheNewestStand` | `ReadyReleasesNewestStand` | READY_TO_SEND releases only the newest version |
| `KitchenPrint_proofs` | `KitchenRowsAreWellFormed` | | attempts, requests, agent and tray keep their types |
| | `TheKitchenReleasesTheNewestStand` | `ReadyReleasesNewestStand` | the same gate, with the acknowledgement split over several transactions |
| | `TheKitchenMovesForward` | | the split acknowledgement never moves an effective pointer back |
| | `SplitAckImplementsOrderCore` | `Spec` | unless a Storno falls into the gap of section 5, `KitchenPrint` implements `OrderCore` |
| | `OnlyTheOvertakenAckUndoesAStorno` | | and only that gap can undo a Storno |
| | `PaperAndDatabaseAgree` | `PaperTrail` | one sheet per attempt, none after a refusal, no confirmation without one |
| | `AnAttemptEndsForGood` | `AttemptsEndOnce` | an attempt is settled once, and its facts are only added to |
| | `AttemptsFormAChain` | `AttemptsAreChained` | attempts of a version form one chain, and only the last is open |
| `CoreCommand_proofs` | `CommandTypeCorrectness` | | the state of a command keeps its type |
| | `LedgerTellsWhatHappened` | `LedgerIsTheTruth` | once, announced only after the commit, and answered as recorded |
| | `NoUpdateIsLost` | `NoLostUpdate` | a guarded command is carried out only on the state it expects |
| | `CommandHappensOnce` | `OnceSpec` | `CoreCommand` implements `CommandOnce` |
| | `HistoryTellsWhatIsThere` | `ServersFindTheirTables` | what the history of migrations names is there, whoever died where |
| `Offer_proofs` | `CommerceImplementsCore` | | `Offer` implements `OrderCore`, so all of its theorems hold for the orders of offers |
| | `CommerceTypeCorrectness` | | inquiries, offers, links and methods keep their types |
| | `AnAcceptanceIsTheEnd` | `AcceptanceIsFinal` | an acceptance is of the office's last word, and nothing follows it |
| | `ActiveOrderHasItsStage` | `StageFollowsOrder` | the inquiry of an active order stands at its stage |
| | `ConversionsAreWhole` | `ConversionIsWhole` | order, link and payment method appear and vanish together, and fit the offer |
| | `OfferedActionsPassTheGates` | `OfferedActionsAreAccepted` | what the panel offers passes the gates of the Core |
| | `NoStepIsForgotten` | `EveryStepIsShown` | what the Core would take next is a task or in the queue |
| | `OneStoryOfAnOrder` | `ViewsAgree` | task list, counters, queue and calendar tell the same of an order |
| | `PanelImplementsCommerce` | | `RemotePanel` implements `Offer`, so all of its theorems hold behind the panel |
| | `APageDecidesOnceOnWhatItShows` | `PageIsOneDecision` | a page saves nothing over what it did not show, and decides once |
| | `ARefusalDeniesNothingSaved` | | `RefusalIsTrue`, a half of `RefusalIsJust` |
| | `AFreshFormIsNotLate` | | what `RefusalIsJust` says of fresh pages, but for the Core's own refusals |
| `PaymentCash_proofs` | `PaymentsKeepTheOrder` | | `PaymentCash` implements `OrderCore` |
| | `CourierAndOfficeAgree` | `CashBooksAgree` | the courier's log and the payment row never contradict each other |
| | `DemandsStandOnDebts` | `DemandsAreDue` | nobody is asked for what is not owed or cannot be recorded |
| | `FactsLeaveATrace` | `NothingVanishes` | what leaves the payment row is in an audit log |
| `Intake_proofs` | `WhatComesInComesInOnce` | `ArrivesOnce` | forms and mails arrive once, and NEW calls are untouched |
| `EmployeeAuth_proofs` | `AccountsAreWellFormed` | | accounts and sessions keep their types, explicit permissions stay below the role's ceiling |
| | `ASuperadminRemains` | `SuperadminRemains` | one active superadmin remains, whoever demotes whom on which server |
| | `NoOldSessionAuthenticates` | `OldSessionsStayDead` | no session outlives a reset or a deactivation |
| | `RightsStayWithHolders` | `RightsComeFromHolders` | roles, permissions and reactivations come from a manager of both roles who holds them |
| `DeskTools_proofs` | `NoMessageGetsLost` | `NoMessageIsMissed` | one direct thread per pair, every message on its page, nothing unread that was not shown |
| | `SavesDoAsAsked` | `SavesAreAsAsked` | no old page switches or overwrites a dish; prices form a chain |
| | `TheSignalIsHonest` | `SignalIsHonest` | no other day's list, and blind only after a silence |
| | `CustomersMailFollowsTheOrder` | `MailFollowsTheOrder` | one document and one message per stand, in the order of the stands |
| | `OrderPageFollowsTheDocuments` | `PageFollowsTheDocuments` | the previewed document is the one frozen (unless the mode of delivery was changed since), the page reads the effective stand's document, and what can be sent is offered |
| | `AContactStaysOneTree` | `ContactIsOneTree` | every profile ends at one that is not merged, and what was one contact stays one |
| | `OfferedChargesAreDeclared` | `ChargesAreDeclared` | of the kinds it compares, what the Core accepts has the declared charges and no other, and what it refuses has not, or is a case the property names |

### How they go

Each safety theorem has an inductive invariant, a lemma per action that keeps it, a
lemma that gathers them, and a temporal step.  What the invariants add, and why:

**`HistoryInv`, `CoreInv`** (OrderCore).  Whether a version may become effective
depends on whose version the candidate pointer names, and "newest" on how versions are
numbered.  `HistoryInv`, which the service operations keep too (`ServiceSpec`), adds
that stored versions have existing owners, that numbers are gapless and that both
pointers name versions of their own order; `CoreInv` that the newest version is always
the one a pointer names, which `SetCandidate` could break.  That conjunct makes
READY_TO_SEND safe: an order without candidate whose effective version is printed has
nothing newer.  `Waiting` says that a candidate is unprinted; `ContentInv` adds the
data: each version differs from its parent only in what it names.

**`PauseInv`** (OrderCore).  The fold over the pause log finds the open pause only
because pauses and resumes alternate and each resume names the pause right before it;
then counting is an induction over appends, one per step.

**`KitchenInv`, `ChainInv`, `ReadStands`** (KitchenPrint).  What the kitchen request
and the agent hold may be outdated when they write, so the invariant says what is still
true of it at each position (`KitchenHolds`, `AgentHolds`) and that a sheet is in the
tray exactly as far as the attempt has come (`OneSheet`).  `ChainInv` says of every
version that its attempts are finitely many, bear different numbers 1..n, and that the
open one is the last.  `ReadStands` carries the refinement: while no Storno falls into
the gap, an order whose printed version is still waited for is as the acknowledgement
read it, so that writing the old row back is `AcknowledgePrint` of `OrderCore`, and
where it is not waited for, the write touches the version only.

**`CommandInv`** (CoreCommand).  `RecordedOnceDone` speaks of committed state while
the dangerous state is the open transaction.  `CommandInv` adds what is known at each
position of the request: the lock is held exactly from BEGIN to COMMIT (`LockInv`),
hence until the handler has written, the transaction sees the committed state
(`ReadPhase`), and afterwards it is ahead of it by exactly one effect, one stamp and
one ledger row (`Carried`, `CommitPhase`); the buffer holds at most the event of the
page in the handler, not yet announced (`FlushPhase`); and the answer about to be
given agrees with the ledger (`ReplyPhase`).

**`StartsInv`** (SchemaMigrations).  What a server believes applied was applied, by
itself or before it read; a script that is under way has left a prefix of its
statements, which nobody has recorded (`StartIsTrue`, `HistoryIsBuilt`).

**`OfferInv`, `AllOrderly`, `EvidenceInv`, `LinksInv`** (Offer).  Rows are typed and
an accepted number is that of a version: this makes the data a conversion hands over
data `CreateOrder` may take, hence `CommerceImplementsCore`.  `AllOrderly` carries the
negotiation: what was rejected had been sent, an accepted version was sent and is open,
and everything newer was withdrawn unsent.  `EvidenceInv` adds the dates: a version
is sent on the day it was created or later and never after today, every version but the
newest was sent or closed, and an inquiry has one offer; this is why the checks in the
constructor of `Offer` pass.  `LinksInv` says of every link that its order exists and
has the first version the offer gave it, that no other offer links to the same order,
and of every order with a row that some offer links to it.

**The views** (OfficeDesk).  The agreements are consequences of `CoreInv`,
`OfferInv`, `EvidenceInv` and `LinksInv` in a state, except that a confirmed event
stays confirmed, which follows from an effective pointer only moving forward.

**`PanelInv`, `FreshInv`** (RemotePanel).  `PanelInv` says for each page how far what
it shows can have been overtaken: where pointers, length of the log or stamp still are
those of the page, the row and the set of versions behind them are too (numbers only
grow, ids are never drawn twice).  The command on its way says what its page said.
`FreshInv` says of a page nothing happened to since that it could be rendered again.

**`PaymentInv`** (PaymentCash).  `LogIsSound` says what the courier's log owes to the
two counters a handoff's context is made of: a final event of the present context
stands for a payment still in the row, an earlier one for a correction, and nothing
follows a review.

**`IntakeInv`** (Intake).  A submission, the door's request, a stray request and a
receiver that has looked up and not yet inserted agree on the reference; a form told
to be accepted is a row; a worker's round only handles mails that are there, and a row
it works on is the only one of its call.

**`AuthInv`** (EmployeeAuth).  Nothing is known of a row a request has read but what
it was: `InHand` says of an account command that a manager of the role it read stands
behind it, `CliHolds` of the operator's command that its row is that of an account.  What was decided is made
good when the writes are carried out, behind the lock, for a row nobody has overtaken.
A password that was checked in some generation is never newer than its account, and
if it has the account's version, it is of its last generation (`Ages`, of sessions and
of logins under way); this survives the writes of the others because an account that
is not overtaken only grows (`Growth`): its version rises whenever `renewed` does.
There are accounts when one of them manages (`ManagersExist`), and permissions fit the
role of every account that is not overtaken (`GrantsFit`).

**`ChatInv`, `CatalogInv`, `PickupInv`, `ConfirmInv`, `ContactInv`** (the desk).  A
marker and a page's last message have been shown, logs fit the page, direct pairs
differ.  What a clerk's page knows of a dish is what the dish once was.  The document
kept and the copy being served are of a day that has begun.  Documents and messages
are in the order of the stands they were made from, and each stand's frozen context is
whole.  Profiles go into older ones that are stored (`Forest`), and while the Core did
not write, what a page has read of them still is so (`PageIsCurrent`).  An offer put
in is of known kinds with amounts in `Nat` (`OfferedIsPut`); the rest is about pure
functions.  Two lists are one bag when each charge is as often in the one as in the
other (`BagsAreCounts`).  Of each single kind that is the comparison the code makes of
its amount.  For the lines, what `LinesTake` has left after each line is followed as a
recursion (`Taking`): accepted, each line took one position of its own and all were
taken; and when no line is declared twice, equal counts leave each line exactly the
one position it fits, so that no line in turn can miss its own.

Two arguments recur in these proofs.  *Least counterexample.*  An induction theorem of the library
takes an operator as its parameter, which no installed prover can instantiate.  Its
place is taken by `LeastExists` (a nonempty set of numbers has a least element): the
set of counterexamples has none.  In this way `ChainExists` shows that the recursive
function of `RootOf` is one, and `MergeMoves` what a merge does to the end of every
chain.  *Grown together.*  Lemmas such as `HandlersAddUnprinted` or `OrdersMove` say
once what every step of `OrderCore` does to one order, so that the modules above it do
not look into its actions.

What the proofs corrected in the models: a clause of `ViewsAgree` held only for two
versions (section 3); `PanelTypeOK` did not say that the version an offer's page names
is one of its offer; the recursion of `RootOf` is a function of its own, and purged
rows of the outbox keep their place; the reference list of charges is made of named
operators, so that a proof can speak of its entries.

### Only model-checked

Liveness and whatever speaks of ENABLED, which the prover cannot reach:
`OverdueIsReplaced`, `SubmittedIsAnswered`, `EverybodyIsHeard`, `StartsSucceed`, and of
`RefusalIsJust` that the Core takes a fresh form (`IsRefused` is an ENABLED).  The
other properties of the passing runs are theorems.  `SplitAckImplementsOrderCore` is
about `CalmSpec`, and the account theorems exempt `overtaken` accounts; section 5 says
what happens otherwise.

## 5 Disagreements found

Five are runs that TLC is expected to refute; `PROJECT.json` quotes the sentences they
refute:

- `storno_during_ack`: the kitchen acknowledgement rewrites the whole order row
  from an earlier read and undoes a Storno that was committed in between, although
  `docs/architecture.md` calls a Storno irreversible.
- `migration_half_done`: `repositories/sqlite_migrations.py:30` promises migrations
  that are applied "once, transactionally and in version order".  Five of them call
  `executescript`, before which sqlite3 commits the transaction that `BEGIN
  IMMEDIATE` opened; each statement of the script then commits alone.  A server
  that dies between the script and the row of `schema_migrations` leaves tables
  nobody recorded, and its next start fails at `CREATE TABLE`, as would that of
  every server that opens this repository.  Migration 8 of the orders has
  `IF NOT EXISTS` throughout and repairs itself; the property leaves it out.
- `last_superadmin`: a login reads the account, compares the password hash and writes
  the whole row back.  If the account was made SUPERADMIN in between, and on the
  strength of that the other superadmin demoted, the old role returns and no active
  superadmin is left, which the guard of the demotion and the settings page exclude.
- `new_stand_document`: the order page offers a document only while the order has
  none, of whichever stand; a stand that becomes effective afterwards gets none from
  the panel, although `docs/api/core-office-api.md` and
  `tests/unit/test_order_confirmation_document.py` have one per version.
- `reconversion`: a cancelled order keeps its row and blocks every other conversion of
  its inquiry, where the user manual and a comment in the order repository promise a
  re-conversion.  `docs/decisions/README.md:281` sides with the code.  That an inquiry
  has one order at a time is the gate of `CreateOrder` itself, so it is a lemma of the
  proofs (`OneOrderPerInquiry`) and no property of a run.

The following were met while translating.  They are the reason for conditions in
the properties, which the comments there name.

Orders and print attempts
- A change of the delivery address drops the delivery window and the exact times
  of the version it starts from.
- The docstring allows an acknowledgement after its deadline, code and test refuse
  it.  Through the Office API, an attempt that nobody claimed in time is never
  replaced, although the agent will not be offered it again.

Offers and the desk
- `PurgeConverted` deletes the conversion link with the order and leaves the
  acceptance, so it can be converted again, although
  `docs/proposals/offer_contract_v1.md:408` grants one acceptance one order.
- `ReplayConversion` writes the inquiry's stage whatever became of the order: sent
  again after Storno under a new command id, it moves the stage back.
- The calendar asks the latest offer version whether it holds the date.  With
  version 1 sent, version 2 prepared and withdrawn unsent, and version 1 accepted,
  it shows the entry of the inquiry, where `tests/unit/test_calendar_projection.py:214`
  expects the offer's.  The offer queue shows the same offer as withdrawn while
  version 1 can still be accepted; its `convert_accepted` looks neither at delivery
  data nor at verification nor at orders.  The counter of accepted offers includes
  lost inquiries.
- The validation of charges matches dishware lines one by one, so two identical
  additional lines can never be accepted; snapshots without a
  `charges_definition` are taken as they are.  A fee with another name than that of
  the return pickup is accepted whether declared or not
  (`services/offer_snapshot_validation.py:990`).

The panel as a client
- After a lost answer, a resume that was recorded is sent again and told
  `order_not_paused` (`docs/api/core-office-api.md`, section on resubmission);
  evidence of an offer and conversion likewise, because the client reads before it
  posts.  All forms of an offer's page share one command id, so the second one
  gets `409 command_id_conflict`.
- Rejection, withdrawal and sending act on the version read at submission, not on
  the one shown.  The offer's page shows sending and conversion even where the
  inquiry's state makes the Core refuse them.
- `docs/api/core-office-api.md:197` says the POST handler makes no second Core read;
  after conversion and change of method there is one, and when it fails the panel
  says nothing was saved (`ui/office_panel_http.py:160`) of a command that was.
- A remote conversion of an offer that already has an order returns it without
  comparing the payment method.

Payments and confirmations
- A Quittung or invoice recorded before a revision can not be recorded anew, so the
  steps "Quittung neu erstellen" and "Rechnungskorrektur" only end with a change of
  method.  A Quittung printed after a proposal and before it took effect counts as
  current (`docs/contracts/courier-cash-handoff-v1/README.md:46` asks for the
  effective one).
- A correction of a cash event other than the last leaves the payment recorded; a
  change of method or a revision during custody strands the money; the purge
  deletes cash events in spite of the append-only triggers.
- The preview of a confirmation reads the inquiry's mode of delivery, the document
  the frozen one: creation is offered and refused, or an address is previewed that
  the document does not have.  The page offers to send documents of older stands and of
  cancelled or unready orders, which the Core refuses.  A document
  prepared without an e-mail address can never be sent.

Accounts, intake, contacts, chat
- Account rows are written whole and without a comparison: a recovery reset or a
  change of role can be undone by a login that was hashing, and `auth_version` goes
  back (`overtaken`; one consequence is the run `last_superadmin`).  A bootstrap that
  dies between account and permissions leaves a superadmin without any.  `touch` reopens a session that was just logged
  out.
- The staging form asks for e-mail *or* telephone (`ui/staging_site_assets/app.js:2`)
  while the Core wants both; its 400 becomes a 502 "später erneut".
- A mail that can not be parsed ends the round and blocks newer ones while it is
  among those listed, and mails beyond that window are never read.  From pages
  left open, a call can become an inquiry, a task and a link, and after a link a
  second task.
- The remote panel has no repository of contact profiles, so its profiles and notes
  live in memory.  Notes are collected over two levels of merges only.  When the
  Core ensures a profile while a page does, the contact can split (`overtaken`).
- A chat thread takes no message after its 200th: the readback lists the oldest 200,
  does not find the new one and rolls back.  `mark_read` may move a marker back.

## 6 Not modelled

The mapped definitions stand for about 16 % of the implementation's lines.  Most
of the rest has no state and no control a model could keep:

- Rendering, PDF layout, routing, parsing and validation of bodies and answers,
  read routes and view builders, which are the larger part of `office_panel*.py`,
  `office_api.py`, `office_api_views.py` and `remote_core_client.py`; projections
  that only format what they read; capacity arithmetic and recommendations.
- The Kitchen API's command ledger (see `KitchenPrint`), the operational-context
  columns other than address and mode of delivery, the commercial snapshot: written
  with a version and never again.
- The print agent's configuration and CUPS polling, abstracted to the printer's
  verdict; the read caches of the remote client.
- Of an offer: variants, positions, prices and VAT apart from the charges, and the
  frozen document.  Of a confirmation: names, totals, hashes, payment method (a
  method changed after the freeze is still sent with the old one).
- Wall clocks that step back: the replay of the pause log, the order of chat
  messages, a catalog stamp that does not move.
- Forced change of passwords and expiry of sessions, which only close.
- Rate limits of the intake; customer references; completing manual tasks (one
  guarded write each); contact notes, which hang on profiles; chat mentions and
  searches.
- The Configurator handoff: a one-time code consumed by a single conditional
  update, which a property could only restate.  Of the migrations: the statements of
  each, and the servers that only open repositories with plain ones.  Backups are shell scripts around
  gpg and ssh.  Demo data and adapters to outside services.

## 7 Plan

Done: `OrderCore`, `KitchenPrint`, `CoreCommand` with `CommandOnce`, `Offer`,
`OfficeDesk`, `RemotePanel`, `PaymentCash`, `Confirmation`, `EmployeeAuth`,
`Intake`, `ContactProfiles`, `EmployeeChat`, `CatalogDishes`, `PickupSignal`,
`OfferCharges`, `SchemaMigrations`, with the proofs of section 4.  What TLC checks as
a safety property of these modules is proved as well, with the exceptions section 4
names.  Left, most valuable first:

1. A pause log sorted by a clock that can step back.
2. What is left of an account after a write has overtaken its row: which promises
   come back with the next command, and which need the operator.
3. The handoff code together with the inquiry it prefills.
