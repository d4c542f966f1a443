--------------------------- MODULE SchemaMigrations ---------------------------
(****************************************************************************)
(* How the servers bring one database file up to date when they start.      *)
(* Each opens its repositories in an order of its own; a repository reads   *)
(* the history of its component (schema_migrations) and applies what is     *)
(* missing, one migration after the other, while other servers do the same. *)
(*                                                                          *)
(* A migration runs between BEGIN IMMEDIATE and the commit of its row.      *)
(* Those that call executescript are different: sqlite3 commits the open    *)
(* transaction before a script and every statement of it on its own, so     *)
(* the write lock is gone and the row is written later.                     *)
(*                                                                          *)
(* A statement stands for the tables or for the triggers of a script.  A    *)
(* server that is killed, or finds the file locked for too long, is down    *)
(* until systemd starts it again.                                           *)
(****************************************************************************)
EXTENDS Naturals, Sequences, FiniteSets, FiniteSetsExt

CONSTANTS
    Servers,      \* the servers that share the file
    Documents,    \* confirmation documents older than the operational context
    MaxCrashes    \* bound of the crashes

ASSUME ServersAssumption ==
    Servers \subseteq {"office_api", "kitchen_api", "kiosk", "office_panel"}

ASSUME CrashAssumption == MaxCrashes \in Nat

VARIABLES
    recorded,    \* per component: the versions in schema_migrations
    built,       \* per component: the statements that have taken effect
    documents,   \* confirmation documents from before the upgrade
    contexts,    \* those with an operational context
    starting,    \* per server: how far its start has come
    crashes      \* counter of the crashes, for the bound

migrationVars == <<recorded, built, documents, contexts, starting, crashes>>

Components == {"orders", "kitchen_print", "commercial", "documents", "outbound",
               "offer_documents"}

Statements == {1, 2}

\* A migration of plain statements inside the transaction.
Atomic == [script |-> FALSE, guarded |-> TRUE, fills |-> FALSE]

\* One that creates its tables, then its triggers, by scripts.
Script == [script |-> TRUE, guarded |-> FALSE, fills |-> FALSE]

\* Faulty variant: migration 8 of the orders without IF NOT EXISTS.
ContextScriptUnguarded == [script |-> TRUE, guarded |-> FALSE, fills |-> TRUE]

\* Migration 8 of the orders: IF NOT EXISTS everywhere, and then the contexts of
\* the documents there are.
ContextScript == [script |-> TRUE, guarded |-> TRUE, fills |-> TRUE]

OrderMigrations == [n \in 1..11 |-> IF n = 8 THEN ContextScript ELSE Atomic]

\* _MIGRATIONS of each repository.
Migrations(c) == CASE c = "orders"        -> OrderMigrations
                   [] c = "kitchen_print" -> <<Atomic>>
                   [] c = "commercial"    -> <<Script, Atomic>>
                   [] OTHER               -> <<Script>>

\* The repositories a server opens, in this order; the panel only where it works on
\* the file itself.  Their others have migrations of plain statements only.
Opens(s) == CASE s = "office_api"  -> <<"orders", "kitchen_print", "documents", "commercial",
                                        "outbound", "offer_documents">>
              [] s = "kitchen_api" -> <<"orders", "kitchen_print", "commercial", "documents">>
              [] s = "kiosk"       -> <<"orders", "commercial">>
              [] s = "office_panel" -> <<"orders", "commercial", "offer_documents",
                                         "documents", "outbound", "kitchen_print">>

\* The office shares one connection in autocommit mode (from_connection); the others
\* open one per repository, where sqlite3 begins transactions itself.
Autocommits(s) == s \in {"office_api", "office_panel"}

Down == [step |-> "down", at |-> 0, known |-> {}, statement |-> 0]

Progress == [step : {"down", "open", "apply", "script", "record", "serving"},
             at : 0..6, known : SUBSET (1..11), statement : 0..3]

Current(s) == Opens(s)[starting[s].at]

\* Versions the server still has to apply, by the history it has read.
Pending(s) == DOMAIN Migrations(Current(s)) \ starting[s].known

Version(s) == Min(Pending(s))

Migration(s) == Migrations(Current(s))[Version(s)]

Objects(c, n) ==
    IF Migrations(c)[n].script THEN {n} \X Statements ELSE {<<n, 1>>}

Missing == documents \ contexts

-----------------------------------------------------------------------------
Start(s) ==
    /\ starting[s].step = "down"
    /\ starting' = [starting EXCEPT ![s] = [Down EXCEPT !.step = "open", !.at = 1]]
    /\ UNCHANGED <<recorded, built, documents, contexts, crashes>>

\* (A history with a gap, or of a later program, is refused.)
ReadHistory(s) ==
    /\ starting[s].step = "open"
    /\ recorded[Current(s)] = 1..Cardinality(recorded[Current(s)])
    /\ starting' = [starting EXCEPT ![s] =
                      [@ EXCEPT !.step = "apply", !.known = recorded[Current(s)]]]
    /\ UNCHANGED <<recorded, built, documents, contexts, crashes>>

\* The row is looked up again under the lock: another server was faster.
FindApplied(s) ==
    /\ starting[s].step = "apply" /\ Pending(s) # {}
    /\ Version(s) \in recorded[Current(s)]
    /\ starting' = [starting EXCEPT ![s].known = @ \cup {Version(s)}]
    /\ UNCHANGED <<recorded, built, documents, contexts, crashes>>

ApplyAtomic(s) ==
    /\ starting[s].step = "apply" /\ Pending(s) # {}
    /\ Version(s) \notin recorded[Current(s)]
    /\ ~ Migration(s).script
    /\ built' = [built EXCEPT ![Current(s)] = @ \cup Objects(Current(s), Version(s))]
    /\ recorded' = [recorded EXCEPT ![Current(s)] = @ \cup {Version(s)}]
    /\ starting' = [starting EXCEPT ![s].known = @ \cup {Version(s)}]
    /\ UNCHANGED <<documents, contexts, crashes>>

\* executescript: the COMMIT before the script gives the lock away.
BeginScript(s) ==
    /\ starting[s].step = "apply" /\ Pending(s) # {}
    /\ Version(s) \notin recorded[Current(s)]
    /\ Migration(s).script
    /\ starting' = [starting EXCEPT ![s] = [@ EXCEPT !.step = "script", !.statement = 1]]
    /\ UNCHANGED <<recorded, built, documents, contexts, crashes>>

\* Faulty variant: "table already exists" is taken for a script that has run.
StatementTakesOver(s) ==
    LET statement == <<Version(s), starting[s].statement>>
    IN  /\ starting[s].step = "script"
        /\ IF statement \in built[Current(s)]
           THEN /\ starting' = [starting EXCEPT ![s].step = "record"]
                /\ UNCHANGED built
           ELSE /\ built' = [built EXCEPT ![Current(s)] = @ \cup {statement}]
                /\ starting' = [starting EXCEPT ![s] =
                     [@ EXCEPT !.step = IF starting[s].statement = 2 THEN "record" ELSE "script",
                               !.statement = starting[s].statement + 1]]
        /\ UNCHANGED <<recorded, documents, contexts, crashes>>

\* Each statement of a script commits alone.  One that creates what exists
\* already raises, and the server gives up.
RunStatement(s) ==
    LET statement == <<Version(s), starting[s].statement>>
    IN  /\ starting[s].step = "script"
        /\ IF statement \in built[Current(s)] /\ ~ Migration(s).guarded
           THEN /\ starting' = [starting EXCEPT ![s] = Down]
                /\ UNCHANGED built
           ELSE /\ built' = [built EXCEPT ![Current(s)] = @ \cup {statement}]
                /\ starting' = [starting EXCEPT ![s] =
                     [@ EXCEPT !.step = IF starting[s].statement = 2 THEN "record" ELSE "script",
                               !.statement = starting[s].statement + 1]]
        /\ UNCHANGED <<recorded, documents, contexts, crashes>>

\* _backfill_operational_context_from_confirmations runs in migration 8 and each
\* time the orders are opened; in autocommit mode every row commits alone.
Backfills(s) ==
    /\ Current(s) = "orders"
    /\ \/ starting[s].step = "record" /\ Migration(s).fills
       \/ starting[s].step = "apply" /\ Pending(s) = {}

FillOne(s, d) ==
    /\ starting[s].step \in {"record", "apply"}
    /\ Autocommits(s)
    /\ Backfills(s)
    /\ d \in Missing
    /\ contexts' = contexts \cup {d}
    /\ UNCHANGED <<recorded, built, documents, starting, crashes>>

\* Otherwise the rows are in the transaction that is committed next.
Filled(s) == IF Backfills(s) THEN documents ELSE contexts

ReadyToCommit(s) == Autocommits(s) /\ Backfills(s) => Missing = {}

\* The row of a script that has run; where another server wrote it, the
\* IntegrityError says so and is as good.
RecordScript(s) ==
    /\ starting[s].step = "record"
    /\ ReadyToCommit(s)
    /\ contexts' = IF Version(s) \in recorded[Current(s)] THEN contexts ELSE Filled(s)
    /\ recorded' = [recorded EXCEPT ![Current(s)] = @ \cup {Version(s)}]
    /\ starting' = [starting EXCEPT ![s] =
                      [@ EXCEPT !.step = "apply", !.statement = 0,
                                !.known = starting[s].known \cup {Version(s)}]]
    /\ UNCHANGED <<built, documents, crashes>>

\* The repository is open, on to the next one.
Opened(s) ==
    /\ starting[s].step = "apply" /\ Pending(s) = {}
    /\ ReadyToCommit(s)
    /\ contexts' = Filled(s)
    /\ starting' = [starting EXCEPT ![s] =
                      IF @.at = Len(Opens(s)) THEN [Down EXCEPT !.step = "serving"]
                      ELSE [Down EXCEPT !.step = "open", !.at = starting[s].at + 1]]
    /\ UNCHANGED <<recorded, built, documents, crashes>>

Crash(s) ==
    /\ crashes < MaxCrashes
    /\ starting[s].step # "down"
    /\ crashes' = crashes + 1
    /\ starting' = [starting EXCEPT ![s] = Down]
    /\ UNCHANGED <<recorded, built, documents, contexts>>

-----------------------------------------------------------------------------
\* A database where every migration up to the given one of the orders has run
\* and the documents exist, or an empty one.
Old == [c \in Components |-> IF c = "orders" THEN 1..7
                             ELSE IF c = "documents" THEN {1} ELSE {}]

MigrationInit ==
    /\ \/ /\ recorded = [c \in Components |-> {}]
          /\ documents = {}
       \/ /\ recorded = Old
          /\ documents = Documents
    /\ built = [c \in Components |-> UNION {Objects(c, n) : n \in recorded[c]}]
    /\ contexts = {}
    /\ starting = [s \in Servers |-> Down]
    /\ crashes = 0

StartStep(s) ==
    \/ Start(s) \/ ReadHistory(s)
    \/ FindApplied(s) \/ ApplyAtomic(s)
    \/ BeginScript(s) \/ RunStatement(s) \/ RecordScript(s)
    \/ \E d \in Documents : FillOne(s, d)
    \/ Opened(s)

MigrationNext == \E s \in Servers : StartStep(s) \/ Crash(s)

MigrationSpec == MigrationInit /\ [][MigrationNext]_migrationVars

-----------------------------------------------------------------------------
(* Properties. *)

MigrationTypeOK ==
    /\ recorded \in [Components -> SUBSET (1..11)]
    /\ built \in [Components -> SUBSET ((1..11) \X Statements)]
    /\ contexts \subseteq documents
    /\ starting \in [Servers -> Progress]

\* What the history says is there, gapless and with its last trigger, whoever
\* of the servers wrote it and wherever one of them died; a server that serves
\* finds every table of its repositories, and every document of the time before
\* the contexts has got its context.
ServersFindTheirTables ==
    /\ MigrationTypeOK
    /\ \A c \in Components :
         /\ recorded[c] = 1..Cardinality(recorded[c])
         /\ \A n \in recorded[c] : Objects(c, n) \subseteq built[c]
    /\ \A s \in Servers : starting[s].step = "serving" =>
         /\ \A i \in DOMAIN Opens(s) : recorded[Opens(s)[i]] = DOMAIN Migrations(Opens(s)[i])
         /\ Missing = {}

\* The server has carried out a statement of the script and is still about it.
Applies(s, c, n) ==
    /\ starting[s].step \in {"script", "record"}
    /\ starting[s].statement > 1
    /\ Current(s) = c /\ Version(s) = n

\* Objects of a migration that is not recorded and that nobody is applying.
HalfDone(c, n) ==
    /\ n \notin recorded[c]
    /\ built[c] \cap ({n} \X Statements) # {}
    /\ \A s \in Servers : ~ Applies(s, c, n)

\* "Apply pending migrations once, transactionally and in version order."
\* (sqlite_migrations.py): a migration that did not get as far as its row has
\* left nothing behind that its next run, which creates it again, would trip over.
NothingHalfDone ==
    \A c \in Components : \A n \in DOMAIN Migrations(c) :
        ~ Migrations(c)[n].guarded => ~ HalfDone(c, n)

\* Every server starts in the end, however the starts of the others and crashes
\* fall together, in the middle of the orders' script too, unless a crash has
\* left a script half done that creates its tables without IF NOT EXISTS.
EveryServerStarts ==
    \/ <>(\E c \in Components \ {"orders"} : \E n \in DOMAIN Migrations(c) : HalfDone(c, n))
    \/ \A s \in Servers : <>[](starting[s].step = "serving")

=============================================================================
