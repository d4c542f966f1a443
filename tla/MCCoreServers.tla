----------------------------- MODULE MCCoreServers -----------------------------
(* What must happen in the end in the processes of the Core: how they start on   *)
(* one database file, how one of them, once it serves, works off the commands,   *)
(* and how office, kitchen API and agent work off a print.  The first state says *)
(* which of the three moves: they share nothing but the file.                    *)
EXTENDS KitchenPrint, CoreCommand, SchemaMigrations

VARIABLE phase

serverVars == <<kitchenVars, commandVars, migrationVars, phase>>

ServersInit ==
    /\ phase \in {"start", "serve", "print"}
    /\ KitchenInit
    /\ CommandInit
    /\ MigrationInit
    /\ phase # "start" => documents = {}

ServersNext ==
    /\ UNCHANGED phase
    /\ \/ phase = "start" /\ MigrationNext /\ UNCHANGED <<kitchenVars, commandVars>>
       \/ phase = "serve" /\ CommandNext /\ UNCHANGED <<kitchenVars, migrationVars>>
       \/ /\ phase = "print" /\ KitchenNext /\ StornoWaits
          /\ UNCHANGED <<commandVars, migrationVars>>
       \* The servers have started and stay up.
       \/ /\ phase = "start" /\ \A s \in Servers : starting[s].step = "serving"
          /\ UNCHANGED <<kitchenVars, commandVars, migrationVars>>

\* A server that is running goes on with its start, and systemd starts one that is
\* down again (Restart=on-failure); the rest is fair as its module says.
ServersSpec ==
    /\ ServersInit
    /\ [][ServersNext]_serverVars
    /\ \A s \in Servers : WF_migrationVars(phase = "start" /\ StartStep(s))
    /\ CommandFairness
    /\ PrintFairness

\* Every server starts, where the servers are what moves.
StartsSucceed == phase = "start" => EveryServerStarts

=============================================================================
