----------------------------- MODULE MCCoreCommand -----------------------------
(* How one command of the Core runs, and how its commands meet the database calls *)
(* of the kitchen API: the first state says which of the two moves.  Ids of       *)
(* versions and print jobs are numbers, drawn one after another, which stands for *)
(* a symmetry of these ids.                                                       *)
EXTENDS KitchenPrint, CoreCommand, TLC

VARIABLE part

coreCommandVars == <<kitchenVars, commandVars, part>>

CoreCommandInit ==
    /\ part \in {"prints", "commands"}
    /\ KitchenInit
    /\ CommandInit

DrawnInOrder(rows) ==
    \A m, n \in DOMAIN rows :
        m < n /\ rows[m].state = "unborn" => rows[n].state = "unborn"

\* With a second version of the order, the third print attempt is used before the
\* last tick of the clock; with one version it is used at any time.
PrintBound ==
    \/ versions[2].state = "unborn"
    \/ jobs[3].state = "unborn"
    \/ now < MaxClock

\* Two requests wait at a time.  A page without a guard never compares the state it
\* was rendered from: it is rendered before anything else happens.
CommandBound ==
    /\ Cardinality(inbox) <= 2
    /\ \A p \in Pages \ Guarded : expect[p] \in {0, Null}

RenderedFirst == (\E p \in Pages \ Guarded : expect[p] = Null) => expect' # expect

CoreCommandNext ==
    /\ UNCHANGED part
    /\ \/ /\ part = "prints" /\ KitchenNext /\ PrintBound'
          /\ DrawnInOrder(versions') /\ DrawnInOrder(jobs')
          /\ UNCHANGED commandVars
       \/ /\ part = "commands" /\ CommandNext /\ RenderedFirst /\ CommandBound'
          /\ UNCHANGED kitchenVars

CoreCommandSpec == CoreCommandInit /\ [][CoreCommandNext]_coreCommandVars

CommandSymmetry == Permutations(Args)

=============================================================================
