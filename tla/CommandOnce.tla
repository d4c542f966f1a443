------------------------------ MODULE CommandOnce ------------------------------
(****************************************************************************)
(* What the Office API promises to the page that posts a command: the        *)
(* command takes effect at most once, in one step, on the state the page     *)
(* was rendered from; it is announced only afterwards; and the page is told  *)
(* the result of that one effect however often it is submitted.              *)
(****************************************************************************)
EXTENDS Naturals

CONSTANTS
    Pages,     \* rendered forms, each with a command id of its own
    Guarded,   \* those whose command names the state it expects
    Args,      \* what a user can put into a form
    Null

VARIABLES
    stamp,      \* updated_at of the row the commands are about
    expect,     \* per page: the stamp it was rendered from, Null if not loaded
    done,       \* per page: the arguments and the result of its effect, if any
    announced,  \* per page: domain events sent downstream
    told        \* per page: the answers that reached the user

onceVars == <<stamp, expect, done, announced, told>>

OnceInit ==
    /\ stamp     = 0
    /\ expect    = [p \in Pages |-> Null]
    /\ done      = [p \in Pages |-> Null]
    /\ announced = [p \in Pages |-> 0]
    /\ told      = [p \in Pages |-> {}]

LoadOnce(p) ==
    /\ expect[p] = Null
    /\ expect' = [expect EXCEPT ![p] = stamp]
    /\ UNCHANGED <<stamp, done, announced, told>>

Perform(p, a) ==
    /\ expect[p] # Null
    /\ done[p] = Null
    /\ p \in Guarded => expect[p] = stamp
    /\ stamp' = stamp + 1
    /\ done' = [done EXCEPT ![p] = [args |-> a, result |-> stamp + 1]]
    /\ UNCHANGED <<expect, announced, told>>

PerformElsewhere ==
    /\ stamp' = stamp + 1
    /\ UNCHANGED <<expect, done, announced, told>>

Announce(p) ==
    /\ done[p] # Null
    /\ announced[p] = 0
    /\ announced' = [announced EXCEPT ![p] = 1]
    /\ UNCHANGED <<stamp, expect, done, told>>

\* Answers arrive: "done" with the arguments and the result of the effect,
\* "conflict" only if something has been done.
Tell(p) ==
    /\ told' = [told EXCEPT ![p] = @ \cup told'[p]]
    /\ \A answer \in told'[p] :
         /\ answer.kind = "done" => /\ done[p] # Null
                                    /\ answer.args = done[p].args
                                    /\ answer.result = done[p].result
         /\ answer.kind = "conflict" => done[p] # Null
    /\ UNCHANGED <<stamp, expect, done, announced>>

OnceNext ==
    \/ PerformElsewhere
    \/ \E p \in Pages :
         \/ LoadOnce(p)
         \/ \E a \in Args : Perform(p, a)
         \/ Announce(p)
         \/ Tell(p)

OnceSpec == OnceInit /\ [][OnceNext]_onceVars

=============================================================================
