-------------------------- MODULE ContactProfiles --------------------------
(* The contact profiles of the office: stable identities for internal notes,   *)
(* tasks and chat references.  Customers have no key of their own; a profile    *)
(* is found through aliases (contact key, e-mail, phone, linkage, inquiry) and  *)
(* profiles whose aliases meet are merged into the oldest, for good.            *)
(*                                                                              *)
(* A page of the panel ensures profiles while it renders, outside any           *)
(* transaction: every statement commits on its own, the process can end         *)
(* between two of them, and the Core, another process on the same database,     *)
(* ensures the profile of a task's contact in one transaction.                  *)
EXTENDS Integers, FiniteSets, FiniteSetsExt

CONSTANTS
    Profiles,       \* profile ids in the order of (created_at, contact_profile_id)
    Aliases,        \* pairs of alias type and value
    NoProfile

ASSUME ProfilesAreOrdered == Profiles \subseteq Nat /\ NoProfile \notin Profiles

VARIABLES
    mergedInto,     \* per stored profile: merged_into_id; profiles are never deleted
    owner,          \* rows of contact_profile_aliases
    ensuring,       \* what a page that renders has read and still has to write
    overtaken       \* whether the Core wrote while a page was at it

contactVars == <<mergedInto, owner, ensuring, overtaken>>

StoredProfiles == DOMAIN mergedInto
NotEnsuring == [root |-> NoProfile, losers |-> {}, left |-> {}, create |-> FALSE]

\* merged_into_id followed to its end; the code stops at a profile met twice,
\* here after as many steps as there are profiles.
Followed[n \in 0..Cardinality(StoredProfiles)] ==
    [q \in Profiles |->
        IF n = 0 \/ q \notin StoredProfiles \/ mergedInto[q] = NoProfile
        THEN q ELSE Followed[n - 1][mergedInto[q]]]

RootOf(p) == Followed[Cardinality(StoredProfiles)][p]

Found(as) == {RootOf(owner[a]) : a \in {b \in as : owner[b] # NoProfile}}

\* The oldest of the profiles found.
Winner(as) == Min(Found(as))

\* Reads the roots of all aliases and decides: a new profile, or the winner and
\* the losers it takes over.
StartEnsure(as) ==
    /\ ensuring = NotEnsuring
    /\ LET roots == Found(as)
       IN  ensuring' =
             IF roots = {}
             THEN [root |-> NoProfile, losers |-> {}, left |-> as, create |-> TRUE]
             ELSE [root |-> Winner(as), losers |-> roots \ {Winner(as)},
                   left |-> as, create |-> FALSE]
    /\ UNCHANGED <<mergedInto, owner, overtaken>>

CreateProfile ==
    /\ ensuring.create
    /\ \E p \in Profiles \ StoredProfiles :
         /\ mergedInto' = [q \in StoredProfiles \cup {p} |->
                             IF q = p THEN NoProfile ELSE mergedInto[q]]
         /\ ensuring' = [ensuring EXCEPT !.root = p, !.create = FALSE]
    /\ UNCHANGED <<owner, overtaken>>

MarkMerged(p) ==
    /\ p \in ensuring.losers
    /\ mergedInto' = [mergedInto EXCEPT ![p] = ensuring.root]
    /\ ensuring' = [ensuring EXCEPT !.losers = @ \ {p}]
    /\ UNCHANGED <<owner, overtaken>>

WriteAlias(a) ==
    /\ ~ ensuring.create
    /\ a \in ensuring.left
    /\ owner' = [owner EXCEPT ![a] = ensuring.root]
    /\ ensuring' = IF ensuring.left = {a} THEN NotEnsuring
                   ELSE [ensuring EXCEPT !.left = @ \ {a}]
    /\ overtaken' = (overtaken /\ ensuring.left # {a})
    /\ UNCHANGED mergedInto

\* An alias may be written before the merges are.
UpsertAliasFirst(a) == WriteAlias(a)

\* The aliases are written after the merges, one statement each.
UpsertAlias(a) == ensuring.losers = {} /\ WriteAlias(a)

\* The panel's process ends while a page renders.
PageBreaksOff ==
    /\ ensuring # NotEnsuring
    /\ ensuring' = NotEnsuring
    /\ overtaken' = FALSE
    /\ UNCHANGED <<mergedInto, owner>>

\* A task about a contact: the Core ensures the profile in its own transaction.
EnsureForTask(as) ==
    /\ LET roots == Found(as)
       IN  \E root \in IF roots = {} THEN Profiles \ StoredProfiles
                       ELSE {Winner(as)} :
             /\ mergedInto' = [q \in StoredProfiles \cup {root} |->
                                 IF q \in roots \ {root} THEN root
                                 ELSE IF q \in StoredProfiles THEN mergedInto[q]
                                 ELSE NoProfile]
             /\ owner' = [a \in Aliases |-> IF a \in as THEN root ELSE owner[a]]
    /\ overtaken' = (overtaken \/ ensuring # NotEnsuring)
    /\ UNCHANGED ensuring

ContactInit ==
    /\ mergedInto = [p \in {} |-> NoProfile]
    /\ owner = [a \in Aliases |-> NoProfile]
    /\ ensuring = NotEnsuring
    /\ overtaken = FALSE

ContactNext ==
    \/ \E as \in (SUBSET Aliases) \ {{}} : StartEnsure(as) \/ EnsureForTask(as)
    \/ CreateProfile
    \/ \E p \in Profiles : MarkMerged(p)
    \/ \E a \in Aliases : UpsertAlias(a)
    \/ PageBreaksOff

ContactSpec == ContactInit /\ [][ContactNext]_contactVars

ContactTypeOK ==
    /\ StoredProfiles \subseteq Profiles
    /\ \A p \in StoredProfiles : mergedInto[p] \in StoredProfiles \cup {NoProfile}
    /\ owner \in [Aliases -> StoredProfiles \cup {NoProfile}]
    /\ ensuring \in [root : StoredProfiles \cup {NoProfile}, losers : SUBSET StoredProfiles,
                     left : SUBSET Aliases, create : BOOLEAN]
    /\ overtaken \in BOOLEAN

\* Every profile ends at one that is not merged, whoever merged what in which
\* order: profiles go into older ones only, so two processes that decide from
\* what they read before never make a circle, in which notes would hide.
MergesEnd ==
    \A p \in StoredProfiles :
        /\ RootOf(p) \in StoredProfiles
        /\ mergedInto[RootOf(p)] = NoProfile

Together(a, b) == /\ NoProfile \notin {owner[a], owner[b]}
                  /\ RootOf(owner[a]) = RootOf(owner[b])

\* What once was one contact stays one, through later merges and through pages
\* that broke off between two statements: an alias that moves takes its old
\* profile along.  Not so when the Core wrote between the reads and the writes
\* of a page: the page then merges profiles the Core had just merged elsewhere.
ContactsStayTogether ==
    [][\A a, b \in Aliases : Together(a, b) /\ ~ overtaken => Together(a, b)']_contactVars

\* A contact is one tree of profiles, and stays one.
ContactIsOneTree == [](ContactTypeOK /\ MergesEnd) /\ ContactsStayTogether

=============================================================================
