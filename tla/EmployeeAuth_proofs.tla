------------------------ MODULE EmployeeAuth_proofs ------------------------
(* What the employees' accounts promise, for any number of accounts, sessions,   *)
(* servers, versions and requests, however these interleave with the operator's  *)
(* command line and the Office API.                                              *)
EXTENDS EmployeeAuth, FiniteSetTheorems, TLAPS

ApiWork == [step : {"idle", "check", "write"}, session : Sessions \cup {None},
            row : SessionRow]
CliWork == [step : {"idle", "grant", "write", "revoke"}, target : Accounts \cup {None},
            row : AccountRow]

AuthTypes ==
    /\ accounts \in [Accounts -> AccountRow]
    /\ grants \in [Accounts -> SUBSET Permissions]
    /\ sessions \in [Sessions -> SessionRow]
    /\ request \in [Servers -> Request]
    /\ api \in ApiWork
    /\ cli \in CliWork
    /\ renewed \in [Accounts -> Nat]
    /\ overtaken \subseteq Accounts

\* What a request under way has in its hands; an account command has a manager behind
\* it.  Nothing is said of the tables: they may have moved on.
InHand(r) ==
    /\ r.step \in {"login", "session", "password", "revoke"} => r.target \in Accounts
    /\ r.step \in {"login", "password"} => r.row.state # "unborn"
    /\ r.step = "password" => r.row.version < MaxVersion
    /\ r.step = "account" =>
         /\ r.role \in Roles
         /\ r.target # None => /\ r.target \in Accounts
                               /\ r.row.state # "unborn"
                               /\ r.row.role \in Manageable(r.role)

RequestsHold == \A w \in Servers : InHand(request[w])

CliHolds ==
    cli.step # "idle" =>
        /\ cli.target \in Accounts
        /\ cli.row.state # "unborn"
        /\ cli.step = "write" => cli.row.version < MaxVersion
        /\ cli.step = "grant" => cli.row.role = "SUPERADMIN"

\* A password of version v, checked in generation g of account a: it is no newer than
\* the account, and if it has the account's version it is of its last generation.
Ages(a, v, g) ==
    /\ Exists(a)
    /\ a \notin overtaken => /\ v <= accounts[a].version
                             /\ v = accounts[a].version => g = renewed[a]

SessionsAge ==
    \A s \in Sessions : sessions[s].account # None =>
        Ages(sessions[s].account, sessions[s].version, sessions[s].generation)

LoginsAge ==
    \A w \in Servers : request[w].step \in {"login", "session"} =>
        Ages(request[w].target, request[w].row.version, request[w].generation)

\* There are accounts when one of them manages them.
ManagersExist ==
    \A w \in Servers : request[w].step = "account" => \E a \in Accounts : Exists(a)

GrantsFit ==
    \A a \in Accounts \ overtaken : grants[a] \subseteq Ceiling(accounts[a].role)

AuthInv ==
    /\ AuthTypes
    /\ RequestsHold
    /\ CliHolds
    /\ SessionsAge
    /\ LoginsAge
    /\ ManagersExist
    /\ GrantsFit
    /\ SuperadminRemains

-----------------------------------------------------------------------------
(* Values. *)

LEMMA Blanks ==
    /\ NoAccount \in AccountRow
    /\ NoSession \in SessionRow
    /\ Idle \in Request /\ Idle.step = "idle" /\ InHand(Idle)
    /\ [step |-> "idle", session |-> None, row |-> NoSession] \in ApiWork
    /\ NoCommand \in CliWork /\ NoCommand.step = "idle"
<1>1. NoAccount \in AccountRow
    BY RolesAssumption, BoundAssumption DEF NoAccount, AccountRow
<1>2. NoSession \in SessionRow
    BY BoundAssumption DEF NoSession, SessionRow
<1>3. Idle \in Request /\ Idle.step = "idle"
    BY <1>1 DEF Idle, Request
<1>4. InHand(Idle)
    BY <1>3 DEF InHand
<1> QED BY <1>1, <1>2, <1>3, <1>4 DEF ApiWork, CliWork, NoCommand

LEMMA RolesAreFour ==
    \A role \in Roles : /\ role \in {"SUPERADMIN", "ADMIN", "USER", "VIEWER"}
                        /\ Ceiling(role) \subseteq Permissions
<1> QED BY RolesAssumption DEF Ceiling, Permissions

LEMMA InitAuth == AuthInit => AuthInv
<1> SUFFICES ASSUME AuthInit PROVE AuthInv
    OBVIOUS
<1>1. /\ accounts = [a \in Accounts |-> NoAccount]
      /\ grants = [a \in Accounts |-> {}]
      /\ sessions = [s \in Sessions |-> NoSession]
      /\ request = [w \in Servers |-> Idle]
      /\ api = [step |-> "idle", session |-> None, row |-> NoSession]
      /\ cli = NoCommand
      /\ renewed = [a \in Accounts |-> 0]
      /\ overtaken = {}
    BY DEF AuthInit
<1>2. AuthTypes
    BY <1>1, Blanks DEF AuthTypes
<1>3. RequestsHold /\ CliHolds
    BY <1>1, Blanks DEF RequestsHold, CliHolds
<1>4. SessionsAge
    BY <1>1 DEF SessionsAge, NoSession
<1>5. LoginsAge /\ ManagersExist
    BY <1>1, Blanks DEF LoginsAge, ManagersExist
<1>6. GrantsFit
    BY <1>1 DEF GrantsFit
<1>7. \A a \in Accounts : ~ Exists(a)
    BY <1>1 DEF Exists, NoAccount
<1>8. SuperadminRemains
    BY <1>7 DEF SuperadminRemains, SuperadminNeverRunsOut
<1> QED BY <1>2, <1>3, <1>4, <1>5, <1>6, <1>8 DEF AuthInv

-----------------------------------------------------------------------------
(* What a step does to the tables. *)

\* The sessions change their states only.
StatesOnly ==
    \A s \in Sessions : /\ sessions'[s].account = sessions[s].account
                        /\ sessions'[s].version = sessions[s].version
                        /\ sessions'[s].generation = sessions[s].generation

LEMMA RevokingKeeps ==
    ASSUME AuthTypes, NEW a, sessions' = RevokeAll(a)
    PROVE  sessions' \in [Sessions -> SessionRow] /\ StatesOnly
<1>1. ASSUME NEW s \in Sessions
      PROVE  /\ sessions'[s] \in SessionRow
             /\ sessions'[s].account = sessions[s].account
             /\ sessions'[s].version = sessions[s].version
             /\ sessions'[s].generation = sessions[s].generation
    <2>1. sessions'[s] = sessions[s] \/ sessions'[s] = [sessions[s] EXCEPT !.state = "revoked"]
        BY DEF RevokeAll
    <2>2. sessions[s] \in SessionRow
        BY DEF AuthTypes
    <2> QED BY <2>1, <2>2 DEF SessionRow
<1>2. sessions' = [s \in Sessions |-> sessions'[s]]
    BY DEF RevokeAll
<1> QED BY <1>1, <1>2 DEF StatesOnly

LEMMA SessionsRest ==
    ASSUME AuthTypes, UNCHANGED sessions
    PROVE  sessions' \in [Sessions -> SessionRow] /\ StatesOnly
    BY DEF AuthTypes, StatesOnly

\* An account that is not overtaken grows: its version rises, or both its version and
\* its generation stay.
Grows(a) ==
    /\ a \notin overtaken
    /\ \/ ~ Exists(a)
       \/ accounts'[a].version > accounts[a].version
       \/ accounts'[a].version = accounts[a].version /\ renewed'[a] = renewed[a]

Growth ==
    \A a \in Accounts : /\ Exists(a) => accounts'[a].state # "unborn"
                        /\ a \notin overtaken' => Grows(a)

\* Ages in the state after the step.
WillAge(a, v, g) ==
    /\ accounts'[a].state # "unborn"
    /\ a \notin overtaken' => /\ v <= accounts'[a].version
                              /\ v = accounts'[a].version => g = renewed'[a]

LEMMA StillAges ==
    ASSUME AuthTypes, AuthTypes', Growth, NEW a \in Accounts, NEW v \in Nat, NEW g,
           Ages(a, v, g)
    PROVE  WillAge(a, v, g)
<1>1. accounts'[a].state # "unborn"
    BY DEF Growth, Ages, Exists
<1>2. ASSUME a \notin overtaken'
      PROVE  v <= accounts'[a].version /\ (v = accounts'[a].version => g = renewed'[a])
    <2>1. /\ v <= accounts[a].version /\ (v = accounts[a].version => g = renewed[a])
          /\ \/ accounts'[a].version > accounts[a].version
             \/ accounts'[a].version = accounts[a].version /\ renewed'[a] = renewed[a]
        BY <1>2 DEF Growth, Grows, Ages
    <2>2. accounts[a].version \in Nat /\ accounts'[a].version \in Nat
        BY DEF AuthTypes, AccountRow
    <2> QED BY <2>1, <2>2
<1> QED BY <1>1, <1>2 DEF WillAge

\* The logins under way after a step were under way before or are as old as they may be,
\* and so are the commands.
RequestsFollow ==
  \A w \in Servers :
    /\ request'[w].step = "account" =>
        request[w].step = "account" \/ \E a \in Accounts : Exists(a)
    /\ request'[w].step \in {"login", "session"} =>
        \/ /\ request[w].step \in {"login", "session"}
           /\ request'[w].target = request[w].target
           /\ request'[w].row = request[w].row
           /\ request'[w].generation = request[w].generation
        \/ WillAge(request'[w].target, request'[w].row.version, request'[w].generation)

\* So do the sessions, which gain at most one of a login.
SessionsFollow ==
    \A s \in Sessions : sessions'[s].account # None =>
        \/ /\ sessions'[s].account = sessions[s].account
           /\ sessions'[s].version = sessions[s].version
           /\ sessions'[s].generation = sessions[s].generation
        \/ WillAge(sessions'[s].account, sessions'[s].version, sessions'[s].generation)

LEMMA StepKeeps ==
    ASSUME AuthInv, AuthTypes', Growth, SessionsFollow, RequestsFollow, RequestsHold',
           CliHolds', GrantsFit', SuperadminRemains'
    PROVE  AuthInv'
<1>1. AuthTypes /\ SessionsAge /\ LoginsAge /\ RequestsHold /\ ManagersExist
    BY DEF AuthInv
<1>2. SessionsAge'
    <2>1. ASSUME NEW s \in Sessions, sessions'[s].account # None
          PROVE  WillAge(sessions'[s].account, sessions'[s].version, sessions'[s].generation)
        <3>1. CASE /\ sessions'[s].account = sessions[s].account
                   /\ sessions'[s].version = sessions[s].version
                   /\ sessions'[s].generation = sessions[s].generation
            <4>1. /\ sessions[s].account \in Accounts /\ sessions[s].version \in Nat
                  /\ Ages(sessions[s].account, sessions[s].version, sessions[s].generation)
                BY <1>1, <2>1, <3>1 DEF SessionsAge, AuthTypes, SessionRow
            <4>2. WillAge(sessions[s].account, sessions[s].version, sessions[s].generation)
                BY <1>1, <4>1, StillAges
            <4> QED BY <3>1, <4>2
        <3> QED BY <2>1, <3>1 DEF SessionsFollow
    <2> QED BY <2>1 DEF WillAge, SessionsAge, Ages, Exists
<1>3. LoginsAge'
    <2>1. ASSUME NEW w \in Servers, request'[w].step \in {"login", "session"}
          PROVE  WillAge(request'[w].target, request'[w].row.version, request'[w].generation)
        <3>1. CASE /\ request[w].step \in {"login", "session"}
                   /\ request'[w].target = request[w].target
                   /\ request'[w].row = request[w].row
                   /\ request'[w].generation = request[w].generation
            <4>1. /\ request[w].target \in Accounts
                  /\ Ages(request[w].target, request[w].row.version, request[w].generation)
                BY <1>1, <3>1 DEF LoginsAge, RequestsHold, InHand
            <4>2. request[w].row.version \in Nat
                BY <1>1 DEF AuthTypes, Request, AccountRow
            <4>3. WillAge(request[w].target, request[w].row.version, request[w].generation)
                BY <1>1, <4>1, <4>2, StillAges
            <4> QED BY <3>1, <4>3
        <3> QED BY <2>1, <3>1 DEF RequestsFollow
    <2> QED BY <2>1 DEF WillAge, LoginsAge, Ages, Exists
<1>4. ManagersExist'
    BY <1>1 DEF ManagersExist, RequestsFollow, Growth, Exists
<1> QED BY <1>2, <1>3, <1>4 DEF AuthInv

LEMMA SessionsStay == StatesOnly => SessionsFollow
    BY DEF StatesOnly, SessionsFollow

\* A step that writes no account, no grant.
LEMMA QuietStep ==
    ASSUME AuthInv, UNCHANGED <<accounts, grants, renewed, overtaken>>, AuthTypes',
           SessionsFollow, RequestsFollow, RequestsHold', CliHolds'
    PROVE  AuthInv'
<1>1. Growth
    BY DEF Growth, Grows, Exists
<1>2. GrantsFit' /\ SuperadminRemains'
    BY DEF AuthInv, GrantsFit, SuperadminRemains, SuperadminNeverRunsOut, Superadmins, Exists
<1> QED BY <1>1, <1>2, StepKeeps

\* Server w turns to r.
LEMMA TurnKeeps ==
    ASSUME AuthInv, NEW w \in Servers, NEW r \in Request, Turns(w, r), InHand(r),
           r.step = "account" => \E a \in Accounts : Exists(a),
           \/ r.step \notin {"login", "session"}
           \/ WillAge(r.target, r.row.version, r.generation)
    PROVE  request' \in [Servers -> Request] /\ RequestsHold' /\ RequestsFollow
<1>1. /\ request' \in [Servers -> Request]
      /\ request'[w] = r
      /\ \A v \in Servers : v # w => request'[v] = request[v]
    BY DEF AuthInv, AuthTypes, Turns
<1>2. RequestsHold'
    BY <1>1 DEF AuthInv, RequestsHold
<1>3. RequestsFollow
    BY <1>1 DEF RequestsFollow
<1> QED BY <1>1, <1>2, <1>3

LEMMA RequestsRest ==
    ASSUME AuthInv, UNCHANGED request
    PROVE  request' \in [Servers -> Request] /\ RequestsHold' /\ RequestsFollow
    BY DEF AuthInv, AuthTypes, RequestsHold, RequestsFollow

\* A request ends.
LEMMA TurnEnds ==
    ASSUME AuthInv, NEW w \in Servers, Turns(w, Idle)
    PROVE  request' \in [Servers -> Request] /\ RequestsHold' /\ RequestsFollow
    BY Blanks, TurnKeeps

LEMMA CliRests ==
    ASSUME AuthInv, UNCHANGED cli PROVE cli' \in CliWork /\ CliHolds'
    BY DEF AuthInv, AuthTypes, CliHolds

-----------------------------------------------------------------------------
(* What the write of one account does. *)

\* The row of t is written by somebody who has old in hand, and its grants.
LEMMA RowWritten ==
    ASSUME AuthInv, NEW t \in Accounts, NEW old \in AccountRow, NEW row \in AccountRow,
           NEW explicit \in SUBSET Permissions, row.state # "unborn",
           accounts' = [accounts EXCEPT ![t] = row],
           grants' = [grants EXCEPT ![t] = explicit],
           overtaken' = overtaken \/ overtaken' = overtaken \cup {t},
           t \notin overtaken' => explicit \subseteq Ceiling(row.role),
           \/ ~ Exists(t) /\ renewed' = renewed
           \/ /\ t \notin overtaken' => accounts[t] = old
              /\ \/ renewed' = renewed /\ row.version = old.version
                 \/ /\ renewed' = [renewed EXCEPT ![t] = @ + 1]
                    /\ row.version = old.version + 1
    PROVE  /\ accounts' \in [Accounts -> AccountRow]
           /\ grants' \in [Accounts -> SUBSET Permissions]
           /\ renewed' \in [Accounts -> Nat]
           /\ overtaken' \subseteq Accounts
           /\ Growth /\ GrantsFit'
<1>0. AuthTypes /\ GrantsFit
    BY DEF AuthInv
<1>1. /\ accounts' \in [Accounts -> AccountRow]
      /\ accounts'[t] = row
      /\ \A a \in Accounts : a # t => accounts'[a] = accounts[a]
    BY <1>0 DEF AuthTypes
<1>2. /\ grants' \in [Accounts -> SUBSET Permissions]
      /\ grants'[t] = explicit
      /\ \A a \in Accounts : a # t => grants'[a] = grants[a]
    BY <1>0 DEF AuthTypes
<1>3. /\ renewed' \in [Accounts -> Nat]
      /\ \A a \in Accounts : a # t => renewed'[a] = renewed[a]
    BY <1>0 DEF AuthTypes
<1>4. overtaken' \subseteq Accounts /\ overtaken \subseteq overtaken'
    BY <1>0 DEF AuthTypes
<1>5. Growth
    <2>1. ASSUME NEW a \in Accounts, a \notin overtaken' PROVE Grows(a)
        <3>1. CASE a # t
            BY <1>1, <1>3, <1>4, <2>1, <3>1 DEF Grows
        <3>2. CASE a = t /\ ~ Exists(t)
            BY <1>4, <2>1, <3>2 DEF Grows
        <3>3. CASE a = t /\ Exists(t)
            <4>1. accounts[t] = old /\ old.version \in Nat
                BY <2>1, <3>3 DEF AccountRow
            <4>2. row.version > old.version \/ (row.version = old.version /\ renewed' = renewed)
                BY <3>3, <4>1
            <4> QED BY <1>1, <1>4, <2>1, <3>3, <4>1, <4>2 DEF Grows
        <3> QED BY <3>1, <3>2, <3>3
    <2>2. \A a \in Accounts : Exists(a) => accounts'[a].state # "unborn"
        BY <1>1 DEF Exists
    <2> QED BY <2>1, <2>2 DEF Growth
<1>6. GrantsFit'
    <2>1. ASSUME NEW a \in Accounts, a \notin overtaken'
          PROVE  grants'[a] \subseteq Ceiling(accounts'[a].role)
        <3>1. CASE a = t
            BY <1>1, <1>2, <2>1, <3>1
        <3>2. CASE a # t
            BY <1>0, <1>1, <1>2, <1>4, <2>1, <3>2 DEF GrantsFit
        <3> QED BY <3>1, <3>2
    <2> QED BY <2>1 DEF GrantsFit
<1> QED BY <1>1, <1>2, <1>3, <1>4, <1>5, <1>6

LEMMA GrantsRest ==
    ASSUME AuthInv, NEW t \in Accounts, UNCHANGED grants
    PROVE  /\ grants' = [grants EXCEPT ![t] = grants[t]]
           /\ grants[t] \in SUBSET Permissions
           /\ t \notin overtaken => grants[t] \subseteq Ceiling(accounts[t].role)
    BY DEF AuthInv, AuthTypes, GrantsFit

\* There is still a superadmin when the row written is one, or stands as it stood, or
\* was none, or when there was a second one.
LEMMA SuperadminLives ==
    ASSUME AuthInv, overtaken \subseteq overtaken', NEW t \in Accounts,
           NEW row \in AccountRow,
           accounts' = [accounts EXCEPT ![t] = row],
           overtaken' = {} =>
             \/ row.role = "SUPERADMIN" /\ row.state = "active"
             \/ /\ Exists(t)
                /\ row.role = accounts[t].role /\ row.state = accounts[t].state
             \/ /\ \E a \in Accounts : Exists(a)
                /\ accounts[t].role = "SUPERADMIN" /\ accounts[t].state = "active" =>
                     Cardinality(Superadmins) > 1
    PROVE  SuperadminRemains'
<1> SUFFICES ASSUME overtaken' = {} PROVE SuperadminNeverRunsOut'
    BY DEF SuperadminRemains
<1>1. accounts'[t] = row /\ \A a \in Accounts : a # t => accounts'[a] = accounts[a]
    BY DEF AuthInv, AuthTypes
<1>2. (\E a \in Accounts : Exists(a)) => Superadmins # {}
    BY DEF AuthInv, SuperadminRemains, SuperadminNeverRunsOut
<1>3. CASE row.role = "SUPERADMIN" /\ row.state = "active"
    BY <1>1, <1>3 DEF SuperadminNeverRunsOut, Superadmins
<1>4. CASE Exists(t) /\ row.role = accounts[t].role /\ row.state = accounts[t].state
    BY <1>1, <1>2, <1>4 DEF SuperadminNeverRunsOut, Superadmins
<1>5. CASE /\ \E a \in Accounts : Exists(a)
           /\ accounts[t].role = "SUPERADMIN" /\ accounts[t].state = "active" =>
                Cardinality(Superadmins) > 1
    <2>1. PICK b : b \in Superadmins
        BY <1>2, <1>5
    <2>2. \E c \in Superadmins : c # t
        <3>1. CASE t \notin Superadmins
            BY <2>1, <3>1
        <3>2. CASE t \in Superadmins
            <4>1. Cardinality(Superadmins) > 1
                BY <1>5, <3>2 DEF Superadmins
            <4>2. Cardinality({t}) = 1
                BY FS_Singleton
            <4>3. Superadmins # {t}
                BY <4>1, <4>2
            <4> QED BY <3>2, <4>3
        <3> QED BY <3>1, <3>2
    <2> QED BY <1>1, <2>2 DEF SuperadminNeverRunsOut, Superadmins
<1> QED BY <1>3, <1>4, <1>5

\* A row is written back and, if it is still as it was read, only its version changes.
LEMMA StandingKept ==
    ASSUME AuthInv, NEW t \in Accounts, NEW old \in AccountRow, NEW row \in AccountRow,
           WriteRow(t, old, row), UNCHANGED grants,
           row.role = old.role, row.state = old.state, old.state # "unborn",
           \/ renewed' = renewed /\ row.version = old.version
           \/ /\ renewed' = [renewed EXCEPT ![t] = @ + 1]
              /\ row.version = old.version + 1
    PROVE  /\ accounts' \in [Accounts -> AccountRow]
           /\ grants' \in [Accounts -> SUBSET Permissions]
           /\ renewed' \in [Accounts -> Nat]
           /\ overtaken' \subseteq Accounts
           /\ Growth /\ GrantsFit' /\ SuperadminRemains'
<1>1. /\ accounts' = [accounts EXCEPT ![t] = row]
      /\ overtaken' = overtaken \/ overtaken' = overtaken \cup {t}
      /\ t \notin overtaken' => accounts[t] = old /\ t \notin overtaken
    BY DEF WriteRow, Overtaken
<1>2. /\ grants' = [grants EXCEPT ![t] = grants[t]]
      /\ grants[t] \in SUBSET Permissions
      /\ t \notin overtaken => grants[t] \subseteq Ceiling(accounts[t].role)
    BY GrantsRest
<1>3. t \notin overtaken' => grants[t] \subseteq Ceiling(row.role)
    BY <1>1, <1>2
<1>4. overtaken' = {} => /\ Exists(t) /\ row.role = accounts[t].role
                         /\ row.state = accounts[t].state
    BY <1>1 DEF Exists
<1>5. SuperadminRemains'
    BY <1>1, <1>4, SuperadminLives
<1> QED BY <1>1, <1>2, <1>3, <1>5, RowWritten

LEMMA NewPassword ==
    ASSUME NEW row \in AccountRow, row.version < MaxVersion
    PROVE  /\ WithPassword(row) \in AccountRow
           /\ WithPassword(row).role = row.role
           /\ WithPassword(row).state = row.state
           /\ WithPassword(row).version = row.version + 1
    BY BoundAssumption DEF WithPassword, AccountRow

-----------------------------------------------------------------------------
(* The requests that begin, field by field. *)

Work(step, actor, role, held, target, row, granted, generation) ==
    [step |-> step, actor |-> actor, role |-> role, held |-> held, target |-> target,
     row |-> row, granted |-> granted, generation |-> generation]

LEMMA IdleWork == Idle = Work("idle", None, None, {}, None, NoAccount, {}, 0)
    BY DEF Idle, Work

LEMMA PasswordWork ==
    ASSUME NEW a, NEW row, NEW r,
           r = [Idle EXCEPT !.step = "password", !.target = a, !.row = row]
    PROVE  r = Work("password", None, None, {}, a, row, {}, 0)
<1> DEFINE one == [Idle EXCEPT !.step = "password"]
           two == [one EXCEPT !.target = a]
           three == [two EXCEPT !.row = row]
<1>1. r = three
    OBVIOUS
<1>2. one = Work("password", None, None, {}, None, NoAccount, {}, 0)
    BY IdleWork DEF Work
<1> HIDE DEF one
<1>3. two = Work("password", None, None, {}, a, NoAccount, {}, 0)
    BY ONLY <1>2 DEF Work
<1> HIDE DEF two
<1>4. three = Work("password", None, None, {}, a, row, {}, 0)
    BY ONLY <1>3 DEF Work
<1> HIDE DEF three
<1> QED BY ONLY <1>1, <1>4

LEMMA LoginWork ==
    ASSUME NEW a, NEW row, NEW g, NEW r,
           r = [Idle EXCEPT !.step = "login", !.target = a, !.row = row, !.generation = g]
    PROVE  r = Work("login", None, None, {}, a, row, {}, g)
<1> DEFINE one == [Idle EXCEPT !.step = "login"]
           two == [one EXCEPT !.target = a]
           three == [two EXCEPT !.row = row]
           four == [three EXCEPT !.generation = g]
<1>1. r = four
    OBVIOUS
<1>2. one = Work("login", None, None, {}, None, NoAccount, {}, 0)
    BY IdleWork DEF Work
<1> HIDE DEF one
<1>3. two = Work("login", None, None, {}, a, NoAccount, {}, 0)
    BY ONLY <1>2 DEF Work
<1> HIDE DEF two
<1>4. three = Work("login", None, None, {}, a, row, {}, 0)
    BY ONLY <1>3 DEF Work
<1> HIDE DEF three
<1>5. four = Work("login", None, None, {}, a, row, {}, g)
    BY ONLY <1>4 DEF Work
<1> HIDE DEF four
<1> QED BY ONLY <1>1, <1>5

\* A creation of the actor a, and a command on a target.
LEMMA CreationWork ==
    ASSUME NEW a, NEW role, NEW held, NEW r,
           r = [Idle EXCEPT !.step = "account", !.actor = a, !.role = role, !.held = held]
    PROVE  r = Work("account", a, role, held, None, NoAccount, {}, 0)
<1> DEFINE one == [Idle EXCEPT !.step = "account"]
           two == [one EXCEPT !.actor = a]
           three == [two EXCEPT !.role = role]
           four == [three EXCEPT !.held = held]
<1>1. r = four
    OBVIOUS
<1>2. one = Work("account", None, None, {}, None, NoAccount, {}, 0)
    BY IdleWork DEF Work
<1> HIDE DEF one
<1>3. two = Work("account", a, None, {}, None, NoAccount, {}, 0)
    BY ONLY <1>2 DEF Work
<1> HIDE DEF two
<1>4. three = Work("account", a, role, {}, None, NoAccount, {}, 0)
    BY ONLY <1>3 DEF Work
<1> HIDE DEF three
<1>5. four = Work("account", a, role, held, None, NoAccount, {}, 0)
    BY ONLY <1>4 DEF Work
<1> HIDE DEF four
<1> QED BY ONLY <1>1, <1>5

LEMMA CommandWork ==
    ASSUME NEW a, NEW role, NEW held, NEW t, NEW row, NEW granted, NEW acting, NEW r,
           acting = Work("account", a, role, held, None, NoAccount, {}, 0),
           r = [acting EXCEPT !.target = t, !.row = row, !.granted = granted]
    PROVE  r = Work("account", a, role, held, t, row, granted, 0)
<1> DEFINE one == [acting EXCEPT !.target = t]
           two == [one EXCEPT !.row = row]
           three == [two EXCEPT !.granted = granted]
<1>1. r = three
    OBVIOUS
<1>2. one = Work("account", a, role, held, t, NoAccount, {}, 0)
    BY DEF Work
<1> HIDE DEF one
<1>3. two = Work("account", a, role, held, t, row, {}, 0)
    BY ONLY <1>2 DEF Work
<1> HIDE DEF two
<1>4. three = Work("account", a, role, held, t, row, granted, 0)
    BY ONLY <1>3 DEF Work
<1> HIDE DEF three
<1> QED BY ONLY <1>1, <1>4

\* What such a request holds.
LEMMA WorkHolds ==
    ASSUME NEW step \in {"login", "password", "account"},
           NEW actor \in Accounts \cup {None}, NEW role \in Roles \cup {None},
           NEW held \in SUBSET Permissions, NEW target \in Accounts \cup {None},
           NEW row \in AccountRow, NEW granted \in SUBSET Permissions,
           NEW generation \in Nat,
           NEW r, r = Work(step, actor, role, held, target, row, granted, generation)
    PROVE  /\ r \in Request
           /\ r.step = step /\ r.role = role /\ r.target = target /\ r.row = row
           /\ r.generation = generation
    BY DEF Work, Request

-----------------------------------------------------------------------------
(* Sessions. *)

LEMMA ApiSteps == ASSUME AuthInv, ApiStep PROVE AuthInv'
<1>0. AuthTypes
    BY DEF AuthInv
<1>1. UNCHANGED <<accounts, grants, request, cli, renewed, overtaken>>
    BY DEF ApiStep, ApiReads, ApiChecks, ApiWrites
<1>2. /\ RequestsHold' /\ RequestsFollow /\ CliHolds'
      /\ request' \in [Servers -> Request] /\ cli' \in CliWork
    BY <1>1, RequestsRest, CliRests
<1>3. ASSUME NEW s \in Sessions, ApiReads(s)
      PROVE  api' \in ApiWork /\ UNCHANGED sessions
    BY <1>0, <1>3 DEF ApiReads, ApiWork, AuthTypes
<1>4. CASE ApiChecks
    <2>1. UNCHANGED sessions
        BY <1>4 DEF ApiChecks
    <2> DEFINE row == [api.row EXCEPT !.state = "revoked"]
    <2>2. row \in SessionRow
        BY <1>0 DEF AuthTypes, ApiWork, SessionRow
    <2>3. \/ api' = [api EXCEPT !.step = "write"]
          \/ api' = [api EXCEPT !.step = "write", !.row = row]
          \/ api' = [step |-> "idle", session |-> None, row |-> NoSession]
        BY <1>4 DEF ApiChecks
    <2>4. api \in ApiWork
        BY <1>0 DEF AuthTypes
    <2> HIDE DEF row
    <2>5. [api EXCEPT !.step = "write"] \in ApiWork
        BY <2>4 DEF ApiWork
    <2>6. [api EXCEPT !.step = "write", !.row = row]
             = [step |-> "write", session |-> api.session, row |-> row]
        <3>1. api = [step |-> api.step, session |-> api.session, row |-> api.row]
            BY <2>4 DEF ApiWork
        <3> DEFINE one == [api EXCEPT !.step = "write"]
        <3>2. one = [step |-> "write", session |-> api.session, row |-> api.row]
            BY <3>1
        <3>3. [one EXCEPT !.row = row]
                = [step |-> "write", session |-> api.session, row |-> row]
            <4> HIDE DEF one
            <4> QED BY <3>2
        <3> QED BY <3>3
    <2>7. [step |-> "write", session |-> api.session, row |-> row] \in ApiWork
        BY <2>2, <2>4 DEF ApiWork
    <2>8. api' \in ApiWork
        BY <2>3, <2>5, <2>6, <2>7, Blanks
    <2>9. sessions' \in [Sessions -> SessionRow] /\ SessionsFollow
        BY <1>0, <2>1, SessionsRest, SessionsStay
    <2>10. AuthTypes'
        BY <1>0, <1>1, <1>2, <2>8, <2>9 DEF AuthTypes
    <2> QED BY <1>1, <1>2, <2>9, <2>10, QuietStep
<1>5. CASE ApiWrites
    <2>1. /\ sessions' = [sessions EXCEPT ![api.session] =
                            [sessions[api.session] EXCEPT !.state = api.row.state]]
          /\ api' = [step |-> "idle", session |-> None, row |-> NoSession]
        BY <1>5 DEF ApiWrites
    <2>2. api.row.state \in {"unborn", "open", "revoked"}
        BY <1>0 DEF AuthTypes, ApiWork, SessionRow
    <2>3. ASSUME NEW s \in Sessions
          PROVE  /\ sessions'[s] \in SessionRow
                 /\ sessions'[s].account = sessions[s].account
                 /\ sessions'[s].version = sessions[s].version
                 /\ sessions'[s].generation = sessions[s].generation
        <3>1. sessions[s] \in SessionRow
            BY <1>0 DEF AuthTypes
        <3>2. \/ sessions'[s] = sessions[s]
              \/ sessions'[s] = [sessions[s] EXCEPT !.state = api.row.state]
            BY <1>0, <2>1 DEF AuthTypes
        <3> QED BY <2>2, <3>1, <3>2 DEF SessionRow
    <2>4. sessions' \in [Sessions -> SessionRow]
        <3>1. sessions' = [s \in Sessions |-> sessions'[s]]
            BY <1>0, <2>1 DEF AuthTypes
        <3> QED BY <2>3, <3>1
    <2>5. SessionsFollow
        BY <2>3, SessionsStay DEF StatesOnly
    <2>6. AuthTypes'
        BY <1>0, <1>1, <1>2, <2>1, <2>4, Blanks DEF AuthTypes
    <2> QED BY <1>1, <1>2, <2>5, <2>6, QuietStep
<1>6. ASSUME api' \in ApiWork, UNCHANGED sessions PROVE AuthInv'
    <2>1. sessions' \in [Sessions -> SessionRow] /\ SessionsFollow
        BY <1>0, <1>6, SessionsRest, SessionsStay
    <2>2. AuthTypes'
        BY <1>0, <1>1, <1>2, <1>6, <2>1 DEF AuthTypes
    <2> QED BY <1>1, <1>2, <2>1, <2>2, QuietStep
<1> QED BY <1>3, <1>4, <1>5, <1>6 DEF ApiStep

\* A server turns to r and leaves the tables as they are.
LEMMA OnlyTurns ==
    ASSUME AuthInv, NEW w \in Servers, NEW r \in Request, Turns(w, r), InHand(r),
           UNCHANGED <<accounts, grants, sessions, api, cli, renewed, overtaken>>,
           r.step = "account" => \E a \in Accounts : Exists(a),
           \/ r.step \notin {"login", "session"}
           \/ WillAge(r.target, r.row.version, r.generation)
    PROVE  AuthInv'
<1>1. request' \in [Servers -> Request] /\ RequestsHold' /\ RequestsFollow
    BY TurnKeeps
<1>2. CliHolds' /\ SessionsFollow
    BY CliRests DEF SessionsFollow
<1>3. AuthTypes'
    BY <1>1 DEF AuthInv, AuthTypes
<1> QED BY <1>1, <1>2, <1>3, QuietStep

LEMMA LogsIn ==
    ASSUME AuthInv, NEW w \in Servers, NEW a \in Accounts, LoginReads(w, a) PROVE AuthInv'
<1> DEFINE r == [Idle EXCEPT !.step = "login", !.target = a, !.row = accounts[a],
                             !.generation = renewed[a]]
<1>1. /\ accounts[a].state = "active" /\ Turns(w, r)
      /\ UNCHANGED <<accounts, grants, sessions, api, cli, renewed, overtaken>>
    BY DEF LoginReads
<1>2. accounts[a] \in AccountRow /\ renewed[a] \in Nat
    BY DEF AuthInv, AuthTypes
<1> HIDE DEF r
<1>3. r = Work("login", None, None, {}, a, accounts[a], {}, renewed[a])
    <2> DEFINE row == accounts[a]
               g == renewed[a]
    <2>1. r = [Idle EXCEPT !.step = "login", !.target = a, !.row = row, !.generation = g]
        BY DEF r
    <2> HIDE DEF row, g
    <2>2. r = Work("login", None, None, {}, a, row, {}, g)
        BY ONLY <2>1, LoginWork
    <2> QED BY <2>2 DEF row, g
<1>4. /\ r \in Request /\ r.step = "login" /\ r.target = a /\ r.row = accounts[a]
      /\ r.generation = renewed[a]
    BY <1>2, <1>3, WorkHolds
<1>5. InHand(r)
    BY <1>1, <1>4 DEF InHand
<1>6. WillAge(r.target, r.row.version, r.generation)
    BY <1>1, <1>2, <1>4 DEF WillAge, AccountRow
<1> QED BY <1>1, <1>4, <1>5, <1>6, OnlyTurns

LEMMA LoginKeeps ==
    ASSUME AuthInv, NEW w \in Servers, LoginWrites(w) PROVE AuthInv'
<1> DEFINE r == request[w]
           next == [r EXCEPT !.step = "session"]
<1>1. /\ r.step = "login"
      /\ WriteRow(r.target, r.row, r.row)
      /\ Turns(w, next)
      /\ UNCHANGED <<grants, sessions, api, cli, renewed>>
    BY DEF LoginWrites
<1>2. AuthTypes /\ r \in Request
    BY DEF AuthInv, AuthTypes
<1>3. r.target \in Accounts /\ r.row \in AccountRow /\ r.row.state # "unborn"
    BY <1>1, <1>2 DEF AuthInv, RequestsHold, InHand, Request
<1>4. Ages(r.target, r.row.version, r.generation) /\ r.row.version \in Nat
    BY <1>1, <1>3 DEF AuthInv, LoginsAge, AccountRow
<1>5. /\ next \in Request /\ next.step = "session" /\ next.target = r.target
      /\ next.row = r.row /\ next.generation = r.generation
    BY <1>2 DEF Request
<1> HIDE DEF r, next
<1>6. /\ accounts' \in [Accounts -> AccountRow]
      /\ grants' \in [Accounts -> SUBSET Permissions]
      /\ renewed' \in [Accounts -> Nat]
      /\ overtaken' \subseteq Accounts
      /\ Growth /\ GrantsFit' /\ SuperadminRemains'
    BY <1>1, <1>3, StandingKept
<1>7. WillAge(r.target, r.row.version, r.generation)
    <2>1. accounts'[r.target] = r.row
        BY <1>1, <1>2, <1>3 DEF WriteRow, AuthTypes
    <2>2. r.target \notin overtaken' => r.target \notin overtaken /\ accounts[r.target] = r.row
        BY <1>1 DEF WriteRow, Overtaken
    <2> QED BY <1>1, <1>3, <1>4, <2>1, <2>2 DEF WillAge, Ages
<1>8. InHand(next)
    BY <1>3, <1>5 DEF InHand
<1>9. request' \in [Servers -> Request] /\ RequestsHold' /\ RequestsFollow
    BY <1>1, <1>5, <1>7, <1>8, TurnKeeps
<1>10. /\ cli' \in CliWork /\ CliHolds'
       /\ sessions' \in [Sessions -> SessionRow] /\ SessionsFollow
    BY <1>1, <1>2, CliRests, SessionsRest, SessionsStay
<1>11. AuthTypes'
    BY <1>1, <1>2, <1>6, <1>9, <1>10 DEF AuthTypes
<1> QED BY <1>6, <1>9, <1>10, <1>11, StepKeeps

LEMMA OpensSession ==
    ASSUME AuthInv, NEW w \in Servers, NEW s \in Sessions, OpenSession(w, s)
    PROVE  AuthInv'
<1> DEFINE r == request[w]
           new == [state |-> "open", account |-> r.target, version |-> r.row.version,
                   generation |-> r.generation]
<1>1. /\ r.step = "session"
      /\ sessions' = [sessions EXCEPT ![s] = new]
      /\ Turns(w, Idle)
      /\ UNCHANGED <<accounts, grants, api, cli, renewed, overtaken>>
    BY DEF OpenSession
<1>2. AuthTypes /\ r \in Request
    BY DEF AuthInv, AuthTypes
<1>3. r.target \in Accounts /\ Ages(r.target, r.row.version, r.generation)
    BY <1>1 DEF AuthInv, RequestsHold, InHand, LoginsAge
<1>4. new \in SessionRow
    BY <1>2, <1>3 DEF SessionRow, Request, AccountRow
<1>5. WillAge(new.account, new.version, new.generation)
    BY <1>1, <1>3 DEF WillAge, Ages, Exists
<1> HIDE DEF new, r
<1>6. sessions' \in [Sessions -> SessionRow]
    BY <1>1, <1>2, <1>4 DEF AuthTypes
<1>7. SessionsFollow
    BY <1>1, <1>2, <1>5 DEF AuthTypes, SessionsFollow
<1>8. request' \in [Servers -> Request] /\ RequestsHold' /\ RequestsFollow
    BY <1>1, TurnEnds
<1>9. cli' \in CliWork /\ CliHolds'
    BY <1>1, CliRests
<1>10. AuthTypes'
    BY <1>1, <1>2, <1>6, <1>8, <1>9 DEF AuthTypes
<1> QED BY <1>1, <1>7, <1>8, <1>9, <1>10, QuietStep

LEMMA LogsOut ==
    ASSUME AuthInv, NEW w \in Servers, NEW s \in Sessions, Logout(w, s) PROVE AuthInv'
<1>0. AuthTypes
    BY DEF AuthInv
<1>1. /\ sessions' = [sessions EXCEPT ![s] = [sessions[s] EXCEPT !.state = "revoked"]]
      /\ UNCHANGED <<accounts, grants, request, api, cli, renewed, overtaken>>
    BY DEF Logout
<1>2. /\ sessions[s] \in SessionRow
      /\ [sessions[s] EXCEPT !.state = "revoked"] \in SessionRow
    BY <1>0 DEF AuthTypes, SessionRow
<1>3. sessions' \in [Sessions -> SessionRow]
    BY <1>0, <1>1, <1>2 DEF AuthTypes
<1>4. StatesOnly
    BY <1>0, <1>1, <1>2 DEF AuthTypes, StatesOnly, SessionRow
<1>5. /\ request' \in [Servers -> Request] /\ RequestsHold' /\ RequestsFollow
      /\ cli' \in CliWork /\ CliHolds'
    BY <1>1, RequestsRest, CliRests
<1>6. AuthTypes'
    BY <1>0, <1>1, <1>3, <1>5 DEF AuthTypes
<1> QED BY <1>1, <1>4, <1>5, <1>6, SessionsStay, QuietStep

LEMMA ReadsPassword ==
    ASSUME AuthInv, NEW w \in Servers, NEW s \in Sessions, PasswordReads(w, s) PROVE AuthInv'
<1> DEFINE a == sessions[s].account
           r == [Idle EXCEPT !.step = "password", !.target = a, !.row = accounts[a]]
<1>1. /\ Authenticates(s) /\ accounts[a].version < MaxVersion
      /\ Turns(w, r)
      /\ UNCHANGED <<accounts, grants, sessions, api, cli, renewed, overtaken>>
    BY DEF PasswordReads
<1>2. a \in Accounts /\ accounts[a].state = "active" /\ accounts[a] \in AccountRow
    BY <1>1 DEF Authenticates, Accepts, AuthInv, AuthTypes, SessionRow
<1>3. r = Work("password", None, None, {}, a, accounts[a], {}, 0)
    BY PasswordWork
<1> HIDE DEF r, a
<1>4. r \in Request /\ r.step = "password" /\ r.target = a /\ r.row = accounts[a]
    BY <1>2, <1>3 DEF Work, Request
<1>5. InHand(r)
    BY <1>1, <1>2, <1>4 DEF InHand
<1> QED BY <1>1, <1>4, <1>5, OnlyTurns

LEMMA WritesPassword ==
    ASSUME AuthInv, NEW w \in Servers, PasswordWrites(w) PROVE AuthInv'
<1> DEFINE r == request[w]
           row == WithPassword(r.row)
           next == [r EXCEPT !.step = "revoke"]
<1>1. /\ r.step = "password"
      /\ WriteRow(r.target, r.row, row)
      /\ renewed' = [renewed EXCEPT ![r.target] = @ + 1]
      /\ Turns(w, next)
      /\ UNCHANGED <<grants, sessions, api, cli>>
    BY DEF PasswordWrites
<1>2. AuthTypes /\ r \in Request
    BY DEF AuthInv, AuthTypes
<1>3. /\ r.target \in Accounts /\ r.row \in AccountRow /\ r.row.state # "unborn"
      /\ r.row.version < MaxVersion
    BY <1>1, <1>2 DEF AuthInv, RequestsHold, InHand, Request
<1>4. /\ row \in AccountRow /\ row.role = r.row.role /\ row.state = r.row.state
      /\ row.version = r.row.version + 1
    BY <1>3, NewPassword
<1>5. next \in Request /\ next.step = "revoke" /\ next.target = r.target
    BY <1>2 DEF Request
<1> HIDE DEF r, row, next
<1>6. /\ accounts' \in [Accounts -> AccountRow]
      /\ grants' \in [Accounts -> SUBSET Permissions]
      /\ renewed' \in [Accounts -> Nat]
      /\ overtaken' \subseteq Accounts
      /\ Growth /\ GrantsFit' /\ SuperadminRemains'
    BY <1>1, <1>3, <1>4, StandingKept
<1>7. InHand(next)
    BY <1>3, <1>5 DEF InHand
<1>8. request' \in [Servers -> Request] /\ RequestsHold' /\ RequestsFollow
    BY <1>1, <1>5, <1>7, TurnKeeps
<1>9. /\ cli' \in CliWork /\ CliHolds'
      /\ sessions' \in [Sessions -> SessionRow] /\ SessionsFollow
    BY <1>1, <1>2, CliRests, SessionsRest, SessionsStay
<1>10. AuthTypes'
    BY <1>1, <1>2, <1>6, <1>8, <1>9 DEF AuthTypes
<1> QED BY <1>6, <1>8, <1>9, <1>10, StepKeeps

LEMMA RevokesOwn ==
    ASSUME AuthInv, NEW w \in Servers, RevokeOwn(w) PROVE AuthInv'
<1>0. AuthTypes
    BY DEF AuthInv
<1>1. /\ sessions' = RevokeAll(request[w].target) /\ Turns(w, Idle)
      /\ UNCHANGED <<accounts, grants, api, cli, renewed, overtaken>>
    BY DEF RevokeOwn
<1>2. sessions' \in [Sessions -> SessionRow] /\ SessionsFollow
    BY <1>0, <1>1, RevokingKeeps, SessionsStay
<1>3. /\ request' \in [Servers -> Request] /\ RequestsHold' /\ RequestsFollow
      /\ cli' \in CliWork /\ CliHolds'
    BY <1>1, TurnEnds, CliRests
<1>4. AuthTypes'
    BY <1>0, <1>1, <1>2, <1>3 DEF AuthTypes
<1> QED BY <1>1, <1>2, <1>3, <1>4, QuietStep

LEMMA SessionSteps ==
    ASSUME AuthInv, NEW w \in Servers, SessionStep(w) PROVE AuthInv'
<1>1. CASE GivesUp(w)
    <2>1. /\ Turns(w, Idle)
          /\ UNCHANGED <<accounts, grants, sessions, api, cli, renewed, overtaken>>
        BY <1>1 DEF GivesUp
    <2> QED BY <2>1, Blanks, OnlyTurns
<1> QED BY <1>1, LogsIn, LoginKeeps, OpensSession, LogsOut, ReadsPassword, WritesPassword,
           RevokesOwn DEF SessionStep

-----------------------------------------------------------------------------
(* Account management. *)

LEMMA ManagerKnown ==
    ASSUME AuthInv, NEW s \in Sessions, Authenticates(s)
    PROVE  /\ sessions[s].account \in Accounts
           /\ accounts[sessions[s].account].role \in Roles
           /\ Effective(accounts[sessions[s].account], grants[sessions[s].account])
                \in SUBSET Permissions
           /\ \E a \in Accounts : Exists(a)
    BY DEF AuthInv, AuthTypes, Authenticates, Accepts, SessionRow, AccountRow, Effective,
              Exists

LEMMA BeginsCreation ==
    ASSUME AuthInv, NEW w \in Servers, NEW s \in Sessions, CreateReads(w, s) PROVE AuthInv'
<1> DEFINE a == sessions[s].account
           role == accounts[a].role
           held == Effective(accounts[a], grants[a])
           r == ActingAs(s)
<1>1. /\ Authenticates(s) /\ Turns(w, r)
      /\ UNCHANGED <<accounts, grants, sessions, api, cli, renewed, overtaken>>
    BY DEF CreateReads, Manages
<1>2. /\ a \in Accounts /\ role \in Roles /\ held \in SUBSET Permissions
      /\ \E b \in Accounts : Exists(b)
    BY <1>1, ManagerKnown
<1>3. r = [Idle EXCEPT !.step = "account", !.actor = a, !.role = role, !.held = held]
    BY DEF ActingAs
<1> HIDE DEF a, role, held, r
<1>4. r = Work("account", a, role, held, None, NoAccount, {}, 0)
    BY ONLY <1>3, CreationWork
<1>5. r \in Request /\ r.step = "account" /\ r.role = role /\ r.target = None
    BY <1>2, <1>4, Blanks DEF Work, Request
<1>6. InHand(r)
    BY <1>2, <1>5 DEF InHand
<1> QED BY <1>1, <1>2, <1>5, <1>6, OnlyTurns

LEMMA BeginsCommand ==
    ASSUME AuthInv, NEW w \in Servers, NEW s \in Sessions, NEW t \in Accounts,
           ManageReads(w, s, t)
    PROVE  AuthInv'
<1> DEFINE a == sessions[s].account
           role == accounts[a].role
           held == Effective(accounts[a], grants[a])
           acting == ActingAs(s)
           row == accounts[t]
           granted == grants[t]
           r == [acting EXCEPT !.target = t, !.row = row, !.granted = granted]
<1>1. /\ Authenticates(s) /\ Turns(w, r) /\ Exists(t) /\ row.role \in Manageable(role)
      /\ UNCHANGED <<accounts, grants, sessions, api, cli, renewed, overtaken>>
    BY DEF ManageReads, Manages
<1>2. /\ a \in Accounts /\ role \in Roles /\ held \in SUBSET Permissions
      /\ \E b \in Accounts : Exists(b)
    BY <1>1, ManagerKnown
<1>3. acting = [Idle EXCEPT !.step = "account", !.actor = a, !.role = role, !.held = held]
    BY DEF ActingAs
<1>4. row \in AccountRow /\ granted \in SUBSET Permissions /\ row.state # "unborn"
    BY <1>1 DEF AuthInv, AuthTypes, Exists
<1> HIDE DEF a, role, held, acting, row, granted
<1> HIDE DEF r
<1>5. r = Work("account", a, role, held, t, row, granted, 0)
    <2>1. acting = Work("account", a, role, held, None, NoAccount, {}, 0)
        BY ONLY <1>3, CreationWork
    <2>2. r = [acting EXCEPT !.target = t, !.row = row, !.granted = granted]
        BY DEF r
    <2> QED BY ONLY <2>1, <2>2, CommandWork
<1>6. /\ r \in Request /\ r.step = "account" /\ r.role = role /\ r.target = t
      /\ r.row = row
    BY <1>2, <1>4, <1>5 DEF Work, Request
<1>7. InHand(r)
    BY <1>1, <1>2, <1>4, <1>6 DEF InHand
<1> QED BY <1>1, <1>2, <1>6, <1>7, OnlyTurns

\* What the transaction of a command finds in its hands.
LEMMA CommandHolds ==
    ASSUME AuthInv, NEW w \in Servers, Commits(w)
    PROVE  /\ request[w].role \in Roles
           /\ request[w].target # None =>
                /\ request[w].target \in Accounts
                /\ request[w].row \in AccountRow
                /\ request[w].row.state # "unborn"
                /\ request[w].row.role \in Manageable(request[w].role)
                /\ request[w].granted \in SUBSET Permissions
           /\ Turns(w, Idle)
           /\ \E a \in Accounts : Exists(a)
<1>1. request[w] \in Request /\ InHand(request[w]) /\ request[w].step = "account"
    BY DEF AuthInv, AuthTypes, RequestsHold, Commits
<1> QED BY <1>1 DEF InHand, Request, Commits, AuthInv, ManagersExist

LEMMA Manageables == ASSUME NEW role PROVE Manageable(role) \subseteq Roles
    BY DEF Manageable

\* The end of a command that has written its tables well.
LEMMA CommandEnds ==
    ASSUME AuthInv, NEW w \in Servers, Turns(w, Idle), UNCHANGED <<api, cli>>,
           accounts' \in [Accounts -> AccountRow],
           grants' \in [Accounts -> SUBSET Permissions],
           renewed' \in [Accounts -> Nat], overtaken' \subseteq Accounts,
           sessions' \in [Sessions -> SessionRow], StatesOnly,
           Growth, GrantsFit', SuperadminRemains'
    PROVE  AuthInv'
<1>1. /\ request' \in [Servers -> Request] /\ RequestsHold' /\ RequestsFollow
      /\ cli' \in CliWork /\ CliHolds'
    BY TurnEnds, CliRests
<1>2. AuthTypes'
    BY <1>1 DEF AuthInv, AuthTypes
<1> QED BY <1>1, <1>2, SessionsStay, StepKeeps

LEMMA CreatesAccount ==
    ASSUME AuthInv, NEW w \in Servers, NEW t \in Accounts, NEW role \in Roles,
           NEW explicit \in SUBSET Permissions, CreateAccount(w, t, role, explicit)
    PROVE  AuthInv'
<1> DEFINE row == [state |-> "active", role |-> role, version |-> 1]
<1>1. /\ Commits(w) /\ ~ Exists(t) /\ explicit \subseteq Ceiling(role)
      /\ accounts' = [accounts EXCEPT ![t] = row]
      /\ grants' = [grants EXCEPT ![t] = explicit]
      /\ UNCHANGED <<sessions, api, cli, renewed, overtaken>>
    BY DEF CreateAccount, MayGrant
<1>2. row \in AccountRow /\ row.state # "unborn" /\ row.role = role
    BY BoundAssumption DEF AccountRow
<1>3. \E a \in Accounts : Exists(a)
    BY <1>1, CommandHolds
<1> HIDE DEF row
<1>4. /\ accounts' \in [Accounts -> AccountRow]
      /\ grants' \in [Accounts -> SUBSET Permissions]
      /\ renewed' \in [Accounts -> Nat]
      /\ overtaken' \subseteq Accounts
      /\ Growth /\ GrantsFit'
    BY <1>1, <1>2, RowWritten
<1>5. SuperadminRemains'
    BY <1>1, <1>2, <1>3, SuperadminLives DEF Exists
<1>6. sessions' \in [Sessions -> SessionRow] /\ StatesOnly
    BY <1>1, SessionsRest DEF AuthInv
<1> QED BY <1>1, <1>4, <1>5, <1>6, CommandHolds, CommandEnds

LEMMA ChangesHold ==
    ASSUME AuthInv, NEW w \in Servers, Changes(w)
    PROVE  /\ request[w].target \in Accounts
           /\ request[w].row \in AccountRow
           /\ request[w].row.state # "unborn"
           /\ request[w].row.role \in Manageable(request[w].role)
           /\ request[w].granted \in SUBSET Permissions
           /\ Turns(w, Idle)
           /\ \E a \in Accounts : Exists(a)
    BY CommandHolds DEF Changes

LEMMA UpdatesProfile ==
    ASSUME AuthInv, NEW w \in Servers, UpdateProfile(w) PROVE AuthInv'
<1> DEFINE t == request[w].target
           row == request[w].row
<1>1. /\ Changes(w) /\ WriteRow(t, row, row)
      /\ UNCHANGED <<grants, sessions, api, cli, renewed>>
    BY DEF UpdateProfile, Writes
<1>2. t \in Accounts /\ row \in AccountRow /\ row.state # "unborn" /\ Turns(w, Idle)
    BY <1>1, ChangesHold
<1> HIDE DEF t, row
<1>3. /\ accounts' \in [Accounts -> AccountRow]
      /\ grants' \in [Accounts -> SUBSET Permissions]
      /\ renewed' \in [Accounts -> Nat]
      /\ overtaken' \subseteq Accounts
      /\ Growth /\ GrantsFit' /\ SuperadminRemains'
    BY <1>1, <1>2, StandingKept
<1>4. sessions' \in [Sessions -> SessionRow] /\ StatesOnly
    BY <1>1, SessionsRest DEF AuthInv
<1> QED BY <1>1, <1>2, <1>3, <1>4, CommandEnds

LEMMA ResetsPassword ==
    ASSUME AuthInv, NEW w \in Servers, ResetPassword(w) PROVE AuthInv'
<1> DEFINE t == request[w].target
           row == request[w].row
           new == WithPassword(row)
<1>1. /\ Changes(w) /\ WriteRow(t, row, new) /\ row.version < MaxVersion
      /\ sessions' = RevokeAll(t)
      /\ renewed' = [renewed EXCEPT ![t] = @ + 1]
      /\ UNCHANGED <<grants, api, cli>>
    BY DEF ResetPassword, Writes, Renews
<1>2. t \in Accounts /\ row \in AccountRow /\ row.state # "unborn" /\ Turns(w, Idle)
    BY <1>1, ChangesHold
<1>3. /\ new \in AccountRow /\ new.role = row.role /\ new.state = row.state
      /\ new.version = row.version + 1
    BY <1>1, <1>2, NewPassword
<1> HIDE DEF t, row, new
<1>4. /\ accounts' \in [Accounts -> AccountRow]
      /\ grants' \in [Accounts -> SUBSET Permissions]
      /\ renewed' \in [Accounts -> Nat]
      /\ overtaken' \subseteq Accounts
      /\ Growth /\ GrantsFit' /\ SuperadminRemains'
    BY <1>1, <1>2, <1>3, StandingKept
<1>5. sessions' \in [Sessions -> SessionRow] /\ StatesOnly
    BY <1>1, RevokingKeeps DEF AuthInv
<1> QED BY <1>1, <1>2, <1>4, <1>5, CommandEnds

LEMMA SetsPermissions ==
    ASSUME AuthInv, NEW w \in Servers, NEW explicit \in SUBSET Permissions,
           SetPermissions(w, explicit)
    PROVE  AuthInv'
<1> DEFINE t == request[w].target
           row == request[w].row
           now == accounts[t]
<1>1. /\ Changes(w) /\ explicit \subseteq Ceiling(row.role)
      /\ grants' = [grants EXCEPT ![t] = explicit]
      /\ overtaken' = Overtaken(t, now = row)
      /\ UNCHANGED <<accounts, sessions, api, cli, renewed>>
    BY DEF SetPermissions, MayGrant
<1>2. t \in Accounts /\ Turns(w, Idle)
    BY <1>1, ChangesHold
<1>3. /\ overtaken' = overtaken \/ overtaken' = overtaken \cup {t}
      /\ t \notin overtaken' => now = row
    BY <1>1 DEF Overtaken
<1>4. /\ accounts' \in [Accounts -> AccountRow]
      /\ grants' \in [Accounts -> SUBSET Permissions]
      /\ renewed' \in [Accounts -> Nat]
      /\ overtaken' \subseteq Accounts
    BY <1>1, <1>2, <1>3 DEF AuthInv, AuthTypes
<1>5. Growth
    BY <1>1, <1>3 DEF Growth, Grows, Exists
<1>6. GrantsFit'
    <2>1. ASSUME NEW a \in Accounts, a \notin overtaken'
          PROVE  grants'[a] \subseteq Ceiling(accounts'[a].role)
        <3>1. CASE a = t
            <4>1. grants'[a] = explicit /\ accounts'[a].role = row.role
                BY <1>1, <1>2, <1>3, <2>1, <3>1 DEF AuthInv, AuthTypes
            <4> QED BY <1>1, <4>1
        <3>2. CASE a # t
            BY <1>1, <1>2, <1>3, <2>1, <3>2 DEF AuthInv, AuthTypes, GrantsFit
        <3> QED BY <3>1, <3>2
    <2> QED BY <2>1 DEF GrantsFit
<1>7. SuperadminRemains'
    BY <1>1, <1>3 DEF AuthInv, SuperadminRemains, SuperadminNeverRunsOut, Superadmins,
                      Exists
<1>8. sessions' \in [Sessions -> SessionRow] /\ StatesOnly
    BY <1>1, SessionsRest DEF AuthInv
<1> QED BY <1>1, <1>2, <1>4, <1>5, <1>6, <1>7, <1>8, CommandEnds

\* The guard of a demotion or a closing, when the row is as it was read.
LEMMA GuardHolds ==
    ASSUME NEW w \in Servers, NotLastSuperadmin(w), NEW t, t = request[w].target,
           accounts[t] = request[w].row
    PROVE  accounts[t].role = "SUPERADMIN" /\ accounts[t].state = "active" =>
               Cardinality(Superadmins) > 1
    BY DEF NotLastSuperadmin

LEMMA ChangesRole ==
    ASSUME AuthInv, NEW w \in Servers, NEW role \in Roles, ChangeRole(w, role)
    PROVE  AuthInv'
<1> DEFINE t == request[w].target
           row == request[w].row
           new == [row EXCEPT !.role = role]
           left == request[w].granted \cap Ceiling(role)
<1>1. /\ Changes(w)
      /\ role # "SUPERADMIN" => NotLastSuperadmin(w)
      /\ accounts' = [accounts EXCEPT ![t] = new]
      /\ grants' = [grants EXCEPT ![t] = left]
      /\ overtaken' = Overtaken(t, accounts[t] = row /\ grants[t] = request[w].granted)
      /\ UNCHANGED <<sessions, api, cli, renewed>>
    BY DEF ChangeRole
<1>2. /\ t \in Accounts /\ row \in AccountRow /\ row.state # "unborn" /\ Turns(w, Idle)
      /\ request[w].granted \in SUBSET Permissions /\ \E a \in Accounts : Exists(a)
    BY <1>1, ChangesHold
<1>3. /\ new \in AccountRow /\ new.role = role /\ new.state = row.state
      /\ new.version = row.version
    BY <1>2 DEF AccountRow
<1>4. /\ overtaken' = overtaken \/ overtaken' = overtaken \cup {t}
      /\ t \notin overtaken' => accounts[t] = row
      /\ left \subseteq Ceiling(role) /\ left \in SUBSET Permissions
    BY <1>1, <1>2 DEF Overtaken
<1>5. overtaken' = {} =>
             \/ new.role = "SUPERADMIN" /\ new.state = "active"
             \/ /\ Exists(t)
                /\ new.role = accounts[t].role /\ new.state = accounts[t].state
             \/ /\ \E a \in Accounts : Exists(a)
                /\ accounts[t].role = "SUPERADMIN" /\ accounts[t].state = "active" =>
                     Cardinality(Superadmins) > 1
    <2> SUFFICES ASSUME overtaken' = {} PROVE
             \/ new.role = "SUPERADMIN" /\ new.state = "active"
             \/ /\ Exists(t)
                /\ new.role = accounts[t].role /\ new.state = accounts[t].state
             \/ /\ \E a \in Accounts : Exists(a)
                /\ accounts[t].role = "SUPERADMIN" /\ accounts[t].state = "active" =>
                     Cardinality(Superadmins) > 1
        OBVIOUS
    <2>1. accounts[t] = row
        BY <1>4
    <2>2. CASE role = "SUPERADMIN"
        <3>1. accounts[t].state # "active" =>
                ~ (accounts[t].role = "SUPERADMIN" /\ accounts[t].state = "active")
            OBVIOUS
        <3> QED BY <1>2, <1>3, <2>1, <2>2, <3>1
    <2>3. CASE role # "SUPERADMIN"
        <3>1. accounts[t].role = "SUPERADMIN" /\ accounts[t].state = "active" =>
                 Cardinality(Superadmins) > 1
            BY <1>1, <2>1, <2>3, GuardHolds
        <3> QED BY <1>2, <3>1
    <2> QED BY <2>2, <2>3
<1> HIDE DEF t, row, new, left
<1>6. SuperadminRemains'
    BY <1>1, <1>2, <1>3, <1>4, <1>5, SuperadminLives
<1>7. /\ accounts' \in [Accounts -> AccountRow]
      /\ grants' \in [Accounts -> SUBSET Permissions]
      /\ renewed' \in [Accounts -> Nat]
      /\ overtaken' \subseteq Accounts
      /\ Growth /\ GrantsFit'
    BY <1>1, <1>2, <1>3, <1>4, RowWritten
<1>8. sessions' \in [Sessions -> SessionRow] /\ StatesOnly
    BY <1>1, SessionsRest DEF AuthInv
<1> QED BY <1>1, <1>2, <1>6, <1>7, <1>8, CommandEnds

LEMMA Deactivates ==
    ASSUME AuthInv, NEW w \in Servers, Deactivate(w) PROVE AuthInv'
<1> DEFINE t == request[w].target
           row == request[w].row
           new == [row EXCEPT !.state = "inactive", !.version = @ + 1]
           closed == [row EXCEPT !.state = "inactive"]
<1>1. /\ Changes(w) /\ NotLastSuperadmin(w) /\ WriteRow(t, row, new)
      /\ row.version < MaxVersion
      /\ sessions' = RevokeAll(t)
      /\ renewed' = [renewed EXCEPT ![t] = @ + 1]
      /\ UNCHANGED <<grants, api, cli>>
    BY DEF Deactivate, Writes, Renews
<1>2. /\ t \in Accounts /\ row \in AccountRow /\ row.state # "unborn" /\ Turns(w, Idle)
      /\ \E a \in Accounts : Exists(a)
    BY <1>1, ChangesHold
<1>3. /\ new \in AccountRow /\ new.state = "inactive" /\ new.role = row.role
      /\ new.version = row.version + 1
    <2>1. /\ closed \in AccountRow /\ closed.state = "inactive" /\ closed.role = row.role
          /\ closed.version = row.version
        BY <1>2 DEF AccountRow
    <2>2. new = WithPassword(closed)
        BY DEF WithPassword
    <2> HIDE DEF new, closed
    <2> QED BY <1>1, <2>1, <2>2, NewPassword
<1>4. /\ accounts' = [accounts EXCEPT ![t] = new]
      /\ overtaken' = overtaken \/ overtaken' = overtaken \cup {t}
      /\ t \notin overtaken' => accounts[t] = row /\ t \notin overtaken
    BY <1>1 DEF WriteRow, Overtaken
<1>5. overtaken' = {} => (accounts[t].role = "SUPERADMIN" /\ accounts[t].state = "active" =>
                             Cardinality(Superadmins) > 1)
    BY <1>1, <1>4, GuardHolds
<1> HIDE DEF t, row, new
<1>6. SuperadminRemains'
    BY <1>2, <1>3, <1>4, <1>5, SuperadminLives
<1>7. /\ grants' = [grants EXCEPT ![t] = grants[t]]
      /\ grants[t] \in SUBSET Permissions
      /\ t \notin overtaken => grants[t] \subseteq Ceiling(accounts[t].role)
    BY <1>1, <1>2, GrantsRest
<1>8. t \notin overtaken' => grants[t] \subseteq Ceiling(new.role)
    BY <1>3, <1>4, <1>7
<1>9. /\ accounts' \in [Accounts -> AccountRow]
      /\ grants' \in [Accounts -> SUBSET Permissions]
      /\ renewed' \in [Accounts -> Nat]
      /\ overtaken' \subseteq Accounts
      /\ Growth /\ GrantsFit'
    BY <1>1, <1>2, <1>3, <1>4, <1>7, <1>8, RowWritten
<1>10. sessions' \in [Sessions -> SessionRow] /\ StatesOnly
    BY <1>1, RevokingKeeps DEF AuthInv
<1> QED BY <1>1, <1>2, <1>6, <1>9, <1>10, CommandEnds

LEMMA Reactivates ==
    ASSUME AuthInv, NEW w \in Servers, Reactivate(w) PROVE AuthInv'
<1> DEFINE t == request[w].target
           row == request[w].row
           new == [row EXCEPT !.state = "active"]
<1>1. /\ Changes(w) /\ WriteRow(t, row, new)
      /\ UNCHANGED <<grants, sessions, api, cli, renewed>>
    BY DEF Reactivate, Writes
<1>2. /\ t \in Accounts /\ row \in AccountRow /\ row.state # "unborn" /\ Turns(w, Idle)
      /\ \E a \in Accounts : Exists(a)
    BY <1>1, ChangesHold
<1>3. /\ new \in AccountRow /\ new.state = "active" /\ new.role = row.role
      /\ new.version = row.version
    BY <1>2 DEF AccountRow
<1>4. /\ accounts' = [accounts EXCEPT ![t] = new]
      /\ overtaken' = overtaken \/ overtaken' = overtaken \cup {t}
      /\ t \notin overtaken' => accounts[t] = row /\ t \notin overtaken
    BY <1>1 DEF WriteRow, Overtaken
<1>5. overtaken' = {} =>
             \/ new.role = "SUPERADMIN" /\ new.state = "active"
             \/ /\ \E a \in Accounts : Exists(a)
                /\ accounts[t].role = "SUPERADMIN" /\ accounts[t].state = "active" =>
                     Cardinality(Superadmins) > 1
    BY <1>2, <1>3, <1>4
<1> HIDE DEF t, row, new
<1>6. SuperadminRemains'
    BY <1>2, <1>3, <1>4, <1>5, SuperadminLives
<1>7. /\ grants' = [grants EXCEPT ![t] = grants[t]]
      /\ grants[t] \in SUBSET Permissions
      /\ t \notin overtaken => grants[t] \subseteq Ceiling(accounts[t].role)
    BY <1>1, <1>2, GrantsRest
<1>8. t \notin overtaken' => grants[t] \subseteq Ceiling(new.role)
    BY <1>3, <1>4, <1>7
<1>9. /\ accounts' \in [Accounts -> AccountRow]
      /\ grants' \in [Accounts -> SUBSET Permissions]
      /\ renewed' \in [Accounts -> Nat]
      /\ overtaken' \subseteq Accounts
      /\ Growth /\ GrantsFit'
    BY <1>1, <1>2, <1>3, <1>4, <1>7, <1>8, RowWritten
<1>10. sessions' \in [Sessions -> SessionRow] /\ StatesOnly
    BY <1>1, SessionsRest DEF AuthInv
<1> QED BY <1>1, <1>2, <1>6, <1>9, <1>10, CommandEnds

LEMMA ManageSteps ==
    ASSUME AuthInv, NEW w \in Servers, ManageStep(w) PROVE AuthInv'
    BY BeginsCreation, BeginsCommand, CreatesAccount, SetsPermissions, ChangesRole,
       UpdatesProfile, ResetsPassword, Deactivates, Reactivates DEF ManageStep

-----------------------------------------------------------------------------
(* The operator's command line. *)

\* The end of a step of the command line that has written its tables well.
LEMMA CliKeeps ==
    ASSUME AuthInv, UNCHANGED <<request, api>>, cli' \in CliWork, CliHolds',
           accounts' \in [Accounts -> AccountRow],
           grants' \in [Accounts -> SUBSET Permissions],
           renewed' \in [Accounts -> Nat], overtaken' \subseteq Accounts,
           sessions' \in [Sessions -> SessionRow], StatesOnly,
           Growth, GrantsFit', SuperadminRemains'
    PROVE  AuthInv'
<1>1. request' \in [Servers -> Request] /\ RequestsHold' /\ RequestsFollow
    BY RequestsRest
<1>2. AuthTypes'
    BY <1>1 DEF AuthInv, AuthTypes
<1> QED BY <1>1, <1>2, SessionsStay, StepKeeps

LEMMA Bootstraps ==
    ASSUME AuthInv, NEW a \in Accounts, Bootstrap(a) PROVE AuthInv'
<1> DEFINE row == [state |-> "active", role |-> "SUPERADMIN", version |-> 1]
<1>1. /\ ~ Exists(a)
      /\ accounts' = [accounts EXCEPT ![a] = row]
      /\ cli' = [step |-> "grant", target |-> a, row |-> accounts'[a]]
      /\ UNCHANGED <<grants, sessions, request, api, renewed, overtaken>>
    BY DEF Bootstrap
<1>2. /\ row \in AccountRow /\ row.state # "unborn" /\ row.state = "active"
      /\ row.role = "SUPERADMIN"
    BY BoundAssumption, RolesAssumption DEF AccountRow
<1>3. accounts'[a] = row
    BY <1>1 DEF AuthInv, AuthTypes
<1>4. /\ grants' = [grants EXCEPT ![a] = grants[a]]
      /\ grants[a] \in SUBSET Permissions
      /\ grants[a] \subseteq Ceiling(row.role)
    BY <1>1, <1>2, GrantsRest DEF Ceiling
<1> HIDE DEF row
<1>5. /\ accounts' \in [Accounts -> AccountRow]
      /\ grants' \in [Accounts -> SUBSET Permissions]
      /\ renewed' \in [Accounts -> Nat]
      /\ overtaken' \subseteq Accounts
      /\ Growth /\ GrantsFit'
    BY <1>1, <1>2, <1>4, RowWritten
<1>6. SuperadminRemains'
    BY <1>1, <1>2, SuperadminLives
<1>7. cli' \in CliWork /\ CliHolds'
    BY <1>1, <1>2, <1>3 DEF CliWork, CliHolds
<1>8. sessions' \in [Sessions -> SessionRow] /\ StatesOnly
    BY <1>1, SessionsRest DEF AuthInv
<1> QED BY <1>1, <1>5, <1>6, <1>7, <1>8, CliKeeps

LEMMA GrantsOnBootstrap ==
    ASSUME AuthInv, NEW p \in Permissions, BootstrapGrants(p) PROVE AuthInv'
<1> DEFINE t == cli.target
           now == accounts[t]
<1>1. /\ cli.step = "grant"
      /\ grants' = [grants EXCEPT ![t] = @ \cup {p}]
      /\ overtaken' = Overtaken(t, now = cli.row)
      /\ UNCHANGED <<accounts, sessions, request, api, cli, renewed>>
    BY DEF BootstrapGrants
<1>2. t \in Accounts /\ cli.row.role = "SUPERADMIN"
    BY <1>1 DEF AuthInv, CliHolds
<1>3. /\ overtaken' = overtaken \/ overtaken' = overtaken \cup {t}
      /\ t \notin overtaken' => now = cli.row
    BY <1>1 DEF Overtaken
<1>4. /\ accounts' \in [Accounts -> AccountRow]
      /\ grants' \in [Accounts -> SUBSET Permissions]
      /\ renewed' \in [Accounts -> Nat]
      /\ overtaken' \subseteq Accounts
    BY <1>1, <1>2, <1>3 DEF AuthInv, AuthTypes
<1>5. Growth
    BY <1>1, <1>3 DEF Growth, Grows, Exists
<1>6. GrantsFit'
    <2>1. ASSUME NEW a \in Accounts, a \notin overtaken'
          PROVE  grants'[a] \subseteq Ceiling(accounts'[a].role)
        <3>1. CASE a = t
            BY <1>1, <1>2, <1>3, <1>4, <2>1, <3>1 DEF Ceiling
        <3>2. CASE a # t
            BY <1>1, <1>2, <1>3, <2>1, <3>2 DEF AuthInv, AuthTypes, GrantsFit
        <3> QED BY <3>1, <3>2
    <2> QED BY <2>1 DEF GrantsFit
<1>7. SuperadminRemains'
    BY <1>1, <1>3 DEF AuthInv, SuperadminRemains, SuperadminNeverRunsOut, Superadmins,
                      Exists
<1>8. sessions' \in [Sessions -> SessionRow] /\ StatesOnly
    BY <1>1, SessionsRest DEF AuthInv
<1>9. cli' \in CliWork /\ CliHolds'
    BY <1>1, CliRests
<1> QED BY <1>1, <1>4, <1>5, <1>6, <1>7, <1>8, <1>9, CliKeeps

\* The command line moves on and leaves the accounts and their grants alone.
LEMMA CliMoves ==
    ASSUME AuthInv, UNCHANGED <<accounts, grants, request, api, renewed, overtaken>>,
           sessions' \in [Sessions -> SessionRow], StatesOnly, cli' \in CliWork, CliHolds'
    PROVE  AuthInv'
<1>1. request' \in [Servers -> Request] /\ RequestsHold' /\ RequestsFollow
    BY RequestsRest
<1>2. AuthTypes'
    BY <1>1 DEF AuthInv, AuthTypes
<1> QED BY <1>1, <1>2, SessionsStay, QuietStep

LEMMA RecoveryBegins ==
    ASSUME AuthInv, NEW a \in Accounts, RecoveryReads(a) PROVE AuthInv'
<1>1. /\ Exists(a) /\ accounts[a].version < MaxVersion
      /\ cli' = [step |-> "write", target |-> a, row |-> accounts[a]]
      /\ UNCHANGED <<accounts, grants, sessions, request, api, renewed, overtaken>>
    BY DEF RecoveryReads
<1>2. accounts[a] \in AccountRow
    BY DEF AuthInv, AuthTypes
<1>3. cli' \in CliWork
    BY <1>1, <1>2 DEF CliWork
<1>4. CliHolds'
    BY <1>1 DEF CliHolds, Exists
<1>5. sessions' \in [Sessions -> SessionRow] /\ StatesOnly
    BY <1>1, SessionsRest DEF AuthInv
<1> QED BY <1>1, <1>3, <1>4, <1>5, CliMoves

LEMMA RecoveryKeeps ==
    ASSUME AuthInv, RecoveryWrites PROVE AuthInv'
<1> DEFINE t == cli.target
           row == cli.row
           new == WithPassword(row)
           next == [cli EXCEPT !.step = "revoke"]
<1>1. /\ cli.step = "write" /\ WriteRow(t, row, new)
      /\ renewed' = [renewed EXCEPT ![t] = @ + 1]
      /\ cli' = next
      /\ UNCHANGED <<grants, sessions, request, api>>
    BY DEF RecoveryWrites
<1>2. /\ t \in Accounts /\ row \in AccountRow /\ row.state # "unborn"
      /\ row.version < MaxVersion
    BY <1>1 DEF AuthInv, CliHolds, AuthTypes, CliWork
<1>3. /\ new \in AccountRow /\ new.role = row.role /\ new.state = row.state
      /\ new.version = row.version + 1
    BY <1>2, NewPassword
<1>4. /\ next \in CliWork /\ next.step = "revoke" /\ next.target = t /\ next.row = row
    BY DEF AuthInv, AuthTypes, CliWork
<1> HIDE DEF t, row, new, next
<1>5. /\ accounts' \in [Accounts -> AccountRow]
      /\ grants' \in [Accounts -> SUBSET Permissions]
      /\ renewed' \in [Accounts -> Nat]
      /\ overtaken' \subseteq Accounts
      /\ Growth /\ GrantsFit' /\ SuperadminRemains'
    BY <1>1, <1>2, <1>3, StandingKept
<1>6. cli' \in CliWork /\ CliHolds'
    BY <1>1, <1>2, <1>4 DEF CliHolds
<1>7. sessions' \in [Sessions -> SessionRow] /\ StatesOnly
    BY <1>1, SessionsRest DEF AuthInv
<1> QED BY <1>1, <1>5, <1>6, <1>7, CliKeeps

LEMMA CliSteps ==
    ASSUME AuthInv, CliStep PROVE AuthInv'
<1>1. NoCommand \in CliWork /\ NoCommand.step = "idle"
    BY Blanks
<1>2. CASE RecoveryRevokes
    <2>1. /\ sessions' = RevokeAll(cli.target) /\ cli' = NoCommand
          /\ UNCHANGED <<accounts, grants, request, api, renewed, overtaken>>
        BY <1>2 DEF RecoveryRevokes
    <2>2. cli' \in CliWork /\ CliHolds'
        BY <1>1, <2>1 DEF CliHolds
    <2>3. sessions' \in [Sessions -> SessionRow] /\ StatesOnly
        BY <2>1, RevokingKeeps DEF AuthInv
    <2> QED BY <2>1, <2>2, <2>3, CliMoves
<1>3. CASE CliEnds
    <2>1. /\ cli' = NoCommand
          /\ UNCHANGED <<accounts, grants, sessions, request, api, renewed, overtaken>>
        BY <1>3 DEF CliEnds
    <2>2. cli' \in CliWork /\ CliHolds'
        BY <1>1, <2>1 DEF CliHolds
    <2>3. sessions' \in [Sessions -> SessionRow] /\ StatesOnly
        BY <2>1, SessionsRest DEF AuthInv
    <2> QED BY <2>1, <2>2, <2>3, CliMoves
<1> QED BY <1>2, <1>3, Bootstraps, GrantsOnBootstrap, RecoveryBegins, RecoveryKeeps
        DEF CliStep

-----------------------------------------------------------------------------
(* The theorems. *)

LEMMA AuthStutters ==
    ASSUME AuthInv, UNCHANGED authVars PROVE AuthInv'
<1>1. UNCHANGED <<accounts, grants, sessions, request, api, cli, renewed, overtaken>>
    BY DEF authVars
<1>2. sessions' \in [Sessions -> SessionRow] /\ StatesOnly
    BY <1>1, SessionsRest DEF AuthInv
<1>3. cli' \in CliWork /\ CliHolds'
    BY <1>1, CliRests
<1> QED BY <1>1, <1>2, <1>3, CliMoves

LEMMA AuthInvariant == AuthSpec => []AuthInv
<1>1. AuthInv /\ [AuthNext]_authVars => AuthInv'
    <2> SUFFICES ASSUME AuthInv, [AuthNext]_authVars PROVE AuthInv'
        OBVIOUS
    <2>1. CASE \E w \in Servers : SessionStep(w)
        BY <2>1, SessionSteps
    <2>2. CASE \E w \in Servers : ManageStep(w)
        BY <2>2, ManageSteps
    <2>3. CASE CliStep
        BY <2>3, CliSteps
    <2>4. CASE ApiStep
        BY <2>4, ApiSteps
    <2>5. CASE UNCHANGED authVars
        BY <2>5, AuthStutters
    <2> QED BY <2>1, <2>2, <2>3, <2>4, <2>5 DEF AuthNext
<1> QED BY <1>1, InitAuth, PTL DEF AuthSpec

\* Rows, sessions and requests stay well formed, and explicit permissions never exceed
\* what the role allows: the ceilings that creation, grants and changes of role keep.
THEOREM AccountsAreWellFormed == AuthSpec => []AuthTypeOK
<1>1. AuthInv => AuthTypeOK
    BY DEF AuthInv, AuthTypes, GrantsFit, AuthTypeOK
<1> QED BY <1>1, AuthInvariant, PTL

\* From the bootstrap on there is an active SUPERADMIN, for any number of servers on
\* which administrators demote and close each other at once, as long as no write has
\* replaced a row that had changed since it was read.
THEOREM ASuperadminRemains == AuthSpec => []SuperadminRemains
<1>1. AuthInv => SuperadminRemains
    BY DEF AuthInv
<1> QED BY <1>1, AuthInvariant, PTL

\* A session whose password was checked before the account was closed or its password
\* set again never authenticates again, whatever stops, reads early or writes late.
THEOREM NoOldSessionAuthenticates == AuthSpec => []OldSessionsStayDead
<1>1. AuthInv => OldSessionsStayDead
    BY DEF AuthInv, SessionsAge, Ages, OldSessionsStayDead, Authenticates, Accepts
<1> QED BY <1>1, AuthInvariant, PTL

\* The step leaves the rights of a alone.
Unmoved(a) ==
    /\ accounts'[a].role = accounts[a].role
    /\ accounts'[a].state = "active" => accounts[a].state = "active"
    /\ grants'[a] = grants[a]

LEMMA UnmovedGains == ASSUME NEW a, Unmoved(a) PROVE GainsFromHolder(a)
    BY DEF Unmoved, GainsFromHolder, Effective

\* A whole row is written that grants nothing the row read did not.
LEMMA WriteUnmoved ==
    ASSUME AuthTypes, NEW t \in Accounts, NEW old, NEW row, WriteRow(t, old, row),
           UNCHANGED grants, row.role = old.role,
           row.state = "active" => old.state = "active",
           NEW a \in Accounts \ overtaken'
    PROVE  Unmoved(a)
<1>1. a = t => accounts[a] = old /\ accounts'[a] = row
    BY DEF WriteRow, Overtaken, AuthTypes
<1>2. a # t => accounts'[a] = accounts[a]
    BY DEF WriteRow, AuthTypes
<1> QED BY <1>1, <1>2 DEF Unmoved

LEMMA SessionsUnmoved ==
    ASSUME AuthInv, NEW w \in Servers, SessionStep(w), NEW a \in Accounts \ overtaken'
    PROVE  Unmoved(a)
<1>1. CASE LoginWrites(w)
    <2>1. /\ WriteRow(request[w].target, request[w].row, request[w].row)
          /\ UNCHANGED grants /\ request[w].target \in Accounts /\ AuthTypes
        BY <1>1 DEF LoginWrites, AuthInv, RequestsHold, InHand
    <2> QED BY <2>1, WriteUnmoved
<1>2. CASE PasswordWrites(w)
    <2>1. /\ WriteRow(request[w].target, request[w].row, WithPassword(request[w].row))
          /\ UNCHANGED grants /\ request[w].target \in Accounts /\ AuthTypes
          /\ request[w].row \in AccountRow /\ request[w].row.version < MaxVersion
        BY <1>2 DEF PasswordWrites, AuthInv, AuthTypes, RequestsHold, InHand, Request
    <2> QED BY <2>1, WriteUnmoved, NewPassword
<1>3. CASE UNCHANGED <<accounts, grants>>
    BY <1>3 DEF Unmoved
<1>4. SessionStep(w) => \/ LoginWrites(w) \/ PasswordWrites(w)
                        \/ UNCHANGED <<accounts, grants>>
    BY DEF SessionStep, LoginReads, OpenSession, Logout, PasswordReads, RevokeOwn, GivesUp
<1> QED BY <1>1, <1>2, <1>3, <1>4

\* The hands of the actor of a command that ends on its target a, unless it is overtaken.
LEMMA ActorHands ==
    ASSUME AuthInv, NEW w \in Servers, Changes(w), NEW a, a = request[w].target,
           accounts[a] = request[w].row, NEW gained,
           accounts'[a].role \in Manageable(request[w].role),
           request[w].role = "SUPERADMIN" \/ gained \subseteq request[w].held
    PROVE  HandedBy(w, a, gained)
<1>1. /\ a \in Accounts /\ Exists(a) /\ accounts[a].role \in Manageable(request[w].role)
      /\ Turns(w, Idle)
    BY ChangesHold DEF Exists
<1>2. request'[w] = Idle
    BY <1>1 DEF Turns, AuthInv, AuthTypes
<1> QED BY <1>1, <1>2 DEF HandedBy, Changes, Commits

\* Who manages anybody is a SUPERADMIN or an ADMIN.
LEMMA TwoManage ==
    ASSUME NEW role, Manageable(role) # {} PROVE role \in {"SUPERADMIN", "ADMIN"}
    BY DEF Manageable

LEMMA CreationHands ==
    ASSUME AuthInv, NEW w \in Servers, NEW t \in Accounts, NEW role \in Roles,
           NEW explicit \in SUBSET Permissions, CreateAccount(w, t, role, explicit),
           NEW a \in Accounts \ overtaken'
    PROVE  GainsFromHolder(a)
<1>1. /\ Commits(w) /\ request[w].target = None /\ ~ Exists(t)
      /\ role \in Manageable(request[w].role)
      /\ request[w].role = "ADMIN" => explicit \subseteq request[w].held
      /\ accounts' = [accounts EXCEPT ![t] =
                        [state |-> "active", role |-> role, version |-> 1]]
      /\ grants' = [grants EXCEPT ![t] = explicit]
    BY DEF CreateAccount, MayGrant
<1>2. CASE a # t
    BY <1>1, <1>2, UnmovedGains DEF AuthInv, AuthTypes, Unmoved
<1>3. CASE a = t
    <2> DEFINE gained == Effective(accounts'[a], grants'[a])
                           \ Effective(accounts[a], grants[a])
    <2>1. accounts'[a].role = role /\ grants'[a] = explicit /\ request'[w] = Idle
        BY <1>1, <1>3 DEF AuthInv, AuthTypes, Commits, Turns
    <2>2. gained \subseteq explicit
        BY <2>1 DEF Effective
    <2>3. request[w].role \in {"SUPERADMIN", "ADMIN"}
        BY <1>1, TwoManage
    <2> HIDE DEF gained
    <2>4. HandedBy(w, a, gained)
        BY <1>1, <1>3, <2>1, <2>2, <2>3 DEF HandedBy, Commits
    <2> QED BY <2>4 DEF GainsFromHolder, gained
<1> QED BY <1>2, <1>3

LEMMA GrantHands ==
    ASSUME AuthInv, NEW w \in Servers, NEW explicit \in SUBSET Permissions,
           SetPermissions(w, explicit), NEW a \in Accounts \ overtaken'
    PROVE  GainsFromHolder(a)
<1>1. /\ Changes(w)
      /\ request[w].role = "ADMIN" => explicit \subseteq request[w].held
      /\ grants' = [grants EXCEPT ![request[w].target] = explicit]
      /\ overtaken' = Overtaken(request[w].target,
                                accounts[request[w].target] = request[w].row)
      /\ UNCHANGED accounts
    BY DEF SetPermissions, MayGrant
<1>2. CASE a # request[w].target
    BY <1>1, <1>2, UnmovedGains DEF AuthInv, AuthTypes, Unmoved
<1>3. CASE a = request[w].target
    <2> DEFINE gained == Effective(accounts'[a], grants'[a])
                           \ Effective(accounts[a], grants[a])
    <2>1. accounts[a] = request[w].row /\ grants'[a] = explicit
        BY <1>1, <1>3 DEF AuthInv, AuthTypes, Overtaken
    <2>2. accounts'[a].role \in Manageable(request[w].role)
        BY <1>1, <2>1, ChangesHold
    <2>3. gained \subseteq explicit
        BY <2>1 DEF Effective
    <2>4. request[w].role \in {"SUPERADMIN", "ADMIN"}
        BY <2>2, TwoManage
    <2> HIDE DEF gained
    <2>5. HandedBy(w, a, gained)
        BY <1>1, <1>3, <2>1, <2>2, <2>3, <2>4, ActorHands
    <2> QED BY <2>5 DEF GainsFromHolder, gained
<1> QED BY <1>2, <1>3

LEMMA RoleHands ==
    ASSUME AuthInv, NEW w \in Servers, NEW role \in Roles, ChangeRole(w, role),
           NEW a \in Accounts \ overtaken'
    PROVE  GainsFromHolder(a)
<1> DEFINE t == request[w].target
           new == [request[w].row EXCEPT !.role = role]
<1>1. /\ Changes(w)
      /\ role \in Manageable(request[w].role)
      /\ accounts' = [accounts EXCEPT ![t] = new]
      /\ grants' = [grants EXCEPT ![t] = request[w].granted \cap Ceiling(role)]
      /\ overtaken' = Overtaken(t, accounts[t] = request[w].row
                                   /\ grants[t] = request[w].granted)
    BY DEF ChangeRole
<1>2. CASE a # t
    BY <1>1, <1>2, UnmovedGains DEF AuthInv, AuthTypes, Unmoved
<1>3. CASE a = t
    <2> DEFINE gained == Effective(accounts'[a], grants'[a])
                           \ Effective(accounts[a], grants[a])
    <2>1. /\ accounts[a] = request[w].row /\ grants[a] = request[w].granted
          /\ a \notin overtaken
        BY <1>1, <1>3 DEF Overtaken
    <2>2. accounts'[a].role = role /\ grants'[a] \subseteq grants[a]
        <3>1. accounts'[a] = new /\ request[w].row \in AccountRow
            BY <1>1, <1>3, ChangesHold DEF AuthInv, AuthTypes
        <3>2. new.role = role
            BY <3>1 DEF AccountRow
        <3>3. grants'[a] \subseteq grants[a]
            BY <1>1, <1>3, <2>1 DEF AuthInv, AuthTypes
        <3> QED BY <3>1, <3>2, <3>3
    <2>3. grants[a] \subseteq Ceiling(accounts[a].role)
        BY <2>1 DEF AuthInv, GrantsFit
    <2>4. gained = {}
        BY <2>2, <2>3 DEF Effective
    <2> HIDE DEF gained, new
    <2>5. HandedBy(w, a, gained)
        BY <1>1, <1>3, <2>1, <2>2, <2>4, ActorHands
    <2> QED BY <2>5 DEF GainsFromHolder, gained
<1> QED BY <1>2, <1>3

LEMMA ReactivationHands ==
    ASSUME AuthInv, NEW w \in Servers, Reactivate(w), NEW a \in Accounts \ overtaken'
    PROVE  GainsFromHolder(a)
<1> DEFINE t == request[w].target
           new == [request[w].row EXCEPT !.state = "active"]
<1>1. /\ Changes(w) /\ WriteRow(t, request[w].row, new) /\ UNCHANGED grants
    BY DEF Reactivate, Writes
<1>2. CASE a # t
    BY <1>1, <1>2, UnmovedGains DEF AuthInv, AuthTypes, WriteRow, Unmoved
<1>3. CASE a = t
    <2> DEFINE gained == Effective(accounts'[a], grants'[a])
                           \ Effective(accounts[a], grants[a])
    <2>1. accounts[a] = request[w].row
        BY <1>1, <1>3 DEF WriteRow, Overtaken
    <2>2. accounts'[a].role = accounts[a].role
        <3>1. accounts'[a] = new /\ request[w].row \in AccountRow
            BY <1>1, <1>3, ChangesHold DEF AuthInv, AuthTypes, WriteRow
        <3> QED BY <2>1, <3>1 DEF AccountRow
    <2>3. gained = {}
        BY <1>1, <2>2 DEF Effective
    <2> HIDE DEF gained, new
    <2>4. accounts'[a].role \in Manageable(request[w].role)
        BY <1>1, <2>1, <2>2, ChangesHold
    <2>5. HandedBy(w, a, gained)
        BY <1>1, <1>3, <2>1, <2>3, <2>4, ActorHands
    <2> QED BY <2>5 DEF GainsFromHolder, gained
<1> QED BY <1>2, <1>3

\* The other account commands hand nothing out.
LEMMA OthersUnmoved ==
    ASSUME AuthInv, NEW w \in Servers, UpdateProfile(w) \/ ResetPassword(w) \/ Deactivate(w),
           NEW a \in Accounts \ overtaken'
    PROVE  Unmoved(a)
<1> DEFINE row == request[w].row
           closed == [row EXCEPT !.state = "inactive", !.version = @ + 1]
<1>1. /\ Changes(w) /\ UNCHANGED grants
      /\ \/ Writes(w, row)
         \/ row.version < MaxVersion /\ Writes(w, WithPassword(row))
         \/ Writes(w, closed)
    BY DEF UpdateProfile, ResetPassword, Deactivate, Renews
<1>2. request[w].target \in Accounts /\ row \in AccountRow /\ AuthTypes
    BY <1>1, ChangesHold DEF AuthInv
<1>3. closed.role = row.role /\ closed.state = "inactive"
    <2>1. row = [state |-> row.state, role |-> row.role, version |-> row.version]
        BY <1>2 DEF AccountRow
    <2> QED BY <2>1
<1> HIDE DEF row, closed
<1>4. CASE Writes(w, row)
    BY <1>1, <1>2, <1>4, WriteUnmoved DEF Writes, row
<1>5. CASE row.version < MaxVersion /\ Writes(w, WithPassword(row))
    BY <1>1, <1>2, <1>5, WriteUnmoved, NewPassword DEF Writes, row
<1>6. CASE Writes(w, closed)
    BY <1>1, <1>2, <1>3, <1>6, WriteUnmoved DEF Writes, row
<1> QED BY <1>1, <1>4, <1>5, <1>6

LEMMA ManagersHand ==
    ASSUME AuthInv, NEW w \in Servers, ManageStep(w), NEW a \in Accounts \ overtaken'
    PROVE  GainsFromHolder(a)
<1>1. CASE \/ \E s \in Sessions : CreateReads(w, s)
           \/ \E s \in Sessions, t \in Accounts : ManageReads(w, s, t)
    <2>1. UNCHANGED <<accounts, grants>>
        BY <1>1 DEF CreateReads, ManageReads
    <2> QED BY <2>1, UnmovedGains DEF Unmoved
<1>2. CASE UpdateProfile(w) \/ ResetPassword(w) \/ Deactivate(w)
    BY <1>2, OthersUnmoved, UnmovedGains
<1> QED BY <1>1, <1>2, CreationHands, GrantHands, RoleHands, ReactivationHands
        DEF ManageStep

LEMMA CliHands ==
    ASSUME AuthInv, CliStep, NEW a \in Accounts \ overtaken'
    PROVE  GainsFromHolder(a)
<1>1. CASE \E b \in Accounts : Bootstrap(b)
    BY <1>1 DEF Bootstrap, GainsFromHolder
<1>2. CASE \E p \in Permissions : BootstrapGrants(p)
    <2>1. CASE a = cli.target
        BY <1>2, <2>1 DEF BootstrapGrants, GainsFromHolder
    <2>2. CASE a # cli.target
        BY <1>2, <2>2, UnmovedGains DEF BootstrapGrants, AuthInv, AuthTypes, Unmoved
    <2> QED BY <2>1, <2>2
<1>3. CASE RecoveryWrites
    <2>1. /\ WriteRow(cli.target, cli.row, WithPassword(cli.row))
          /\ UNCHANGED grants /\ cli.target \in Accounts /\ AuthTypes
          /\ cli.row \in AccountRow /\ cli.row.version < MaxVersion
        BY <1>3 DEF RecoveryWrites, AuthInv, AuthTypes, CliHolds, CliWork
    <2> QED BY <2>1, WriteUnmoved, NewPassword, UnmovedGains
<1>4. CASE \/ \E b \in Accounts : RecoveryReads(b)
           \/ RecoveryRevokes \/ CliEnds
    <2>1. UNCHANGED <<accounts, grants>>
        BY <1>4 DEF RecoveryReads, RecoveryRevokes, CliEnds
    <2> QED BY <2>1, UnmovedGains DEF Unmoved
<1> QED BY <1>1, <1>2, <1>3, <1>4 DEF CliStep

\* Nobody gets a permission, another role or its account back but from somebody who may
\* manage both roles and holds what it hands out, in whatever order the requests of the
\* servers read and write, as long as the row was not overtaken.
THEOREM RightsStayWithHolders == AuthSpec => RightsComeFromHolders
<1>1. AuthInv /\ [AuthNext]_authVars =>
          [\A a \in Accounts \ overtaken' : GainsFromHolder(a)]_authVars
    <2> SUFFICES ASSUME AuthInv, AuthNext, NEW a \in Accounts \ overtaken'
                 PROVE  GainsFromHolder(a)
        OBVIOUS
    <2>1. CASE \E w \in Servers : SessionStep(w)
        BY <2>1, SessionsUnmoved, UnmovedGains
    <2>2. CASE \E w \in Servers : ManageStep(w)
        BY <2>2, ManagersHand
    <2>3. CASE CliStep
        BY <2>3, CliHands
    <2>4. CASE ApiStep
        <3>1. UNCHANGED <<accounts, grants>>
            BY <2>4 DEF ApiStep, ApiReads, ApiChecks, ApiWrites
        <3> QED BY <3>1, UnmovedGains DEF Unmoved
    <2> QED BY <2>1, <2>2, <2>3, <2>4 DEF AuthNext
<1> QED BY <1>1, AuthInvariant, PTL DEF AuthSpec, RightsComeFromHolders

=============================================================================
