----------------------------- MODULE EmployeeAuth -----------------------------
(****************************************************************************)
(* Employee accounts, their permissions and sessions.  Several processes    *)
(* share the tables:                                                        *)
(*   the servers         the Office Panel and the employee-auth API, each   *)
(*                       its own process with its own connection and one    *)
(*                       request at a time: login, logout, change of the    *)
(*                       own password, management of the accounts           *)
(*   the Office API      authenticates sessions and touches last_seen_at    *)
(*   the operator's CLI  bootstrap of the first account, recovery reset;    *)
(*                       every statement commits alone                      *)
(* A request reads rows, decides, and then writes whole rows back; only the *)
(* writes of an account command are one transaction.  Any process may stop  *)
(* between two commits, and the requests of two servers and the operator's  *)
(* command interleave freely.                                               *)
(*                                                                          *)
(* Names, mail addresses, tokens and the audit log are left out, and so is  *)
(* the forced change of a password that somebody else has set: it only      *)
(* keeps an account from working.  The expiry of a session only closes it.  *)
(* A password is the auth_version that was current when it was set.  The    *)
(* touch of a session is modelled in one process; which one does it makes   *)
(* no difference to the row.                                                *)
(****************************************************************************)
EXTENDS Naturals, FiniteSets

CONSTANTS
    Accounts,      \* account ids
    Sessions,      \* session ids (uuid4, never drawn twice)
    Servers,       \* the Office Panel and the employee-auth API
    None,
    Roles,         \* the roles in use
    MaxVersion,    \* bound of auth_version
    MaxRequests    \* bound of the requests and commands begun, but for touches

ASSUME RolesAssumption ==
    /\ "SUPERADMIN" \in Roles
    /\ Roles \subseteq {"SUPERADMIN", "ADMIN", "USER", "VIEWER"}

ASSUME NoneAssumption == None \notin Accounts \cup Sessions \cup Roles

ASSUME BoundAssumption == MaxVersion \in Nat \ {0} /\ MaxRequests \in Nat

VARIABLES
    accounts,    \* rows of employee_accounts
    grants,      \* per account: its account_permissions
    sessions,    \* rows of employee_sessions
    request,     \* per server: the request it works on
    api,         \* the session the Office API is authenticating
    cli,         \* the command of the operator
    renewed,     \* history: how often the account was closed or its password set
    overtaken,   \* history: accounts of which a write replaced a row, or used one,
                 \* that had changed since it was read
    begun        \* counter of the requests and commands, for the bound

authVars == <<accounts, grants, sessions, request, api, cli, renewed, overtaken,
              begun>>

\* Two of the permissions: one that manages accounts, one to see the audit log.
Permissions == {"users", "audit"}

\* ROLE_CEILINGS.  A viewer may be granted what ends in ".view", the audit log
\* included, which an administrator may not.
Ceiling(role) == CASE role = "SUPERADMIN" -> Permissions
                   [] role = "ADMIN"      -> {"users"}
                   [] role = "USER"       -> {}
                   [] role = "VIEWER"     -> {"audit"}

\* manageable_roles_for
Manageable(role) == CASE role = "SUPERADMIN" -> Roles
                      [] role = "ADMIN"      -> {"USER", "VIEWER"} \cap Roles
                      [] OTHER               -> {}

AccountRow == [state : {"unborn", "active", "inactive"}, role : Roles,
               version : 0..MaxVersion]

NoAccount == [state |-> "unborn", role |-> "SUPERADMIN", version |-> 0]

\* generation is history: the value of renewed when the password was checked.
SessionRow == [state : {"unborn", "open", "revoked"}, account : Accounts \cup {None},
               version : 0..MaxVersion, generation : Nat]

NoSession == [state |-> "unborn", account |-> None, version |-> 0, generation |-> 0]

Exists(a) == accounts[a].state # "unborn"

\* What a request holds in memory and the work it has left: the actor with its role
\* and effective permissions, the row and the grants of the target as they were read.
Request == [step : {"idle", "login", "session", "password", "revoke", "account"},
            actor : Accounts \cup {None}, role : Roles \cup {None},
            held : SUBSET Permissions, target : Accounts \cup {None}, row : AccountRow,
            granted : SUBSET Permissions, generation : Nat]

Idle == [step |-> "idle", actor |-> None, role |-> None, held |-> {}, target |-> None,
         row |-> NoAccount, granted |-> {}, generation |-> 0]

\* Server w turns to r.
Turns(w, r) == request' = [request EXCEPT ![w] = r]

\* A request or a command begins.
Begins == begun < MaxRequests /\ begun' = begun + 1

Overtaken(a, fresh) == IF fresh THEN overtaken ELSE overtaken \cup {a}

\* update_account: every column is written, whatever has happened to the row since
\* it was read as old.
WriteRow(a, old, row) ==
    /\ accounts' = [accounts EXCEPT ![a] = row]
    /\ overtaken' = Overtaken(a, accounts[a] = old)

-----------------------------------------------------------------------------
(* Sessions. *)

\* effective_permissions: what the role forbids is ignored.
Effective(row, explicit) == explicit \cap Ceiling(row.role)

\* _resolve_authenticated_session over a session row and an account row.
Accepts(session, row) ==
    /\ session.state = "open"
    /\ row.state = "active"
    /\ session.version = row.version

Authenticates(s) ==
    sessions[s].account # None /\ Accepts(sessions[s], accounts[sessions[s].account])

\* A request with a session of an earlier version revokes it on the way.
RevokesRefused(session, row) ==
    session.state = "open" /\ row.state = "active" /\ session.version # row.version

RevokeAll(a) == [s \in Sessions |->
    IF sessions[s].state = "open" /\ sessions[s].account = a
    THEN [sessions[s] EXCEPT !.state = "revoked"] ELSE sessions[s]]

\* The Office API reads the session of a request ...
ApiReads(s) ==
    /\ api.step = "idle"
    /\ sessions[s].state # "unborn"
    /\ api' = [step |-> "check", session |-> s, row |-> sessions[s]]
    /\ UNCHANGED <<accounts, grants, sessions, request, cli, renewed, overtaken, begun>>

\* ... then the account, and writes the session row back as it was read: with a
\* new last_seen_at, or revoked when it is no longer good.
ApiChecks ==
    /\ api.step = "check"
    /\ LET row == accounts[api.row.account]
       IN  api' = IF Accepts(api.row, row) THEN [api EXCEPT !.step = "write"]
                  ELSE IF RevokesRefused(api.row, row)
                  THEN [api EXCEPT !.step = "write", !.row.state = "revoked"]
                  ELSE [step |-> "idle", session |-> None, row |-> NoSession]
    /\ UNCHANGED <<accounts, grants, sessions, request, cli, renewed, overtaken, begun>>

ApiWrites ==
    /\ api.step = "write"
    /\ sessions' = [sessions EXCEPT ![api.session].state = api.row.state]
    /\ api' = [step |-> "idle", session |-> None, row |-> NoSession]
    /\ UNCHANGED <<accounts, grants, request, cli, renewed, overtaken, begun>>

-----------------------------------------------------------------------------
(* Login, logout and the own password. *)

\* authenticate: the account is read and the password hash compared ...
LoginReads(w, a) ==
    /\ request[w].step = "idle"
    /\ accounts[a].state = "active"
    /\ Turns(w, [Idle EXCEPT !.step = "login", !.target = a, !.row = accounts[a],
                             !.generation = renewed[a]])
    /\ Begins
    /\ UNCHANGED <<accounts, grants, sessions, api, cli, renewed, overtaken>>

\* ... the row is written back with a new last_login_at ...
LoginWrites(w) ==
    LET r == request[w]
    IN  /\ r.step = "login"
        /\ WriteRow(r.target, r.row, r.row)
        /\ Turns(w, [r EXCEPT !.step = "session"])
        /\ UNCHANGED <<grants, sessions, api, cli, renewed, begun>>

\* ... and the session is inserted.
OpenSession(w, s) ==
    LET r == request[w]
    IN  /\ r.step = "session"
        /\ sessions[s].state = "unborn"
        /\ sessions' = [sessions EXCEPT ![s] =
                          [state |-> "open", account |-> r.target,
                           version |-> r.row.version, generation |-> r.generation]]
        /\ Turns(w, Idle)
        /\ UNCHANGED <<accounts, grants, api, cli, renewed, overtaken, begun>>

Logout(w, s) ==
    /\ request[w].step = "idle"
    /\ Authenticates(s)
    /\ sessions' = [sessions EXCEPT ![s].state = "revoked"]
    /\ Begins
    /\ UNCHANGED <<accounts, grants, request, api, cli, renewed, overtaken>>

\* A row with a new password.
WithPassword(row) == [row EXCEPT !.version = @ + 1]

\* change_password: the actor is authenticated and the current password compared with
\* the row that was read ...
PasswordReads(w, s) ==
    LET a == sessions[s].account
    IN  /\ request[w].step = "idle"
        /\ Authenticates(s)
        /\ accounts[a].version < MaxVersion
        /\ Turns(w, [Idle EXCEPT !.step = "password", !.target = a, !.row = accounts[a]])
        /\ Begins
        /\ UNCHANGED <<accounts, grants, sessions, api, cli, renewed, overtaken>>

\* ... the account is written ...
PasswordWrites(w) ==
    LET r == request[w]
    IN  /\ r.step = "password"
        /\ WriteRow(r.target, r.row, WithPassword(r.row))
        /\ renewed' = [renewed EXCEPT ![r.target] = @ + 1]
        /\ Turns(w, [r EXCEPT !.step = "revoke"])
        /\ UNCHANGED <<grants, sessions, api, cli, begun>>

\* ... and its sessions are revoked, in a second transaction.
RevokeOwn(w) ==
    /\ request[w].step = "revoke"
    /\ sessions' = RevokeAll(request[w].target)
    /\ Turns(w, Idle)
    /\ UNCHANGED <<accounts, grants, api, cli, renewed, overtaken, begun>>

-----------------------------------------------------------------------------
(* Account management. *)

\* The actor is authenticated and may manage accounts.
Manages(w, s) ==
    LET a == sessions[s].account
    IN  /\ request[w].step = "idle"
        /\ Authenticates(s)
        /\ "users" \in Effective(accounts[a], grants[a])

\* What the actor of session s is known by for the rest of the request.
ActingAs(s) ==
    LET a == sessions[s].account
    IN  [Idle EXCEPT !.step = "account", !.actor = a, !.role = accounts[a].role,
                     !.held = Effective(accounts[a], grants[a])]

\* An account is about to be created.
CreateReads(w, s) ==
    /\ Manages(w, s)
    /\ Turns(w, ActingAs(s))
    /\ Begins
    /\ UNCHANGED <<accounts, grants, sessions, api, cli, renewed, overtaken>>

\* The row and the grants of the target are read, _assert_can_mutate_account passes.
ManageReads(w, s, t) ==
    /\ Manages(w, s)
    /\ Exists(t)
    /\ accounts[t].role \in Manageable(accounts[sessions[s].account].role)
    /\ Turns(w, [ActingAs(s) EXCEPT !.target = t, !.row = accounts[t], !.granted = grants[t]])
    /\ Begins
    /\ UNCHANGED <<accounts, grants, sessions, api, cli, renewed, overtaken>>

\* Faulty variant: any manager may grant what the role of the target allows.
MayGrantCeiling(w, role, explicit) == explicit \subseteq Ceiling(role)

\* An administrator grants only what it holds itself.
MayGrant(w, role, explicit) ==
    /\ explicit \subseteq Ceiling(role)
    /\ request[w].role = "ADMIN" => explicit \subseteq request[w].held

Superadmins == {a \in Accounts : accounts[a].role = "SUPERADMIN"
                                 /\ accounts[a].state = "active"}

\* Faulty variant: the actor, a SUPERADMIN itself, is counted on to remain.
NotOneself(w) ==
    request[w].row.role = "SUPERADMIN" /\ request[w].row.state = "active" =>
        request[w].target # request[w].actor

\* _assert_not_last_active_superadmin: the row as it was read, the count of the
\* moment, inside the write transaction.
NotLastSuperadmin(w) ==
    request[w].row.role = "SUPERADMIN" /\ request[w].row.state = "active" =>
        Cardinality(Superadmins) > 1

\* The transaction of an account command, and the end of its request.
Commits(w) ==
    /\ request[w].step = "account"
    /\ Turns(w, Idle)
    /\ UNCHANGED begun

Changes(w) == Commits(w) /\ request[w].target # None

\* An account command writes the row of its target.
Writes(w, row) == WriteRow(request[w].target, request[w].row, row)

CreateAccount(w, t, role, explicit) ==
    /\ Commits(w)
    /\ request[w].target = None
    /\ ~ Exists(t)
    /\ role \in Manageable(request[w].role)
    /\ MayGrant(w, role, explicit)
    /\ accounts' = [accounts EXCEPT ![t] =
                      [state |-> "active", role |-> role, version |-> 1]]
    /\ grants' = [grants EXCEPT ![t] = explicit]
    /\ UNCHANGED <<sessions, api, cli, renewed, overtaken>>

\* update_account_profile: names and mail address only, in the row as it was read.
UpdateProfile(w) ==
    /\ Changes(w)
    /\ Writes(w, request[w].row)
    /\ UNCHANGED <<grants, sessions, api, cli, renewed>>

\* The password of the target is set or the target closed: its sessions end.
Renews(w) ==
    /\ request[w].row.version < MaxVersion
    /\ sessions' = RevokeAll(request[w].target)
    /\ renewed' = [renewed EXCEPT ![request[w].target] = @ + 1]
    /\ UNCHANGED <<grants, api, cli>>

ResetPassword(w) ==
    /\ Changes(w)
    /\ Writes(w, WithPassword(request[w].row))
    /\ Renews(w)

SetPermissions(w, explicit) ==
    LET r == request[w]
    IN  /\ Changes(w)
        /\ MayGrant(w, r.row.role, explicit)
        /\ grants' = [grants EXCEPT ![r.target] = explicit]
        /\ overtaken' = Overtaken(r.target, accounts[r.target] = r.row)
        /\ UNCHANGED <<accounts, sessions, api, cli, renewed>>

\* The grants that the new role forbids are dropped from those that were read.
ChangeRole(w, role) ==
    LET r == request[w]
        t == r.target
    IN  /\ Changes(w)
        /\ role \in Manageable(r.role)
        /\ role # "SUPERADMIN" => NotLastSuperadmin(w)
        /\ accounts' = [accounts EXCEPT ![t] = [r.row EXCEPT !.role = role]]
        /\ grants' = [grants EXCEPT ![t] = r.granted \cap Ceiling(role)]
        /\ overtaken' = Overtaken(t, accounts[t] = r.row /\ grants[t] = r.granted)
        /\ UNCHANGED <<sessions, api, cli, renewed>>

\* Faulty variant: the sessions are revoked, the version stays.
DeactivateKeepingVersion(w) ==
    /\ Changes(w)
    /\ NotLastSuperadmin(w)
    /\ Writes(w, [request[w].row EXCEPT !.state = "inactive"])
    /\ Renews(w)

Deactivate(w) ==
    /\ Changes(w)
    /\ NotLastSuperadmin(w)
    /\ Writes(w, [request[w].row EXCEPT !.state = "inactive", !.version = @ + 1])
    /\ Renews(w)

Reactivate(w) ==
    /\ Changes(w)
    /\ Writes(w, [request[w].row EXCEPT !.state = "active"])
    /\ UNCHANGED <<grants, sessions, api, cli, renewed>>

\* The request is refused after its reads, or the server stops: a transaction that
\* has not committed leaves nothing.
GivesUp(w) ==
    /\ request[w].step # "idle"
    /\ Turns(w, Idle)
    /\ UNCHANGED <<accounts, grants, sessions, api, cli, renewed, overtaken, begun>>

-----------------------------------------------------------------------------
(* The operator's command line. *)

NoCommand == [step |-> "idle", target |-> None, row |-> NoAccount]

\* bootstrap_superadmin: the account and its permissions in commits of their own.
Bootstrap(a) ==
    /\ cli.step = "idle"
    /\ \A b \in Accounts : ~ Exists(b)
    /\ accounts' = [accounts EXCEPT ![a] = [state |-> "active", role |-> "SUPERADMIN",
                                            version |-> 1]]
    /\ cli' = [step |-> "grant", target |-> a, row |-> accounts'[a]]
    /\ UNCHANGED <<grants, sessions, request, api, renewed, overtaken, begun>>

BootstrapGrants(p) ==
    /\ cli.step = "grant"
    /\ p \notin grants[cli.target]
    /\ grants' = [grants EXCEPT ![cli.target] = @ \cup {p}]
    /\ overtaken' = Overtaken(cli.target, accounts[cli.target] = cli.row)
    /\ UNCHANGED <<accounts, sessions, request, api, cli, renewed, begun>>

\* reset_password: the row is read and the password hashed ...
RecoveryReads(a) ==
    /\ cli.step = "idle"
    /\ Exists(a) /\ accounts[a].version < MaxVersion
    /\ cli' = [step |-> "write", target |-> a, row |-> accounts[a]]
    /\ Begins
    /\ UNCHANGED <<accounts, grants, sessions, request, api, renewed, overtaken>>

\* ... the row is written ...
RecoveryWrites ==
    /\ cli.step = "write"
    /\ WriteRow(cli.target, cli.row, WithPassword(cli.row))
    /\ renewed' = [renewed EXCEPT ![cli.target] = @ + 1]
    /\ cli' = [cli EXCEPT !.step = "revoke"]
    /\ UNCHANGED <<grants, sessions, request, api, begun>>

\* ... and the sessions are revoked.
RecoveryRevokes ==
    /\ cli.step = "revoke"
    /\ sessions' = RevokeAll(cli.target)
    /\ cli' = NoCommand
    /\ UNCHANGED <<accounts, grants, request, api, renewed, overtaken, begun>>

\* The command is done, or it stops on the way.
CliEnds ==
    /\ cli.step # "idle"
    /\ cli' = NoCommand
    /\ UNCHANGED <<accounts, grants, sessions, request, api, renewed, overtaken, begun>>

-----------------------------------------------------------------------------
AuthInit ==
    /\ accounts = [a \in Accounts |-> NoAccount]
    /\ grants = [a \in Accounts |-> {}]
    /\ sessions = [s \in Sessions |-> NoSession]
    /\ request = [w \in Servers |-> Idle]
    /\ api = [step |-> "idle", session |-> None, row |-> NoSession]
    /\ cli = NoCommand
    /\ renewed = [a \in Accounts |-> 0]
    /\ overtaken = {}
    /\ begun = 0

SessionStep(w) ==
    \/ \E a \in Accounts : LoginReads(w, a)
    \/ LoginWrites(w)
    \/ \E s \in Sessions : OpenSession(w, s) \/ Logout(w, s) \/ PasswordReads(w, s)
    \/ PasswordWrites(w) \/ RevokeOwn(w)
    \/ GivesUp(w)

ManageStep(w) ==
    \/ \E s \in Sessions : CreateReads(w, s)
    \/ \E s \in Sessions, t \in Accounts : ManageReads(w, s, t)
    \/ \E t \in Accounts, role \in Roles, explicit \in SUBSET Permissions :
           CreateAccount(w, t, role, explicit)
    \/ \E explicit \in SUBSET Permissions : SetPermissions(w, explicit)
    \/ \E role \in Roles : ChangeRole(w, role)
    \/ UpdateProfile(w) \/ ResetPassword(w) \/ Deactivate(w) \/ Reactivate(w)

CliStep ==
    \/ \E a \in Accounts : Bootstrap(a) \/ RecoveryReads(a)
    \/ \E p \in Permissions : BootstrapGrants(p)
    \/ RecoveryWrites \/ RecoveryRevokes \/ CliEnds

ApiStep ==
    \/ \E s \in Sessions : ApiReads(s)
    \/ ApiChecks \/ ApiWrites

AuthNext ==
    \/ \E w \in Servers : SessionStep(w) \/ ManageStep(w)
    \/ CliStep \/ ApiStep

AuthSpec == AuthInit /\ [][AuthNext]_authVars

-----------------------------------------------------------------------------
(* Properties.  A row that a write has overtaken is exempt from them, and only it: *)
(* the code compares no version when it writes an account back.                    *)

\* Type invariant; the explicit permissions of an account never exceed what its
\* role allows, through creation, grants and changes of role.
AuthTypeOK ==
    /\ accounts \in [Accounts -> AccountRow]
    /\ sessions \in [Sessions -> SessionRow]
    /\ request \in [Servers -> Request]
    /\ overtaken \subseteq Accounts
    /\ \A a \in Accounts \ overtaken : grants[a] \subseteq Ceiling(accounts[a].role)

\* What the guard of a demotion or a closing says: one cannot remove or deactivate
\* the last active SUPERADMIN.
SuperadminNeverRunsOut ==
    (\E a \in Accounts : Exists(a)) => Superadmins # {}

\* From the bootstrap on there is an active SUPERADMIN, also when two of them demote
\* or close each other on two servers, each of them decided on a row read before:
\* the count is taken behind the write lock.
SuperadminRemains == overtaken = {} => SuperadminNeverRunsOut

\* A session whose password was checked before the account was closed or its password
\* set again never authenticates, not after a reactivation either: neither a server
\* that stops before it revokes the sessions, nor a login under way on another one, nor
\* an Office API that writes a session back as it was brings it to life.
OldSessionsStayDead ==
    \A s \in Sessions :
        Authenticates(s) /\ sessions[s].account \notin overtaken =>
            sessions[s].generation = renewed[sessions[s].account]

\* Server w finishes an account command on a whose actor may manage it, as it was and
\* as it is now, and holds what a gains.
HandedBy(w, a, gained) ==
    /\ request[w].step = "account" /\ request'[w] = Idle
    /\ request[w].target = IF Exists(a) THEN a ELSE None
    /\ Exists(a) => accounts[a].role \in Manageable(request[w].role)
    /\ accounts'[a].role \in Manageable(request[w].role)
    /\ request[w].role = "SUPERADMIN" \/ gained \subseteq request[w].held

\* What a gains in a step comes from a holder, from the bootstrap or to the first account.
GainsFromHolder(a) ==
    LET gained == Effective(accounts'[a], grants'[a]) \ Effective(accounts[a], grants[a])
        moved  == \/ accounts'[a].role # accounts[a].role
                  \/ accounts'[a].state = "active" /\ accounts[a].state # "active"
    IN  gained # {} \/ moved =>
          \/ \E w \in Servers : HandedBy(w, a, gained)
          \/ cli.step = "grant" /\ cli.target = a
          \/ \A b \in Accounts : ~ Exists(b)

\* Nobody gets a permission, another role or its account back but from somebody who may
\* manage both roles and who holds what it hands out: not by a login, a session, a
\* profile, a reset or the operator's recovery.  The first account alone comes from
\* nobody.
RightsComeFromHolders ==
    [][\A a \in Accounts \ overtaken' : GainsFromHolder(a)]_authVars

=============================================================================
