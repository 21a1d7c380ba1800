------------------------------- MODULE Accounts -------------------------------
(***************************************************************************)
(* Kumbuka's own accounts: first-run setup, sign-in with a local password, *)
(* the sessions of local sign-ins, the updates administrators make, and    *)
(* the authentication settings, which the database keeps and every server  *)
(* process holds a copy of.  A request runs on one server and makes        *)
(* several transactions, between which other requests run.                 *)
(*                                                                         *)
(* A password is not modelled, only the epoch of its account, which every  *)
(* event that ends the account's sessions advances.  The modes oidc and    *)
(* proxy are one, "external"; Identities models their logins.  Deployment  *)
(* overrides of the mode are left out.                                     *)
(***************************************************************************)
EXTENDS AccountRows, Naturals, FiniteSets

CONSTANTS Admin,       \* the account no-auth mode signs in
          Groups,
          Servers,
          MaxEpoch,    \* bound on the events that end an account's sessions
          MaxSaves,    \* bound on the saves of authentication settings
          MaxRequests  \* bound on the requests that begin

ASSUME AccountsAssumption ==
    /\ Admin \in Accounts /\ None \notin Accounts \cup Clients
    /\ MaxEpoch \in Nat \ {0} /\ {MaxSaves, MaxRequests} \subseteq Nat

Modes == {"none", "local", "external"}

VARIABLES
    user,       \* the rows of users
    credential, \* local_credentials: "none", "on" or "off"
    epoch,      \* how often the sessions of an account were ended
    sessions,   \* local_sessions, each with the epoch it was opened in
    members,    \* user_groups
    groups,     \* wiki_groups
    stored,     \* application_settings: the mode, and the groups mapped from the provider
    setup,      \* the accounts that first-run setup created
    required,   \* system.SetupState, by server
    snapshot,   \* the authentication settings each server has resident
    request,    \* the request each client has under way
    begun       \* how many requests have begun

vars == <<user, credential, epoch, sessions, members, groups, stored, setup, required,
          snapshot, request, begun>>
database == <<user, credential, epoch, sessions, members, groups, stored, setup>>

Settings == [mode : Modes, mapped : SUBSET Groups, saves : 0..MaxSaves]

NoRequest == [step |-> "idle", server |-> None, target |-> None, admin |-> FALSE,
              enabled |-> FALSE, cred |-> "keep", groups |-> {}, settings |-> None]

Steps == {"idle", "setup", "complete", "session", "replace", "update", "save", "apply", "swap"}

TypeOK ==
    /\ user \in [Accounts -> [exists : BOOLEAN, admin : BOOLEAN, enabled : BOOLEAN]]
    /\ credential \in [Accounts -> {"none", "on", "off"}]
    /\ epoch \in [Accounts -> 0..MaxEpoch]
    /\ sessions \subseteq [account : Accounts, epoch : 0..MaxEpoch]
    /\ groups \subseteq Groups
    /\ members \subseteq Accounts \X groups
    /\ stored \in Settings /\ stored.mapped \subseteq groups
    /\ setup \subseteq Accounts
    /\ required \in [Servers -> BOOLEAN]
    /\ snapshot \in [Servers -> Settings]
    /\ \A c \in Clients : request[c].step \in Steps
    /\ \A a \in Accounts : credential[a] # "none" => user[a].exists
    /\ begun \in 0..MaxRequests

-----------------------------------------------------------------------------
(* Who a request acts for *)

\* LocalUserBySession: the session row, the account and the credential must all hold.
LocalUserBySession(a) ==
    /\ \E k \in sessions : k.account = a
    /\ user[a].enabled
    /\ credential[a] = "on"

\* Browser authentication with the mode the server holds.
Authenticate(s, a) ==
    /\ ~required[s]
    /\ user[a].exists
    /\ CASE snapshot[s].mode = "none" -> a = Admin
         [] snapshot[s].mode = "local" -> LocalUserBySession(a)
         [] OTHER -> user[a].enabled

\* RequireRole before every handler of the administration.
RequireRole(s, a) == Authenticate(s, a) /\ user[a].admin

HasLocalAdministratorCredential ==
    \E a \in Accounts : user[a].admin /\ user[a].enabled /\ credential[a] = "on"

\* deleteLocalSessions: the sessions of account a end.
EndSessions(a) ==
    /\ epoch[a] < MaxEpoch
    /\ epoch' = [epoch EXCEPT ![a] = @ + 1]
    /\ sessions' = {k \in sessions : k.account # a}

Goto(c, step) == request' = [request EXCEPT ![c].step = step]
Begin(c, r) == request[c] = NoRequest /\ request' = [request EXCEPT ![c] = r]
Done(c) == [request EXCEPT ![c] = NoRequest]

-----------------------------------------------------------------------------
(* First-run setup *)

\* The form is served while this process believes that setup is required.
SubmitSetup(c, s, a) ==
    /\ required[s]
    /\ Begin(c, [NoRequest EXCEPT !.step = "setup", !.server = s, !.target = a])
    /\ UNCHANGED <<database, required, snapshot>>

\* Mutant of CreateInitialLocalAdministrator: only the process is asked whether
\* setup is required.
CreateUnlocked(c) ==
    LET a == request[c].target IN
    /\ request[c].step = "setup"
    /\ user' = [user EXCEPT ![a] = [exists |-> TRUE, admin |-> TRUE, enabled |-> TRUE]]
    /\ credential' = [credential EXCEPT ![a] = "on"]
    /\ stored' = [stored EXCEPT !.mode = "local"]
    /\ setup' = setup \cup {a}
    /\ Goto(c, "complete")
    /\ UNCHANGED <<epoch, sessions, members, groups, required, snapshot>>

\* The settings row is locked, so that one of several setups wins.
CreateInitialLocalAdministrator(c) ==
    LET a == request[c].target IN
    /\ request[c].step = "setup"
    /\ IF setup = {} /\ ~user[a].exists
       THEN /\ user' = [user EXCEPT ![a] = [exists |-> TRUE, admin |-> TRUE, enabled |-> TRUE]]
            /\ credential' = [credential EXCEPT ![a] = "on"]
            /\ stored' = [stored EXCEPT !.mode = "local"]
            /\ setup' = setup \cup {a}
            /\ Goto(c, "complete")
       ELSE request' = Done(c) /\ UNCHANGED <<user, credential, stored, setup>>
    /\ UNCHANGED <<epoch, sessions, members, groups, required, snapshot>>

\* completeSetup: this process only.
completeSetup(c) ==
    LET s == request[c].server IN
    /\ request[c].step = "complete"
    /\ required' = [required EXCEPT ![s] = FALSE]
    /\ snapshot' = [snapshot EXCEPT ![s].mode = "local", ![s].mapped = {}]
    /\ Goto(c, "session")
    /\ UNCHANGED database

-----------------------------------------------------------------------------
(* Local sign-in *)

\* The endpoint is there in local mode; the password is the account's, else
\* nothing happens.
SignIn(c, s, a) ==
    /\ ~required[s] /\ snapshot[s].mode = "local"
    /\ user[a].enabled /\ credential[a] = "on"
    /\ Begin(c, [NoRequest EXCEPT !.step = "session", !.target = a])
    /\ UNCHANGED <<database, required, snapshot>>

\* The user changes the own password, after the current one was compared.
ChangePassword(c, s, a) ==
    /\ Authenticate(s, a)
    /\ user[a].enabled /\ credential[a] = "on"
    /\ Begin(c, [NoRequest EXCEPT !.step = "replace", !.target = a])
    /\ UNCHANGED <<database, required, snapshot>>

\* Mutant of setLocalCredential: the sessions of the account are left open.
setCredentialOnly(a) ==
    /\ epoch[a] < MaxEpoch
    /\ epoch' = [epoch EXCEPT ![a] = @ + 1]
    /\ credential' = [credential EXCEPT ![a] = "on"]
    /\ UNCHANGED sessions

\* setLocalCredential: a new password enables or creates the credential and
\* deletes the sessions of the account.
setLocalCredential(a) ==
    /\ credential' = [credential EXCEPT ![a] = "on"]
    /\ EndSessions(a)

SetLocalCredential(c) ==
    /\ request[c].step = "replace"
    /\ setLocalCredential(request[c].target)
    /\ Goto(c, "session")
    /\ UNCHANGED <<user, members, groups, stored, setup, required, snapshot>>

\* createSession: a transaction of its own, which looks at no credential.
CreateLocalSession(c) ==
    LET a == request[c].target IN
    /\ request[c].step = "session"
    /\ sessions' = sessions \cup {[account |-> a, epoch |-> epoch[a]]}
    /\ request' = Done(c)
    /\ UNCHANGED <<user, credential, epoch, members, groups, stored, setup, required, snapshot>>

\* ClearSession, or the session expires.
DeleteLocalSession(k) ==
    /\ sessions' = sessions \ {k}
    /\ UNCHANGED <<user, credential, epoch, members, groups, stored, setup, required,
                   snapshot, request>>

-----------------------------------------------------------------------------
(* Administration of accounts *)

\* Nobody removes the own role or disables the own account.
validateAccountUpdate(actor, a, admin, enabled) ==
    actor = a => admin /\ enabled

\* A credential is switched on or off only while the stored mode is external; a
\* new password is taken in any mode.
prepareLocalCredentialUpdate(cred) == cred \in {"on", "off"} => stored.mode = "external"

UpdateAccount(c, s, actor, a, admin, enabled, cred, gs) ==
    /\ RequireRole(s, actor)
    /\ user[a].exists /\ gs \subseteq groups
    /\ validateAccountUpdate(actor, a, admin, enabled)
    /\ prepareLocalCredentialUpdate(cred)
    /\ Begin(c, [NoRequest EXCEPT !.step = "update", !.server = s, !.target = a,
                    !.admin = admin, !.enabled = enabled, !.cred = cred, !.groups = gs])
    /\ UNCHANGED <<database, required, snapshot>>

\* updateUserCredentialState changes a row there is.
updateUserCredentialState(a, cred) ==
    credential' = [credential EXCEPT ![a] = IF @ = "none" \/ cred = "keep" THEN @ ELSE cred]

\* replaceUserGroups: a group that is gone fails the transaction.
replaceUserGroups(a, gs) ==
    members' = {m \in members : m[1] # a} \cup ({a} \X gs)

UpdateUserAccount(c) ==
    LET r == request[c]
        a == r.target
    IN  /\ r.step = "update"
        /\ IF r.groups \subseteq groups
           THEN /\ user' = [user EXCEPT ![a].admin = r.admin, ![a].enabled = r.enabled]
                /\ replaceUserGroups(a, r.groups)
                /\ IF r.cred = "new" THEN setLocalCredential(a)
                   ELSE /\ updateUserCredentialState(a, r.cred)
                        /\ IF ~r.enabled \/ r.cred = "off" THEN EndSessions(a)
                           ELSE UNCHANGED <<epoch, sessions>>
           ELSE UNCHANGED <<user, credential, epoch, sessions, members>>
        /\ request' = Done(c)
        /\ UNCHANGED <<groups, stored, setup, required, snapshot>>

EndAccountSessions(a) ==
    /\ user[a].exists
    /\ EndSessions(a)
    /\ UNCHANGED <<user, credential, members, groups, stored, setup, required, snapshot,
                   request>>

\* A login through the provider creates the account.
Provision(s, a) ==
    /\ ~required[s] /\ snapshot[s].mode = "external" /\ ~user[a].exists
    /\ user' = [user EXCEPT ![a] = [exists |-> TRUE, admin |-> FALSE, enabled |-> TRUE]]
    /\ UNCHANGED <<credential, epoch, sessions, members, groups, stored, setup, required,
                   snapshot, request>>

\* Every request in no-auth mode upserts the one administrator.
EnsureAdministrator(s) ==
    /\ ~required[s] /\ snapshot[s].mode = "none"
    /\ user' = [user EXCEPT ![Admin] = [exists |-> TRUE, admin |-> TRUE, enabled |-> TRUE]]
    /\ UNCHANGED <<credential, epoch, sessions, members, groups, stored, setup, required,
                   snapshot, request>>

-----------------------------------------------------------------------------
(* Groups *)

CreateGroup(g) ==
    /\ g \notin groups
    /\ groups' = groups \cup {g}
    /\ UNCHANGED <<user, credential, epoch, sessions, members, stored, setup, required,
                   snapshot, request>>

\* Memberships and mappings follow the row they refer to.
DeleteGroup(g) ==
    /\ g \in groups
    /\ groups' = groups \ {g}
    /\ members' = {m \in members : m[2] # g}
    /\ stored' = [stored EXCEPT !.mapped = @ \ {g}]
    /\ UNCHANGED <<user, credential, epoch, sessions, setup, required, snapshot, request>>

AddGroupMember(g, a) ==
    /\ g \in groups /\ user[a].exists
    /\ members' = members \cup {<<a, g>>}
    /\ UNCHANGED <<user, credential, epoch, sessions, groups, stored, setup, required,
                   snapshot, request>>

RemoveGroupMember(g, a) ==
    /\ <<a, g>> \in members
    /\ members' = members \ {<<a, g>>}
    /\ UNCHANGED <<user, credential, epoch, sessions, groups, stored, setup, required,
                   snapshot, request>>

\* buildOIDCGroupMembershipPlan and its application: the mapped groups the
\* provider claims are added; with authoritative groups the others are removed.
buildOIDCGroupMembershipPlan(claimed, mapped) == [managed |-> mapped, desired |-> mapped \cap claimed]

SyncOIDCGroups(a, claimed, mapped, authoritative) ==
    LET plan == buildOIDCGroupMembershipPlan(claimed, mapped) IN
    /\ plan.desired \subseteq groups
    /\ members' = {m \in members : ~(authoritative /\ m[1] = a /\
                                     m[2] \in plan.managed \ plan.desired)}
                  \cup ({a} \X plan.desired)

-----------------------------------------------------------------------------
(* Authentication settings *)

\* Validate: local mode needs an administrator who can sign in.
SaveAdminAuthentication(c, s, actor, m, mapped) ==
    /\ RequireRole(s, actor)
    /\ mapped # {} => m = "external" /\ mapped \subseteq groups
    /\ m = "local" => HasLocalAdministratorCredential
    /\ stored.saves < MaxSaves
    /\ Begin(c, [NoRequest EXCEPT !.step = "save", !.server = s,
                    !.settings = [mode |-> m, mapped |-> mapped, saves |-> 0]])
    /\ UNCHANGED <<database, required, snapshot>>

SaveAuthenticationSettings(c) ==
    LET r == request[c] IN
    /\ r.step = "save"
    /\ stored.saves < MaxSaves
    /\ IF r.settings.mapped \subseteq groups
       THEN /\ stored' = [r.settings EXCEPT !.saves = stored.saves + 1]
            /\ request' = [request EXCEPT ![c].step = "apply", ![c].settings = stored']
       ELSE request' = Done(c) /\ UNCHANGED stored
    /\ UNCHANGED <<user, credential, epoch, sessions, members, groups, setup, required, snapshot>>

applySettings(c) ==
    LET r == request[c] IN
    /\ r.step = "apply"
    /\ snapshot' = [snapshot EXCEPT ![r.server] = r.settings]
    /\ request' = Done(c)
    /\ UNCHANGED <<database, required>>

\* The callback of an OpenID Connect login loads the mapping anew; the provider
\* is asked in between.
refreshOIDCGroupMappings(c, s) ==
    /\ ~required[s] /\ snapshot[s].mode = "external"
    /\ Begin(c, [NoRequest EXCEPT !.step = "swap", !.server = s, !.settings = snapshot[s],
                    !.groups = stored.mapped])
    /\ UNCHANGED <<database, required, snapshot>>

\* Mutant of swapSnapshot: the copy is stored whatever stands there.
storeSnapshot(c) ==
    LET r == request[c] IN
    /\ snapshot' = [snapshot EXCEPT ![r.server] = [r.settings EXCEPT !.mapped = r.groups]]
    /\ UNCHANGED <<user, credential, epoch, sessions, groups, stored, setup, required>>

\* The copy is kept when it still stands in for the one it was made from, and
\* the groups of the account that logs in are synchronised with it.
swapSnapshot(c) ==
    LET r == request[c]
        loaded == [r.settings EXCEPT !.mapped = r.groups]
    IN  /\ snapshot' = IF snapshot[r.server] = r.settings
                       THEN [snapshot EXCEPT ![r.server] = loaded] ELSE snapshot
        /\ UNCHANGED <<user, credential, epoch, sessions, groups, stored, setup, required>>

callback(c) ==
    LET r == request[c] IN
    /\ r.step = "swap"
    /\ swapSnapshot(c)
    /\ \/ \E a \in Accounts, claimed \in SUBSET Groups :
            user[a].enabled /\ SyncOIDCGroups(a, claimed, r.groups, TRUE)
       \/ UNCHANGED members
    /\ request' = Done(c)

\* A server starts: setup state and settings are read once.
Restart(s) ==
    /\ \A c \in Clients : request[c].server # s
    /\ required' = [required EXCEPT ![s] = (setup = {})]
    /\ snapshot' = [snapshot EXCEPT ![s] = stored]
    /\ UNCHANGED <<database, request>>

-----------------------------------------------------------------------------
\* A fresh database, where no-auth mode is the default and setup is required; or
\* an installation in use, with the administrator of its setup and a second
\* account that has a local password.
Fresh ==
    /\ user = [a \in Accounts |-> [exists |-> FALSE, admin |-> FALSE, enabled |-> TRUE]]
    /\ credential = [a \in Accounts |-> "none"]
    /\ setup = {}
    /\ stored = [mode |-> "none", mapped |-> {}, saves |-> 0]

InUse ==
    /\ setup = {Admin}
    /\ credential = [a \in Accounts |-> "on"]
    /\ \E second \in BOOLEAN :
          user = [a \in Accounts |-> [exists |-> TRUE, admin |-> a = Admin \/ second,
                                     enabled |-> TRUE]]
    /\ \E m \in {"local", "external"} : stored = [mode |-> m, mapped |-> {}, saves |-> 0]

Init ==
    /\ Fresh \/ InUse
    /\ epoch = [a \in Accounts |-> 0]
    /\ sessions = {} /\ members = {} /\ groups = Groups
    /\ required = [s \in Servers |-> setup = {}]
    /\ snapshot = [s \in Servers |-> stored]
    /\ request = [c \in Clients |-> NoRequest]
    /\ begun = 0

\* Requests that begin, and operations of one step.
BeginSignIn(c, s, a) == SignIn(c, s, a) \/ ChangePassword(c, s, a) \/ SubmitSetup(c, s, a)

\* Forms that leave the account as an administrator or a member, disable it,
\* switch its credential, or reset its password.
Forms == {<<TRUE, TRUE, "keep">>, <<FALSE, TRUE, "keep">>, <<FALSE, FALSE, "keep">>,
          <<TRUE, TRUE, "on">>, <<TRUE, TRUE, "off">>, <<TRUE, TRUE, "new">>}

BeginUpdate(c, s, actor) ==
    \E a \in Accounts, f \in Forms, gs \in SUBSET Groups :
        UpdateAccount(c, s, actor, a, f[1], f[2], f[3], gs)

BeginSave(c, s, actor) ==
    \E m \in Modes, mapped \in SUBSET Groups : SaveAdminAuthentication(c, s, actor, m, mapped)

GroupRequest ==
    \/ \E g \in Groups : CreateGroup(g) \/ DeleteGroup(g)
    \/ \E g \in Groups, a \in Accounts : AddGroupMember(g, a) \/ RemoveGroupMember(g, a)

BeginRequest ==
    \/ \E c \in Clients, s \in Servers, a \in Accounts :
          BeginSignIn(c, s, a) \/ BeginUpdate(c, s, a) \/ BeginSave(c, s, a)
    \/ \E c \in Clients, s \in Servers : refreshOIDCGroupMappings(c, s)
    \/ GroupRequest
    \/ \E a \in Accounts : EndAccountSessions(a)
    \/ \E k \in sessions : DeleteLocalSession(k)
    \/ \E s \in Servers : EnsureAdministrator(s) \/ Restart(s)
    \/ \E s \in Servers, a \in Accounts : Provision(s, a)

ContinueRequest(c) ==
    \/ CreateInitialLocalAdministrator(c) \/ completeSetup(c)
    \/ SetLocalCredential(c) \/ CreateLocalSession(c)
    \/ UpdateUserAccount(c)
    \/ SaveAuthenticationSettings(c) \/ applySettings(c) \/ callback(c)

Next ==
    \/ begun < MaxRequests /\ BeginRequest /\ begun' = begun + 1
    \/ (\E c \in Clients : ContinueRequest(c)) /\ UNCHANGED begun

Spec == Init /\ [][Next]_vars

-----------------------------------------------------------------------------
\* However many servers offer the form, one setup creates an administrator.
SetupOnce == Cardinality(setup) <= 1

\* Every session there is was opened after the last event that ends the sessions
\* of its account: a new password, whether the user or an administrator sets it,
\* the credential switched off, the account disabled, or an administrator who
\* ends them.  A sign-in that compared the password before such an event may
\* still open its session after it.
SessionsAreCurrent == \A k \in sessions : k.epoch = epoch[k.account]

\* What a server serves with is never replaced by an earlier save of its own:
\* a callback that took its copy before does not put it back.
SavedIsNotUndone ==
    [][\A s \in Servers :
          (\E c \in Clients : request[c].step = "swap" /\ request[c].server = s
                              /\ request'[c].step = "idle")
          => snapshot'[s].mode = snapshot[s].mode /\ snapshot'[s].saves = snapshot[s].saves]_vars

=============================================================================
