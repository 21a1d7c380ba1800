------------------------------ MODULE Identities ------------------------------
(***************************************************************************)
(* External identities: how a verified subject of the OpenID Connect       *)
(* provider, or a username asserted by a trusted proxy, comes to belong to *)
(* a Kumbuka account.  Logins, the decisions of administrators and account *)
(* updates run as transactions of their own, which read committed rows and *)
(* lock only the account or the request row they found.                    *)
(*                                                                         *)
(* One issuer is modelled, so that UNIQUE(user_id,issuer) is one subject   *)
(* for an account.  Email and display name follow the username and are     *)
(* left out.  A row lock is held by the login whose step says so, every    *)
(* other transaction is one step that waits for the rows it needs.         *)
(***************************************************************************)
EXTENDS AccountRows, Naturals, FiniteSets

CONSTANTS Subjects,      \* subjects the provider verifies
          Names,         \* usernames
          ProviderName,  \* the username the provider sends for a subject
          Legacy,        \* the account from before the proxy identities' migration
          MaxVersion,    \* bound on session_version
          MaxCookies,    \* bound on the browser sessions that are followed
          MaxDecisions   \* bound on the requests of administrators

ASSUME IdentitiesAssumption ==
    /\ ProviderName \in [Subjects -> Names] /\ Legacy \in Accounts
    /\ None \notin Accounts \cup Names \cup Subjects \cup Clients
    /\ MaxVersion \in Nat \ {0} /\ {MaxCookies, MaxDecisions} \subseteq Nat

VARIABLES
    users,         \* the rows of users, name None where there is no row
    binding,       \* oidc_identities, by subject
    pending,       \* pending_oidc_identities, by subject
    proxy,         \* trusted_proxy_identities, by account
    retired,       \* retired_trusted_proxy_identities
    registration,  \* application_settings.registration_enabled
    client,        \* the request each client has under way
    cookies,       \* browser sessions, signed and held by the browser alone
    decisions,     \* requests of administrators so far
    mode           \* the authentication mode, which is not changed meanwhile

loginVars == <<users, binding, pending, proxy, retired, registration, client, cookies, decisions,
          mode>>

NoUser == [name |-> None, overridden |-> FALSE, enabled |-> TRUE,
           version |-> 1, source |-> "local"]

Idle == [step |-> "idle", subject |-> None, name |-> None, user |-> None,
         status |-> "none", open |-> FALSE, version |-> 0, stale |-> FALSE]

OIDCSteps == {"policy", "find", "lock", "refresh", "pending", "recheck", "record",
              "create", "callback"}
ProxySteps == {"proxy", "adopt", "legacy", "bind", "again", "registration", "check", "insert",
               "relink"}

LoginTypeOK ==
    /\ users \in [Accounts -> [name : Names \cup {None}, overridden : BOOLEAN,
                               enabled : BOOLEAN, version : 1..MaxVersion,
                               source : {"local", "oidc", "proxy"}]]
    /\ binding \in [Subjects -> Accounts \cup {None}]
    /\ pending \in [Subjects -> {"none", "pending", "rejected"}]
    /\ proxy \in [Accounts -> Names \cup {None}]
    /\ retired \subseteq Names
    /\ registration \in BOOLEAN
    /\ client \in [Clients ->
          [step : OIDCSteps \cup ProxySteps \cup {"idle"},
           subject : Subjects \cup {None}, name : Names \cup {None},
           user : Accounts \cup {None}, status : {"none", "pending", "rejected"},
           open : BOOLEAN, version : 0..MaxVersion, stale : BOOLEAN]]
    /\ decisions \in 0..MaxDecisions
    /\ mode \in {"oidc", "proxy"}
    /\ cookies \subseteq [subject : Subjects, account : Accounts,
                          version : 1..MaxVersion, cut : BOOLEAN]
    /\ \A s, t \in Subjects : s # t /\ binding[s] # None => binding[s] # binding[t]
    /\ \A a, b \in Accounts : a # b /\ users[a].name # None => users[a].name # users[b].name
    /\ \A a, b \in Accounts : a # b /\ proxy[a] # None => proxy[a] # proxy[b]

-----------------------------------------------------------------------------
(* Rows and their locks *)

Row(a) == users[a].name # None

\* usernameAvailable: the check of every transaction that names an account.
\* The unique index on the username gives the same answer at the insert.
usernameAvailable(n, except) == \A a \in Accounts \ {except} : users[a].name # n

\* oidcUserForUpdate holds the account from here to the commit.
UserLocked(a) == \E c \in Clients : client[c].step = "refresh" /\ client[c].user = a

\* pendingOIDCStatusForUpdate holds the request row, when there was one.
RowLocked(s, c) ==
    \E d \in Clients \ {c} : client[d].subject = s /\ client[d].status # "none"

\* The identifier an INSERT INTO users returns.
NewAccount == CHOOSE a \in Accounts : ~Row(a)
CanInsert == \E a \in Accounts : ~Row(a)

\* Logins of these subjects that have read the request row when a rejection is
\* written to it.
Bar(subjects) ==
    [c \in Clients |->
        IF client[c].subject \in subjects /\ client[c].step \in {"recheck", "record", "create"}
        THEN [client[c] EXCEPT !.stale = TRUE] ELSE client[c]]

\* The same for requests with the name n when relinking takes it from account a,
\* and for the other relinks of the account.
Retire(n, a, but) ==
    [c \in Clients |->
        IF c = but THEN Idle
        ELSE IF client[c].name = n \/ (client[c].step = "relink" /\ client[c].user = a)
        THEN [client[c] EXCEPT !.stale = TRUE] ELSE client[c]]

\* A browser session that the account's owner or an administrator ended.
CutOff(a) == {[k EXCEPT !.cut = @ \/ k.account = a] : k \in cookies}

Proceed(c, step) == client' = [client EXCEPT ![c].step = step]
Finished(c) == client' = [client EXCEPT ![c] = Idle]

-----------------------------------------------------------------------------
(* Login with OpenID Connect *)

\* The callback has verified the identity token for subject s.
BeginOIDCLogin(c, s) ==
    /\ mode = "oidc"
    /\ client[c] = Idle
    /\ client' = [client EXCEPT ![c] = [Idle EXCEPT !.step = "policy", !.subject = s]]
    /\ UNCHANGED <<users, binding, pending, proxy, retired, registration, cookies>>

\* The service reads the registration policy before the transaction begins.
ReadRegistration(c) ==
    /\ client[c].step = "policy"
    /\ client' = [client EXCEPT ![c].step = "find", ![c].open = registration]
    /\ UNCHANGED <<users, binding, pending, proxy, retired, registration, cookies>>

\* The bound account, or the request row, or neither.  The second look at the
\* binding follows the wait for the request row.
FindBinding(c) ==
    LET s == client[c].subject IN
    /\ client[c].step \in {"find", "recheck"}
    /\ IF binding[s] # None
       THEN client' = [client EXCEPT ![c].step = "lock", ![c].user = binding[s]]
       ELSE Proceed(c, CASE client[c].step = "find" -> "pending"
                      [] client[c].step = "recheck" /\ (client[c].status = "rejected"
                                                        \/ ~client[c].open) -> "record"
                      [] OTHER -> "create")
    /\ UNCHANGED <<users, binding, pending, proxy, retired, registration, cookies>>

oidcUserForUpdate(c) ==
    /\ client[c].step = "lock"
    /\ ~UserLocked(client[c].user)
    /\ Proceed(c, "refresh")
    /\ UNCHANGED <<users, binding, pending, proxy, retired, registration, cookies>>

pendingOIDCStatusForUpdate(c) ==
    LET s == client[c].subject IN
    /\ client[c].step = "pending"
    /\ pending[s] = "none" \/ ~RowLocked(s, c)
    /\ client' = [client EXCEPT ![c].step = "recheck", ![c].status = pending[s]]
    /\ UNCHANGED <<users, binding, pending, proxy, retired, registration, cookies>>

\* completeOIDCLogin: no request row is left behind.  A version of 0 stands for
\* an account that is disabled.
completeOIDCLogin(c, s, a, version) ==
    /\ pending' = [pending EXCEPT ![s] = "none"]
    /\ client' = [client EXCEPT ![c].step = "callback", ![c].status = "none",
                                ![c].user = a, ![c].version = version]

\* Mutant of refreshOIDCLogin: the number of identity rows updated is not looked at.
refreshGone(c) ==
    LET s == client[c].subject
        a == client[c].user
    IN  /\ client[c].step = "refresh"
        /\ ~RowLocked(s, c)
        /\ users' = [users EXCEPT ![a].source = "oidc"]
        /\ completeOIDCLogin(c, s, a, IF users[a].enabled THEN users[a].version ELSE 0)
        /\ UNCHANGED <<binding, proxy, retired, registration, cookies>>

\* refreshOIDCLogin: the provider's name unless an administrator replaced it.
\* The identity row may be gone, removed while the login waited for the account.
refreshOIDCLogin(c) ==
    LET s == client[c].subject
        a == client[c].user
    IN  /\ client[c].step = "refresh"
        /\ ~RowLocked(s, c)
        /\ IF (users[a].overridden \/ usernameAvailable(ProviderName[s], a)) /\ binding[s] = a
           THEN /\ users' = [users EXCEPT ![a].name = IF users[a].overridden THEN @
                                                      ELSE ProviderName[s],
                                          ![a].source = "oidc"]
                /\ completeOIDCLogin(c, s, a, IF users[a].enabled THEN users[a].version ELSE 0)
           ELSE Finished(c) /\ UNCHANGED <<users, pending>>
        /\ UNCHANGED <<binding, proxy, retired, registration, cookies>>

\* upsertPendingOIDCIdentity keeps the decision that stands on the row.
upsertPendingOIDCIdentity(s) ==
    pending' = [pending EXCEPT ![s] = IF @ = "none" THEN "pending" ELSE @]

recordPendingOIDCOutcome(c) ==
    /\ client[c].step = "record"
    /\ ~RowLocked(client[c].subject, c)
    /\ upsertPendingOIDCIdentity(client[c].subject)
    /\ Finished(c)
    /\ UNCHANGED <<users, binding, proxy, retired, registration, cookies>>

\* createOIDCUser: an account of the provider's name, bound to the subject.
createOIDCUser(s, n) ==
    /\ CanInsert
    /\ binding[s] = None
    /\ usernameAvailable(n, None)
    /\ users' = [users EXCEPT ![NewAccount] = [NoUser EXCEPT !.name = n, !.source = "oidc"]]
    /\ binding' = [binding EXCEPT ![s] = NewAccount]

\* The registration of an unknown subject; a taken name or a binding that was
\* inserted meanwhile fails it.
Register(c) ==
    LET s == client[c].subject IN
    /\ client[c].step = "create"
    /\ ~RowLocked(s, c)
    /\ \/ createOIDCUser(s, ProviderName[s]) /\ completeOIDCLogin(c, s, NewAccount, 1)
       \/ /\ binding[s] # None \/ ~usernameAvailable(ProviderName[s], None) \/ ~CanInsert
          /\ Finished(c)
          /\ UNCHANGED <<users, binding, pending>>
    /\ UNCHANGED <<proxy, retired, registration, cookies>>

\* Two logins of one subject can wait for each other's row; Postgres then ends one.
Waits(c, d) ==
    \/ client[c].step = "lock" /\ client[d].step = "refresh" /\ client[c].user = client[d].user
    \/ /\ client[c].step \in {"refresh", "create", "record"}
       /\ client[d].subject = client[c].subject
       /\ client[d].status # "none"

deadlockDetected(c) ==
    /\ \E d \in Clients \ {c} : Waits(c, d) /\ Waits(d, c)
    /\ Finished(c)
    /\ UNCHANGED <<users, binding, pending, proxy, retired, registration, cookies>>

\* callback: the session carries the version the transaction returned; a
\* disabled account gets none.
setSessionCookie(c) ==
    LET a == client[c].user IN
    /\ client[c].step = "callback"
    /\ cookies' = IF client[c].version # 0 /\ Cardinality(cookies) < MaxCookies
                  THEN cookies \cup {[subject |-> client[c].subject, account |-> a,
                                      version |-> client[c].version,
                                      cut |-> client[c].version # users[a].version]}
                  ELSE cookies
    /\ Finished(c)
    /\ UNCHANGED <<users, binding, pending, proxy, retired, registration>>

\* OIDCUser: the account the subject is bound to now, unless it is disabled.
OIDCUser(s) == {a \in Accounts : binding[s] = a /\ users[a].enabled}

\* OIDC.Authenticate: at the version the session was given.
Authenticates(k) == \E a \in OIDCUser(k.subject) : users[a].version = k.version

-----------------------------------------------------------------------------
(* Decisions of administrators *)

\* pendingOIDCIdentityForUpdate and the status it must have.
pendingOIDCIdentityForUpdate(s) == pending[s] = "pending" /\ ~RowLocked(s, None)

ensureOIDCIdentityUnbound(s) == binding[s] = None

oidcUserProfileForUpdate(a) == Row(a) /\ ~UserLocked(a)

ApprovePendingOIDCIdentity(s) ==
    /\ pendingOIDCIdentityForUpdate(s)
    /\ ensureOIDCIdentityUnbound(s)
    /\ createOIDCUser(s, ProviderName[s])
    /\ pending' = [pending EXCEPT ![s] = "none"]
    /\ UNCHANGED <<proxy, retired, registration, client, cookies>>

\* replaceOIDCIdentityBinding: the account's former subject is disconnected, the
\* new one bound, and what differs from the provider's profile is an override.
replaceOIDCIdentityBinding(s, a, former) ==
    /\ binding' = [t \in Subjects |-> IF t = s THEN a ELSE IF t \in former THEN None
                                      ELSE binding[t]]
    /\ users' = [users EXCEPT ![a].source = "oidc",
                              ![a].overridden = users[a].name # ProviderName[s]]

\* rejectOIDCIdentity: the request rows of the disconnected subjects.
rejectOIDCIdentity(rows, former) ==
    [t \in Subjects |-> IF t \in former THEN "rejected" ELSE rows[t]]

LinkPendingOIDCIdentity(s, a) ==
    LET former == {t \in Subjects \ {s} : binding[t] = a} IN
    /\ pendingOIDCIdentityForUpdate(s)
    /\ ensureOIDCIdentityUnbound(s)
    /\ oidcUserProfileForUpdate(a)
    /\ \A t \in former : ~RowLocked(t, None)
    /\ replaceOIDCIdentityBinding(s, a, former)
    /\ pending' = rejectOIDCIdentity([pending EXCEPT ![s] = "none"], former)
    /\ client' = Bar(former)
    /\ UNCHANGED <<proxy, retired, registration, cookies>>

SetPendingOIDCIdentityRejected(s, rejected) ==
    /\ pending[s] # "none" /\ ~RowLocked(s, None)
    /\ pending' = [pending EXCEPT ![s] = IF rejected THEN "rejected" ELSE "pending"]
    /\ client' = IF rejected THEN Bar({s}) ELSE client
    /\ UNCHANGED <<users, binding, proxy, retired, registration, cookies>>

RemoveOIDCIdentity(a, s) ==
    /\ oidcUserProfileForUpdate(a)
    /\ binding[s] = a
    /\ ~RowLocked(s, None)
    /\ binding' = [binding EXCEPT ![s] = None]
    /\ pending' = rejectOIDCIdentity(pending, {s})
    /\ client' = Bar({s})
    /\ UNCHANGED <<users, proxy, retired, registration, cookies>>

\* validateStoredProfileOwnership: the name of a proxy account changes by
\* relinking only.
validateStoredProfileOwnership(a) == users[a].source # "proxy"

\* UpdateUserAccount: an administrator's username overrides the provider's.
RenameUser(a, n) ==
    /\ Row(a) /\ ~UserLocked(a)
    /\ validateStoredProfileOwnership(a)
    /\ n # users[a].name /\ usernameAvailable(n, a)
    /\ users' = [users EXCEPT ![a].name = n, ![a].overridden = users[a].source = "oidc"]
    /\ UNCHANGED <<binding, pending, proxy, retired, registration, client, cookies>>

SetUserEnabled(a, enabled) ==
    /\ Row(a) /\ ~UserLocked(a)
    /\ enabled # users[a].enabled
    /\ enabled \/ users[a].version < MaxVersion
    /\ users' = [users EXCEPT ![a].enabled = enabled,
                              ![a].version = IF enabled THEN @ ELSE @ + 1]
    /\ cookies' = IF enabled THEN cookies ELSE CutOff(a)
    /\ UNCHANGED <<binding, pending, proxy, retired, registration, client>>

\* Mutant of RevokeUserSessions: only the local sessions are deleted.
RevokeLocalOnly(a) ==
    /\ Row(a) /\ ~UserLocked(a)
    /\ cookies' = CutOff(a)
    /\ UNCHANGED <<users, binding, pending, proxy, retired, registration, client>>

RevokeUserSessions(a) ==
    /\ Row(a) /\ ~UserLocked(a)
    /\ users[a].version < MaxVersion
    /\ users' = [users EXCEPT ![a].version = @ + 1]
    /\ cookies' = CutOff(a)
    /\ UNCHANGED <<binding, pending, proxy, retired, registration, client>>

SaveRegistration ==
    /\ registration' = ~registration
    /\ UNCHANGED <<users, binding, pending, proxy, retired, client, cookies>>

-----------------------------------------------------------------------------
(* Requests that a trusted proxy has authenticated *)

ProxyRequest(c, n) ==
    /\ mode = "proxy"
    /\ client[c] = Idle
    /\ client' = [client EXCEPT ![c] = [Idle EXCEPT !.step = "proxy", !.name = n]]
    /\ UNCHANGED <<users, binding, pending, proxy, retired, registration, cookies>>

\* The one statement of the steady state, and once more after an adoption.
refreshTrustedProxyUser(c) ==
    LET bound == {a \in Accounts : proxy[a] = client[c].name} IN
    /\ client[c].step \in {"proxy", "again"}
    /\ IF bound = {}
       THEN /\ Proceed(c, IF client[c].step = "proxy" THEN "adopt" ELSE "registration")
            /\ UNCHANGED users
       ELSE /\ Finished(c)
            /\ \A a \in bound : ~UserLocked(a)
            /\ users' = [a \in Accounts |-> IF a \in bound
                           THEN [users[a] EXCEPT !.source = "proxy"] ELSE users[a]]
    /\ UNCHANGED <<binding, pending, proxy, retired, registration, cookies>>

\* A request that has looked at the retired names and goes on: it is stale once
\* a relink takes its name.
NotRetired(c, step) == client' = [client EXCEPT ![c].step = step, ![c].stale = FALSE]

\* Accounts from before identities had rows of their own are adopted by their
\* name, but not when it is retired.
adoptLegacyTrustedProxyIdentity(c) ==
    /\ client[c].step = "adopt"
    /\ IF client[c].name \in retired THEN Finished(c) ELSE NotRetired(c, "legacy")
    /\ UNCHANGED <<users, binding, pending, proxy, retired, registration, cookies>>

\* The account that the statement finds, whose row it may have to wait for.
selectLegacyUser(c) ==
    LET legacy == {a \in Accounts : users[a].name = client[c].name /\ users[a].source = "local"
                                    /\ proxy[a] = None}
    IN  /\ client[c].step = "legacy"
        /\ \/ legacy = {} /\ Proceed(c, "registration")
           \/ \E a \in legacy : client' = [client EXCEPT ![c].step = "bind", ![c].user = a]
        /\ UNCHANGED <<users, binding, pending, proxy, retired, registration, cookies>>

\* A row that changed meanwhile is not adopted; an identity that was inserted
\* meanwhile fails the request.
adoptLegacyTrustedProxyUser(c) ==
    LET n == client[c].name
        a == client[c].user
        found == users[a].name = n /\ users[a].source = "local"
        free == proxy[a] = None /\ \A b \in Accounts : proxy[b] # n
    IN  /\ client[c].step = "bind"
        /\ ~UserLocked(a)
        /\ \/ ~found /\ Proceed(c, "registration") /\ UNCHANGED proxy
           \/ found /\ ~free /\ Finished(c) /\ UNCHANGED proxy
           \/ found /\ free /\ Proceed(c, "again") /\ proxy' = [proxy EXCEPT ![a] = n]
        /\ UNCHANGED <<users, binding, pending, retired, registration, cookies>>

\* TrustedProxy.Login: without an account the registration policy decides.
ProxyRegistration(c) ==
    /\ client[c].step = "registration"
    /\ IF registration THEN Proceed(c, "check") ELSE Finished(c)
    /\ UNCHANGED <<users, binding, pending, proxy, retired, registration, cookies>>

\* CreateTrustedProxyUser looks at the retired names, then inserts.
checkRetired(c) ==
    /\ client[c].step = "check"
    /\ IF client[c].name \in retired THEN Finished(c) ELSE NotRetired(c, "insert")
    /\ UNCHANGED <<users, binding, pending, proxy, retired, registration, cookies>>

CreateTrustedProxyUser(c) ==
    LET n == client[c].name IN
    /\ client[c].step = "insert"
    /\ IF CanInsert /\ usernameAvailable(n, None) /\ \A a \in Accounts : proxy[a] # n
       THEN /\ users' = [users EXCEPT ![NewAccount] = [NoUser EXCEPT !.name = n, !.source = "proxy"]]
            /\ proxy' = [proxy EXCEPT ![NewAccount] = n]
       ELSE UNCHANGED <<users, proxy>>
    /\ Finished(c)
    /\ UNCHANGED <<binding, pending, retired, registration, cookies>>

\* An administrator relinks an account.  The statement that waits for the
\* account's row keeps the identity's name it saw before.
BeginRelink(c, a) ==
    /\ client[c] = Idle
    /\ users[a].source = "proxy" /\ proxy[a] # None
    /\ client' = [client EXCEPT ![c] = [Idle EXCEPT !.step = "relink", !.name = proxy[a],
                                                    !.user = a]]
    /\ UNCHANGED <<users, binding, pending, proxy, retired, registration, cookies>>

\* Mutant of RelinkTrustedProxyIdentity: the former name is not retired.
RelinkUnretired(c, n) ==
    LET a == client[c].user IN
    /\ client[c].step = "relink" /\ ~UserLocked(a)
    /\ usernameAvailable(n, a) /\ \A b \in Accounts \ {a} : proxy[b] # n
    /\ retired' = retired \ {n}
    /\ proxy' = [proxy EXCEPT ![a] = n]
    /\ users' = [users EXCEPT ![a].name = n, ![a].overridden = FALSE]
    /\ client' = Retire(client[c].name, a, c)
    /\ UNCHANGED <<binding, pending, registration, cookies>>

RelinkTrustedProxyIdentity(c, n) ==
    LET a == client[c].user
        former == client[c].name
    IN  /\ client[c].step = "relink"
        /\ ~UserLocked(a)
        /\ IF /\ users[a].source = "proxy"
              /\ usernameAvailable(n, a)
              /\ \A b \in Accounts \ {a} : proxy[b] # n
           THEN /\ retired' = (retired \ {n}) \cup ({former} \ {n})
                /\ proxy' = [proxy EXCEPT ![a] = n]
                /\ users' = [users EXCEPT ![a].name = n, ![a].overridden = FALSE]
                /\ client' = Retire(former, a, c)
           ELSE Finished(c) /\ UNCHANGED <<users, proxy, retired>>
        /\ UNCHANGED <<binding, pending, registration, cookies>>

-----------------------------------------------------------------------------
\* One account from before the migration, with any username; nothing is bound.
LoginInit ==
    /\ \E n \in Names : users = [a \in Accounts |->
                                  IF a = Legacy THEN [NoUser EXCEPT !.name = n] ELSE NoUser]
    /\ binding = [s \in Subjects |-> None]
    /\ pending = [s \in Subjects |-> "none"]
    /\ proxy = [a \in Accounts |-> None]
    /\ retired = {}
    /\ registration = TRUE
    /\ client = [c \in Clients |-> Idle]
    /\ cookies = {}
    /\ decisions = 0
    /\ mode \in {"oidc", "proxy"}

OIDCStep(c) ==
    \/ ReadRegistration(c) \/ FindBinding(c) \/ oidcUserForUpdate(c)
    \/ pendingOIDCStatusForUpdate(c) \/ refreshOIDCLogin(c) \/ recordPendingOIDCOutcome(c)
    \/ Register(c) \/ deadlockDetected(c) \/ setSessionCookie(c)

ProxyStep(c) ==
    \/ refreshTrustedProxyUser(c) \/ adoptLegacyTrustedProxyIdentity(c) \/ selectLegacyUser(c)
    \/ adoptLegacyTrustedProxyUser(c) \/ ProxyRegistration(c) \/ checkRetired(c)
    \/ CreateTrustedProxyUser(c)
    \/ \E n \in Names : RelinkTrustedProxyIdentity(c, n)

ApproveRequest == \E s \in Subjects : ApprovePendingOIDCIdentity(s)
LinkRequest == \E s \in Subjects, a \in Accounts : LinkPendingOIDCIdentity(s, a)
RejectRequest == \E s \in Subjects, r \in BOOLEAN : SetPendingOIDCIdentityRejected(s, r)
RemoveRequest == \E s \in Subjects, a \in Accounts : RemoveOIDCIdentity(a, s)
RevokeRequest == \E a \in Accounts : RevokeUserSessions(a)
RelinkRequest == \E c \in Clients, a \in Accounts : BeginRelink(c, a)
UpdateRequest ==
    \/ \E a \in Accounts, n \in Names : RenameUser(a, n)
    \/ \E a \in Accounts, e \in BOOLEAN : SetUserEnabled(a, e)

Decision ==
    \/ ApproveRequest \/ LinkRequest \/ RejectRequest \/ RemoveRequest
    \/ UpdateRequest \/ RevokeRequest \/ RelinkRequest \/ SaveRegistration

Login ==
    \/ \E c \in Clients : OIDCStep(c) \/ ProxyStep(c)
    \/ \E c \in Clients, s \in Subjects : BeginOIDCLogin(c, s)
    \/ \E c \in Clients, n \in Names : ProxyRequest(c, n)

LoginNext ==
    /\ \/ Login /\ UNCHANGED decisions
       \/ decisions < MaxDecisions /\ Decision /\ decisions' = decisions + 1
    /\ UNCHANGED mode

LoginSpec == LoginInit /\ [][LoginNext]_loginVars

-----------------------------------------------------------------------------
\* A disconnected subject that was rejected stays rejected until an administrator decides otherwise:
\* no login takes the row away, not the one that found its binding before an
\* administrator removed it (refreshOIDCLogin then updates no identity row).
\* The exception is a registration that had already looked for the row.
RejectionStands ==
    [][\A s \in Subjects :
          pending[s] = "rejected" /\ binding[s] = None /\ pending'[s] = "none" =>
              \E c \in Clients : /\ client[c].step = "create" /\ client[c].subject = s
                                 /\ client[c].stale]_loginVars

\* A username that relinking takes from an account is retired, and a retired
\* username gets no account but by relinking, whatever requests of the proxy
\* are under way.  The exceptions are a request that looked at the retired names
\* before the relink, and then adopts an account or inserts one, and a relink
\* that waited for another one of the account.
RetirementStands ==
    [][/\ \A a \in Accounts :
            proxy[a] # None /\ proxy'[a] # proxy[a] =>
                \/ proxy[a] \in retired'
                \/ \E c \in Clients : /\ client[c].step = "relink" /\ client[c].user = a
                                      /\ client[c].stale
       /\ \A n \in retired \cap retired' :
            (\E a \in Accounts : proxy'[a] = n) =>
                \/ \E a \in Accounts : proxy[a] = n
                \/ \E c \in Clients : client[c].step \in {"insert", "bind"} /\ client[c].stale]_loginVars

\* A session that was ended by a revocation or by disabling the account, a
\* login between its commit and its cookie included, never opens the account
\* again, even when the account is enabled again.
CutOffStays ==
    \A k \in cookies : k.cut /\ binding[k.subject] = k.account => ~Authenticates(k)

=============================================================================
