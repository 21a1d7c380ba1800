-------------------------- MODULE PluginCatalogProofs --------------------------
(***************************************************************************)
(* That every package that may run has permissions an administrator gave   *)
(* its plugin, and that no administrator is told twice of a release, for   *)
(* any packages, catalogs, administrators, servers and requests.           *)
(***************************************************************************)
EXTENDS PluginCatalog, TLAPS, FiniteSetTheorems

\* An item of work, before and after it has run.
Work == [package : Packages, installed : Packages, builtin : BOOLEAN,
         step : {"waiting", "download"}]
Switch == [id : Plugins, step : {"switch"}]
Result == [id : Plugins, step : {"done"}, ok : BOOLEAN]

Operations == {"install", "upgrade", "update", "enable", "disable", "uninstall"}
Challenges == [op : Operations, package : Packages]
Dependencies == [Plugins -> Packages \cup {None}]
Entry == [package : Packages, enabled : BOOLEAN]
Permissions == {p.permissions : p \in Packages}

Running == [step : {"work"}, op : Operations, approval : Challenges \cup {None},
            before : Dependencies, work : SUBSET (Work \cup Switch \cup Result)]
Request == Running \cup {NoRequest}

Look == [step : {"idle", "fetch", "compare", "administrators", "claim", "tell"},
         notices : SUBSET Notices, tell : SUBSET Admins]

UpdatesTyped ==
    /\ cached \in (SUBSET Packages) \cup {None}
    /\ refresh \in [Servers -> Look] /\ refreshes \in [Servers -> 0..MaxRefresh]
    /\ announced \subseteq Notices /\ told \in [Admins -> [Notices -> Nat]]

AdministrationTyped ==
    /\ inventory \in [Plugins -> Entry \cup {None}] /\ changes \in 0..MaxChanges
    /\ request \in [Requests -> Request] /\ reviewed \subseteq Challenges
    /\ consented \in [Plugins -> SUBSET Permissions] /\ rendered \in Dependencies

TypeOK == UpdatesTyped /\ AdministrationTyped

\* A release that has not been announced was told to nobody, and one that has
\* is being told by one server at most, to those who have not heard of it.
Claims ==
    /\ \A a \in Admins, n \in Notices :
          told[a][n] <= 1 /\ (n \notin announced => told[a][n] = 0)
    /\ \A s \in Servers : refresh[s].step = "tell" =>
          /\ refresh[s].notices \subseteq announced
          /\ \A t \in Servers \ {s} :
                refresh[t].step = "tell" => refresh[s].notices \cap refresh[t].notices = {}
          /\ \A n \in refresh[s].notices, a \in refresh[s].tell : told[a][n] = 0

\* What an upgrade or update compares a package with had its permissions with
\* consent, whatever the inventory has become since.  A release that is to be
\* downloaded from the catalog was found in one.
Compared ==
    \A r \in Requests : \A i \in request[r].work : i.step \in {"waiting", "download"} =>
        /\ request[r].op # "install" => i.installed.permissions \in consented[i.package.id]
        /\ request[r].op = "update" /\ i.step = "waiting" /\ ~i.builtin => cached # None

CInv == TypeOK /\ Claims /\ PermissionsWereApproved /\ Compared
-----------------------------------------------------------------------------
(* Looking for releases *)

LEMMA NewestAreReleases ==
    ASSUME NEW releases, NEW id, NEW v
    PROVE  newestCompatibleRelease(releases, id, v) \subseteq {p \in releases : p.id = id}
  BY DEF newestCompatibleRelease, eligible

LEMMA UpdatesArePackages ==
    ASSUME UpdatesTyped
    PROVE  /\ Updates(inventory) \subseteq Packages
           /\ \A p \in Updates(inventory) : Installed(inventory, p.id) /\ cached # None
<1> SUFFICES ASSUME NEW p \in Updates(inventory)
             PROVE  p \in Packages /\ Installed(inventory, p.id) /\ cached # None
  OBVIOUS
<1>1. cached # None
  BY DEF Updates
<1>2. PICK id \in Plugins : /\ Installed(inventory, id)
                            /\ p \in newestCompatibleRelease(cached, id, inventory[id].package.version)
  BY <1>1 DEF Updates
<1>3. p \in cached /\ p.id = id
  BY <1>2, NewestAreReleases
<1>4. cached \subseteq Packages
  BY <1>1 DEF UpdatesTyped
<1>5. Installed(inventory, p.id)
  BY <1>2, <1>3
<1> QED
  BY <1>1, <1>3, <1>4, <1>5

LEMMA ElsewhereArePackages == Elsewhere \subseteq Packages
<1>1. UNION Catalogs \subseteq Packages
  BY CatalogAssumption
<1> QED
  BY <1>1 DEF Elsewhere, eligible

LEMMA NoRefreshTyped == NoRefresh \in Look /\ NoRefresh.step # "tell"
  BY DEF NoRefresh, Look

\* The look of one server goes on; nothing is told.
LEMMA LookStep ==
    ASSUME CInv, NEW s \in Servers, NEW l \in Look, refresh' = [refresh EXCEPT ![s] = l],
           UNCHANGED <<announced, told, requestVars>>,
           cached' \in (SUBSET Packages) \cup {None}, cached # None => cached' # None,
           refreshes' \in [Servers -> 0..MaxRefresh],
           l.step # "tell"
    PROVE  CInv'
<1>1. refresh \in [Servers -> Look]
  BY DEF CInv, TypeOK, UpdatesTyped
<1>2. /\ refresh' \in [Servers -> Look] /\ refresh'[s] = l
      /\ \A t \in Servers : t # s => refresh'[t] = refresh[t]
  BY <1>1
<1>3. TypeOK'
  BY <1>2 DEF CInv, TypeOK, UpdatesTyped, AdministrationTyped, requestVars
<1>4. Claims'
  BY <1>2 DEF CInv, Claims
<1>5. PermissionsWereApproved' /\ Compared'
  BY DEF CInv, PermissionsWereApproved, Compared, requestVars, Installed
<1> QED
  BY <1>3, <1>4, <1>5 DEF CInv

LEMMA ClaimStep ==
    ASSUME CInv, NEW s \in Servers, ClaimPluginUpdateAnnouncements(s), UNCHANGED requestVars
    PROVE  CInv'
<1> DEFINE pending == refresh[s].notices \ announced
           l == [refresh[s] EXCEPT !.step = "tell", !.notices = pending]
<1>0. /\ refresh \in [Servers -> Look] /\ refresh[s] \in Look /\ announced \subseteq Notices
      /\ Claims /\ UpdatesTyped
  BY DEF CInv, TypeOK, UpdatesTyped
<1>1. announced' = announced \cup refresh[s].notices /\ UNCHANGED <<cached, refreshes, told>>
      /\ refresh[s].step = "claim"
  BY DEF ClaimPluginUpdateAnnouncements
<1>2. refresh[s].notices \subseteq Notices /\ refresh[s].tell \subseteq Admins
  BY <1>0 DEF Look
<1>3. announced' \subseteq Notices /\ announced \subseteq announced'
  BY <1>0, <1>1, <1>2
<1>4. PICK r \in Look : /\ refresh' = [refresh EXCEPT ![s] = r]
                        /\ r.step = "tell" => r.notices = pending /\ r.tell \subseteq Admins
  <2>1. CASE pending = {}
    BY <2>1, NoRefreshTyped DEF ClaimPluginUpdateAnnouncements
  <2>2. CASE pending # {}
    <3>1. l \in Look /\ l.notices = pending /\ l.tell \subseteq Admins
      BY <1>0, <1>2 DEF Look
    <3>2. refresh' = [refresh EXCEPT ![s] = l]
      BY <1>0, <2>2 DEF ClaimPluginUpdateAnnouncements
    <3> QED
      BY <3>1, <3>2
  <2> QED
    BY <2>1, <2>2
<1>5. /\ refresh' \in [Servers -> Look] /\ refresh'[s] = r
      /\ \A t \in Servers : t # s => refresh'[t] = refresh[t]
  BY <1>0, <1>4
<1>6. TypeOK'
  BY <1>0, <1>1, <1>3, <1>5 DEF CInv, TypeOK, UpdatesTyped, AdministrationTyped, requestVars
<1>7. Claims'
  <2>1. \A a \in Admins, n \in Notices :
          told'[a][n] <= 1 /\ (n \notin announced' => told'[a][n] = 0)
    BY <1>0, <1>1, <1>3 DEF Claims
  <2>2. ASSUME NEW t \in Servers, refresh'[t].step = "tell"
        PROVE  /\ refresh'[t].notices \subseteq announced'
               /\ \A n \in refresh'[t].notices, a \in refresh'[t].tell : told'[a][n] = 0
    <3>1. CASE t = s
      BY <1>0, <1>1, <1>2, <1>4, <1>5, <2>2, <3>1 DEF Claims
    <3>2. CASE t # s
      BY <1>0, <1>1, <1>3, <1>5, <2>2, <3>2 DEF Claims
    <3> QED
      BY <3>1, <3>2
  <2>3. ASSUME NEW t \in Servers, NEW u \in Servers, t # u,
               refresh'[t].step = "tell", refresh'[u].step = "tell"
        PROVE  refresh'[t].notices \cap refresh'[u].notices = {}
    <3>1. \A v \in Servers : refresh[v].step = "tell" => refresh[v].notices \subseteq announced
      BY <1>0 DEF Claims
    <3>2. CASE t = s
      BY <1>4, <1>5, <2>3, <3>1, <3>2
    <3>3. CASE u = s
      BY <1>4, <1>5, <2>3, <3>1, <3>3
    <3>4. CASE t # s /\ u # s
      BY <1>0, <1>5, <2>3, <3>4 DEF Claims
    <3> QED
      BY <3>2, <3>3, <3>4
  <2> QED
    BY <2>1, <2>2, <2>3 DEF Claims
<1>8. PermissionsWereApproved' /\ Compared'
  BY <1>1 DEF CInv, PermissionsWereApproved, Compared, requestVars, Installed
<1> QED
  BY <1>6, <1>7, <1>8 DEF CInv

LEMMA NotifyStep ==
    ASSUME CInv, NEW s \in Servers, NEW a \in Admins, NotifyPluginUpdates(s, a),
           UNCHANGED requestVars
    PROVE  CInv'
<1>0. /\ refresh \in [Servers -> Look] /\ refresh[s] \in Look /\ told \in [Admins -> [Notices -> Nat]]
      /\ Claims /\ UpdatesTyped
      /\ refresh[s].step = "tell" /\ a \in refresh[s].tell /\ UNCHANGED <<cached, refreshes, announced>>
  BY DEF CInv, TypeOK, UpdatesTyped, NotifyPluginUpdates
<1>1. CASE refresh' = [refresh EXCEPT ![s] = NoRefresh] /\ UNCHANGED told
  BY <1>0, <1>1, NoRefreshTyped, LookStep DEF UpdatesTyped
<1>2. CASE /\ told' = [told EXCEPT ![a] =
                [n \in Notices |-> IF n \in refresh[s].notices THEN @[n] + 1 ELSE @[n]]]
           /\ refresh' = [refresh EXCEPT ![s] =
                IF @.tell = {a} THEN NoRefresh
                ELSE [@ EXCEPT !.tell = refresh[s].tell \ {a}]]
  <2>1. PICK r \in Look : /\ refresh' = [refresh EXCEPT ![s] = r]
                          /\ r.step = "tell" => /\ r.notices = refresh[s].notices
                                                /\ r.tell = refresh[s].tell \ {a}
    <3>1. CASE refresh[s].tell = {a}
      BY <1>0, <1>2, <3>1, NoRefreshTyped
    <3>2. CASE refresh[s].tell # {a}
      <4> DEFINE l == [refresh[s] EXCEPT !.tell = refresh[s].tell \ {a}]
      <4>1. l \in Look /\ l.notices = refresh[s].notices /\ l.tell = refresh[s].tell \ {a}
        BY <1>0 DEF Look
      <4>2. refresh' = [refresh EXCEPT ![s] = l]
        BY <1>0, <1>2, <3>2
      <4> HIDE DEF l
      <4> QED
        BY <4>1, <4>2
    <3> QED
      BY <3>1, <3>2
  <2>2. /\ refresh' \in [Servers -> Look] /\ refresh'[s] = r
        /\ \A t \in Servers : t # s => refresh'[t] = refresh[t]
    BY <1>0, <2>1
  <2>3. \A b \in Admins, n \in Notices :
          told'[b][n] = IF b = a /\ n \in refresh[s].notices THEN told[b][n] + 1 ELSE told[b][n]
    BY <1>0, <1>2
  <2>4. told' \in [Admins -> [Notices -> Nat]]
    <3>1. [n \in Notices |-> IF n \in refresh[s].notices THEN told[a][n] + 1 ELSE told[a][n]]
             \in [Notices -> Nat]
      BY <1>0
    <3> QED
      BY <1>0, <1>2, <3>1
  <2>5. TypeOK'
    BY <1>0, <2>2, <2>4 DEF CInv, TypeOK, UpdatesTyped, AdministrationTyped, requestVars
  <2>6. Claims'
    <3>0. refresh[s].notices \subseteq Notices /\ refresh[s].notices \subseteq announced
      BY <1>0 DEF Look, Claims
    <3>1. ASSUME NEW b \in Admins, NEW n \in Notices
          PROVE  told'[b][n] <= 1 /\ (n \notin announced' => told'[b][n] = 0)
      <4>1. CASE b = a /\ n \in refresh[s].notices
        BY <1>0, <2>3, <3>0, <4>1 DEF Claims
      <4>2. CASE ~(b = a /\ n \in refresh[s].notices)
        BY <1>0, <2>3, <4>2 DEF Claims
      <4> QED
        BY <4>1, <4>2
    <3>2. ASSUME NEW t \in Servers, refresh'[t].step = "tell"
          PROVE  /\ refresh'[t].notices \subseteq announced'
                 /\ \A u \in Servers \ {t} : refresh'[u].step = "tell" =>
                       refresh'[t].notices \cap refresh'[u].notices = {}
      BY <1>0, <2>1, <2>2, <3>0, <3>2 DEF Claims
    <3>3. ASSUME NEW t \in Servers, refresh'[t].step = "tell",
                 NEW n \in refresh'[t].notices, NEW b \in refresh'[t].tell
          PROVE  told'[b][n] = 0
      <4>0. refresh'[t].notices \subseteq Notices /\ refresh'[t].tell \subseteq Admins
        BY <2>2 DEF Look
      <4>1. CASE t = s
        BY <1>0, <2>1, <2>2, <2>3, <3>3, <4>0, <4>1 DEF Claims
      <4>2. CASE t # s
        <5>1. n \notin refresh[s].notices /\ told[b][n] = 0
          BY <1>0, <2>2, <3>3, <4>2 DEF Claims
        <5> QED
          BY <2>3, <4>0, <5>1
      <4> QED
        BY <4>1, <4>2
    <3> QED
      BY <3>1, <3>2, <3>3 DEF Claims
  <2>7. PermissionsWereApproved' /\ Compared'
    BY <1>0 DEF CInv, PermissionsWereApproved, Compared, requestVars, Installed
  <2> QED
    BY <2>5, <2>6, <2>7 DEF CInv
<1> QED
  BY <1>1, <1>2 DEF NotifyPluginUpdates

LEMMA UpdatesStep == ASSUME CInv, PluginUpdates, UNCHANGED requestVars PROVE CInv'
<1>0. refresh \in [Servers -> Look] /\ UpdatesTyped
  BY DEF CInv, TypeOK, UpdatesTyped
<1>1. PICK s \in Servers :
          \/ Refresh(s) \/ RefreshFails(s) \/ fetchCatalog(s) \/ pluginUpdateNotices(s)
          \/ \E ids \in SUBSET Admins : EnabledAdministratorIDs(s, ids)
          \/ ClaimPluginUpdateAnnouncements(s)
          \/ \E a \in Admins : NotifyPluginUpdates(s, a)
          \/ Restart(s)
  BY DEF PluginUpdates
<1>2. refresh[s] \in Look
  BY <1>0
<1>3. CASE Refresh(s)
  <2> DEFINE l == [refresh[s] EXCEPT !.step = "fetch"]
  <2>1. l \in Look /\ l.step # "tell"
    BY <1>2 DEF Look
  <2>2. refresh' = [refresh EXCEPT ![s] = l] /\ UNCHANGED <<cached, announced, told>>
    BY <1>3 DEF Refresh
  <2>3. refreshes' \in [Servers -> 0..MaxRefresh]
    BY <1>0, <1>3, CatalogAssumption DEF Refresh, UpdatesTyped
  <2> QED
    BY <1>0, <2>1, <2>2, <2>3, LookStep DEF UpdatesTyped
<1>4. CASE RefreshFails(s) \/ Restart(s)
  BY <1>0, <1>4, NoRefreshTyped, LookStep DEF RefreshFails, Restart, UpdatesTyped
<1>5. CASE fetchCatalog(s)
  <2> DEFINE l == [refresh[s] EXCEPT !.step = "compare"]
  <2>1. l \in Look /\ l.step # "tell"
    BY <1>2 DEF Look
  <2>2. refresh' = [refresh EXCEPT ![s] = l] /\ UNCHANGED <<refreshes, announced, told>>
    BY <1>5 DEF fetchCatalog
  <2>3. cached' \in (SUBSET Packages) \cup {None} /\ (cached # None => cached' # None)
    BY <1>0, <1>5, CatalogAssumption DEF fetchCatalog, UpdatesTyped
  <2> QED
    BY <1>0, <2>1, <2>2, <2>3, LookStep DEF UpdatesTyped
<1>6. CASE pluginUpdateNotices(s)
  <2>1. PICK found \in SUBSET Packages :
          refresh' = [refresh EXCEPT ![s] =
             IF found = {} THEN NoRefresh
             ELSE [@ EXCEPT !.step = "administrators", !.notices = {Notice(p) : p \in found}]]
    BY <1>0, <1>6, UpdatesArePackages, ElsewhereArePackages DEF pluginUpdateNotices
  <2> DEFINE l == [refresh[s] EXCEPT !.step = "administrators", !.notices = {Notice(p) : p \in found}]
  <2>2. {Notice(p) : p \in found} \subseteq Notices
    BY DEF Notices
  <2>3. l \in Look /\ l.step # "tell"
    BY <1>2, <2>2 DEF Look
  <2>4. refresh' = [refresh EXCEPT ![s] = NoRefresh] \/ refresh' = [refresh EXCEPT ![s] = l]
    BY <1>0, <2>1
  <2> QED
    BY <1>0, <1>6, <2>3, <2>4, NoRefreshTyped, LookStep DEF pluginUpdateNotices, UpdatesTyped
<1>7. ASSUME NEW ids \in SUBSET Admins, EnabledAdministratorIDs(s, ids) PROVE CInv'
  <2> DEFINE l == [refresh[s] EXCEPT !.step = "claim", !.tell = ids]
  <2>1. l \in Look /\ l.step # "tell"
    BY <1>2 DEF Look
  <2>2. refresh' = [refresh EXCEPT ![s] = NoRefresh] \/ refresh' = [refresh EXCEPT ![s] = l]
    BY <1>0, <1>7 DEF EnabledAdministratorIDs
  <2> QED
    BY <1>0, <1>7, <2>1, <2>2, NoRefreshTyped, LookStep DEF EnabledAdministratorIDs, UpdatesTyped
<1> QED
  BY <1>1, <1>3, <1>4, <1>5, <1>6, <1>7, ClaimStep, NotifyStep
-----------------------------------------------------------------------------
(* Administration *)

LEMMA AffectingTyped ==
    ASSUME NEW inv \in [Plugins -> Entry \cup {None}]
    PROVE  Affecting(inv) \in Dependencies
<1> SUFFICES ASSUME NEW id \in Plugins
             PROVE  (IF Installed(inv, id) /\ inv[id].enabled /\ inv[id].package.affects
                     THEN inv[id].package ELSE None) \in Packages \cup {None}
  BY DEF Affecting, Dependencies
<1>1. Installed(inv, id) => inv[id] \in Entry
  BY DEF Installed
<1> QED
  BY <1>1 DEF Entry

LEMMA NoRequestTyped == NoRequest \in Request /\ NoRequest.work = {}
  BY DEF NoRequest, Request

\* What is installed was given its permissions with consent.
LEMMA InstalledIsApproved ==
    ASSUME CInv, NEW id \in Plugins, Installed(inventory, id)
    PROVE  /\ inventory[id] \in Entry /\ inventory[id].package \in Packages
           /\ inventory[id].package.permissions \in consented[id]
<1>1. inventory[id] \in Entry
  BY DEF CInv, TypeOK, AdministrationTyped, Installed
<1> QED
  BY <1>1 DEF CInv, PermissionsWereApproved, Entry

LEMMA WorkItems ==
    ASSUME CInv, NEW r \in Requests, NEW i \in request[r].work
    PROVE  /\ request[r] \in Request
           /\ request[r] \in Running
           /\ i \in Work \cup Switch \cup Result
           /\ i.step \in {"waiting", "download"} => i \in Work
           /\ i.step \notin {"switch", "done"} => i \in Work
           /\ i.step = "switch" => i \in Switch
           /\ i \in Work => i.package \in Packages /\ i.package.id \in Plugins
<1>1. request[r] \in Request
  BY DEF CInv, TypeOK, AdministrationTyped
<1>2. request[r].work \subseteq Work \cup Switch \cup Result
  BY <1>1 DEF Request, Running, NoRequest
<1>3. request[r] \in Running
  BY <1>1 DEF Request, NoRequest
<1> QED
  BY <1>1, <1>2, <1>3 DEF Work, Switch, Result, Plugins

\* A request of administration goes on.  Consent is not taken back.
LEMMA RequestStep ==
    ASSUME CInv, UNCHANGED refreshVars, NEW r \in Requests, NEW q \in Request,
           request' = [request EXCEPT ![r] = q],
           inventory' \in [Plugins -> Entry \cup {None}], changes' \in 0..MaxChanges,
           reviewed' \subseteq Challenges, rendered' \in Dependencies,
           consented' \in [Plugins -> SUBSET Permissions],
           \A id \in Plugins : consented[id] \subseteq consented'[id],
           \A id \in Plugins : inventory'[id] # inventory[id] /\ inventory'[id] # None =>
               inventory'[id].package.permissions \in consented'[id],
           \A i \in q.work : i.step \in {"waiting", "download"} =>
               /\ q.op # "install" => i.installed.permissions \in consented'[i.package.id]
               /\ q.op = "update" /\ i.step = "waiting" /\ ~i.builtin => cached # None
    PROVE  CInv'
<1>1. request \in [Requests -> Request]
  BY DEF CInv, TypeOK, AdministrationTyped
<1>2. /\ request' \in [Requests -> Request] /\ request'[r] = q
      /\ \A s \in Requests : s # r => request'[s] = request[s]
  BY <1>1
<1>3. TypeOK'
  BY <1>2 DEF CInv, TypeOK, UpdatesTyped, AdministrationTyped, refreshVars
<1>4. Claims'
  BY DEF CInv, Claims, refreshVars
<1>5. PermissionsWereApproved'
  BY DEF CInv, PermissionsWereApproved, Installed
<1>6. Compared'
  <2> SUFFICES ASSUME NEW s \in Requests, NEW i \in request'[s].work,
                      i.step \in {"waiting", "download"}
               PROVE  /\ request'[s].op # "install" =>
                            i.installed.permissions \in consented'[i.package.id]
                      /\ request'[s].op = "update" /\ i.step = "waiting" /\ ~i.builtin =>
                            cached' # None
    BY DEF Compared
  <2>0. cached' = cached
    BY DEF refreshVars
  <2>1. CASE s = r
    BY <1>2, <2>0, <2>1
  <2>2. CASE s # r
    <3>1. i \in request[s].work /\ request'[s] = request[s]
      BY <1>2, <2>2
    <3>2. i.package.id \in Plugins
      BY <3>1, WorkItems
    <3> QED
      BY <2>0, <3>1, <3>2 DEF CInv, Compared
  <2> QED
    BY <2>1, <2>2
<1> QED
  BY <1>3, <1>4, <1>5, <1>6 DEF CInv

LEMMA BeginStep ==
    ASSUME CInv, UNCHANGED refreshVars, NEW r \in Requests, NEW op \in Operations,
           NEW approval \in reviewed \cup {None},
           NEW work \in SUBSET (Work \cup Switch), Begin(r, op, approval, work),
           \A i \in work \cap Work :
               /\ op # "install" => i.installed.permissions \in consented[i.package.id]
               /\ op = "update" /\ ~i.builtin => cached # None
    PROVE  CInv'
<1> DEFINE q == [step |-> "work", op |-> op, approval |-> approval,
                 before |-> Affecting(inventory), work |-> work]
<1>0. AdministrationTyped
  BY DEF CInv, TypeOK
<1>1. q \in Request /\ q.work = work /\ q.op = op
  <2>1. Affecting(inventory) \in Dependencies /\ approval \in Challenges \cup {None}
    BY <1>0, AffectingTyped DEF AdministrationTyped
  <2> QED
    BY <2>1 DEF Request, Running
<1>2. request' = [request EXCEPT ![r] = q] /\ UNCHANGED <<inventory, changes, consented, rendered>>
      /\ reviewed' \subseteq reviewed
  BY DEF Begin
<1>3. \A i \in work : i.step \in {"waiting", "download"} => i \in Work
  BY DEF Work, Switch
<1> HIDE DEF q
<1> QED
  BY <1>0, <1>1, <1>2, <1>3, RequestStep DEF AdministrationTyped

\* One item of the work has gone on.
LEMMA ReplaceStep ==
    ASSUME CInv, UNCHANGED <<refreshVars, rendered>>, NEW r \in Requests,
           NEW item \in request[r].work, NEW new \in Work \cup Result, Replace(r, item, new),
           inventory' \in [Plugins -> Entry \cup {None}], changes' \in 0..MaxChanges,
           reviewed' \subseteq Challenges,
           consented' \in [Plugins -> SUBSET Permissions],
           \A id \in Plugins : consented[id] \subseteq consented'[id],
           \A id \in Plugins : inventory'[id] # inventory[id] /\ inventory'[id] # None =>
               inventory'[id].package.permissions \in consented'[id],
           new \in Work => /\ new.step = "download"
                           /\ request[r].op # "install" =>
                                  new.installed.permissions \in consented[new.package.id]
    PROVE  CInv'
<1> DEFINE q == [request[r] EXCEPT !.work = (request[r].work \ {item}) \cup {new}]
<1>0. request \in [Requests -> Request] /\ request[r] \in Running /\ rendered \in Dependencies
  BY WorkItems DEF CInv, TypeOK, AdministrationTyped
<1>1. q \in Request /\ q.work = (request[r].work \ {item}) \cup {new} /\ q.op = request[r].op
  BY <1>0 DEF Request, Running
<1>2. request' = [request EXCEPT ![r] = q]
  BY <1>0 DEF Replace
<1>3. new \in Result => new.step = "done"
  BY DEF Result
<1>4. ASSUME NEW i \in q.work, i.step \in {"waiting", "download"}
      PROVE  /\ q.op # "install" => i.installed.permissions \in consented'[i.package.id]
             /\ q.op = "update" /\ i.step = "waiting" /\ ~i.builtin => cached # None
  <2>1. CASE i \in request[r].work
    <3>1. i.package.id \in Plugins
      BY <1>4, <2>1, WorkItems
    <3> QED
      BY <1>1, <1>4, <2>1, <3>1 DEF CInv, Compared
  <2>2. CASE i = new
    <3>1. new \in Work /\ new.step = "download"
      BY <1>3, <1>4, <2>2
    <3>2. new.package.id \in Plugins
      BY <3>1 DEF Work, Plugins
    <3> QED
      BY <1>1, <2>2, <3>1, <3>2
  <2> QED
    BY <1>1, <1>4, <2>1, <2>2
<1> HIDE DEF q
<1> QED
  BY <1>0, <1>1, <1>2, <1>4, RequestStep

\* An item that has run names its plugin.
LEMMA FinishedTyped ==
    ASSUME CInv, NEW r \in Requests, NEW item \in request[r].work, item.step # "done",
           NEW ok \in BOOLEAN
    PROVE  Finished(item, ok) \in Result /\ Finished(item, ok) \notin Work
<1>1. item \in Work \/ item \in Switch
  BY WorkItems DEF Result
<1>2. ItemPlugin(item) \in Plugins
  <2>1. CASE item \in Work
    <3>1. "id" \notin DOMAIN item
      BY <2>1 DEF Work
    <3> QED
      BY <2>1, <3>1, WorkItems DEF ItemPlugin
  <2>2. CASE item \in Switch
    <3>1. "id" \in DOMAIN item /\ item.id \in Plugins
      BY <2>2 DEF Switch
    <3> QED
      BY <3>1 DEF ItemPlugin
  <2> QED
    BY <1>1, <2>1, <2>2
<1> QED
  BY <1>2 DEF Finished, Result, Work
\* An upload: the package of an upgrade is compared with the one installed now.
LEMMA UploadStep ==
    ASSUME CInv, UNCHANGED refreshVars, NEW r \in Requests, NEW p \in Packages,
           NEW approval \in reviewed \cup {None}, readPluginUpload(r, p, approval)
    PROVE  CInv'
<1>0. p.id \in Plugins
  BY DEF Plugins
<1>1. CASE Begin(r, "install", approval, {Item(p, p, FALSE)})
  <2>1. {Item(p, p, FALSE)} \in SUBSET (Work \cup Switch)
    BY DEF Item, Work
  <2> QED
    BY <1>1, <2>1, BeginStep DEF Operations
<1>2. CASE /\ Installed(inventory, p.id)
           /\ Begin(r, "upgrade", approval, {Item(p, inventory[p.id].package, FALSE)})
  <2> DEFINE item == Item(p, inventory[p.id].package, FALSE)
  <2>1. item \in Work /\ item.installed.permissions \in consented[item.package.id]
    BY <1>0, <1>2, InstalledIsApproved DEF Item, Work
  <2>2. Begin(r, "upgrade", approval, {item}) /\ "upgrade" \in Operations /\ "upgrade" # "update"
    BY <1>2 DEF Operations
  <2> HIDE DEF item
  <2> QED
    BY <2>1, <2>2, BeginStep
<1> QED
  BY <1>1, <1>2 DEF readPluginUpload

\* What there is to update, and the item of work for it.
LEMMA AvailableItems ==
    ASSUME CInv, NEW u \in Available(inventory)
    PROVE  LET item == Item(u.package, inventory[u.package.id].package, u.builtin) IN
           /\ u.package \in Packages /\ Installed(inventory, u.package.id)
           /\ item \in Work
           /\ item.installed.permissions \in consented[item.package.id]
           /\ ~item.builtin => cached # None
<1> DEFINE item == Item(u.package, inventory[u.package.id].package, u.builtin)
<1>1. /\ u.package \in Packages /\ u.builtin \in BOOLEAN /\ Installed(inventory, u.package.id)
      /\ ~u.builtin => cached # None
  <2>0. UpdatesTyped
    BY DEF CInv, TypeOK
  <2>1. \A p \in BuiltinUpdate(inventory) : p \in Packages /\ Installed(inventory, p.id)
    BY CatalogAssumption DEF BuiltinUpdate
  <2>2. \A p \in Updates(inventory) : p \in Packages /\ Installed(inventory, p.id) /\ cached # None
    BY <2>0, UpdatesArePackages
  <2>3. \/ \E p \in BuiltinUpdate(inventory) : u = [package |-> p, builtin |-> TRUE]
        \/ \E p \in Updates(inventory) : u = [package |-> p, builtin |-> FALSE]
    BY DEF Available
  <2>4. CASE \E p \in BuiltinUpdate(inventory) : u = [package |-> p, builtin |-> TRUE]
    BY <2>1, <2>4
  <2>5. CASE \E p \in Updates(inventory) : u = [package |-> p, builtin |-> FALSE]
    BY <2>2, <2>5
  <2> QED
    BY <2>3, <2>4, <2>5
<1>2. u.package.id \in Plugins
  BY <1>1 DEF Plugins
<1>3. /\ inventory[u.package.id].package \in Packages
      /\ inventory[u.package.id].package.permissions \in consented[u.package.id]
  BY <1>1, <1>2, InstalledIsApproved
<1>4. item \in Work /\ item.package = u.package /\ item.builtin = u.builtin
      /\ item.installed = inventory[u.package.id].package
  BY <1>1, <1>3 DEF Item, Work
<1> HIDE DEF item
<1>5. /\ item \in Work
      /\ item.installed.permissions \in consented[item.package.id]
      /\ ~item.builtin => cached # None
  BY <1>1, <1>3, <1>4
<1> QED
  BY <1>1, <1>5 DEF item

LEMMA UpdateStep ==
    ASSUME CInv, UNCHANGED refreshVars, NEW r \in Requests,
           \/ \E id \in Plugins, a \in reviewed \cup {None} :
                 Update(r, id, a) \/ UpdateBuiltin(r, id, a)
           \/ UpdateAll(r)
    PROVE  CInv'
<1>0. "update" \in Operations
  BY DEF Operations
<1>1. ASSUME NEW id \in Plugins, NEW a \in reviewed \cup {None}, Update(r, id, a) PROVE CInv'
  <2>1. PICK u \in Available(inventory) :
           /\ u.package.id = id
           /\ Begin(r, "update", a, {Item(u.package, inventory[id].package, u.builtin)})
    BY <1>1 DEF Update
  <2> DEFINE item == Item(u.package, inventory[u.package.id].package, u.builtin)
  <2>2. /\ item \in Work
        /\ item.installed.permissions \in consented[item.package.id]
        /\ ~item.builtin => cached # None
    BY AvailableItems
  <2>3. Begin(r, "update", a, {item})
    BY <2>1
  <2> HIDE DEF item
  <2> QED
    BY <1>0, <2>2, <2>3, BeginStep
<1>2. ASSUME NEW id \in Plugins, NEW a \in reviewed \cup {None}, UpdateBuiltin(r, id, a) PROVE CInv'
  <2>1. PICK p \in BuiltinUpdate(inventory) :
           p.id = id /\ Begin(r, "update", a, {Item(p, inventory[id].package, TRUE)})
    BY <1>2 DEF UpdateBuiltin
  <2> DEFINE item == Item(p, inventory[id].package, TRUE)
  <2>2. p \in Packages /\ Installed(inventory, id)
    BY <2>1, CatalogAssumption DEF BuiltinUpdate
  <2>3. /\ item \in Work /\ item.builtin = TRUE
        /\ item.installed.permissions \in consented[item.package.id]
    BY <2>1, <2>2, InstalledIsApproved DEF Item, Work
  <2>4. Begin(r, "update", a, {item})
    BY <2>1
  <2> HIDE DEF item
  <2> QED
    BY <1>0, <2>3, <2>4, BeginStep
<1>3. CASE UpdateAll(r)
  <2> DEFINE items == {Item(u.package, inventory[u.package.id].package, u.builtin) :
                          u \in Available(inventory)}
  <2>1. \A i \in items : /\ i \in Work
                         /\ i.installed.permissions \in consented[i.package.id]
                         /\ ~i.builtin => cached # None
    BY AvailableItems
  <2>2. Begin(r, "update", None, items)
    BY <1>3 DEF UpdateAll
  <2> HIDE DEF items
  <2>3. items \in SUBSET (Work \cup Switch)
    BY <2>1
  <2> QED
    BY <1>0, <2>1, <2>2, <2>3, BeginStep
<1> QED
  BY <1>1, <1>2, <1>3

LEMMA SwitchStep ==
    ASSUME CInv, UNCHANGED refreshVars, NEW r \in Requests, NEW id \in Plugins,
           NEW op \in {"enable", "disable", "uninstall"}, SwitchPlugin(r, id, op)
    PROVE  CInv'
<1>1. {[id |-> id, step |-> "switch"]} \in SUBSET (Work \cup Switch)
  BY DEF Switch
<1>2. [id |-> id, step |-> "switch"] \notin Work
  BY DEF Work
<1>3. Begin(r, op, None, {[id |-> id, step |-> "switch"]}) /\ op \in Operations
  BY DEF SwitchPlugin, Operations
<1> QED
  BY <1>1, <1>2, <1>3, BeginStep

LEMMA DownloadStep ==
    ASSUME CInv, UNCHANGED refreshVars, NEW r \in Requests, NEW item \in request[r].work,
           Download(r, item)
    PROVE  CInv'
<1>0. AdministrationTyped /\ UpdatesTyped /\ Compared
  BY DEF CInv, TypeOK
<1>1. /\ item.step = "waiting" /\ request[r].op = "update"
      /\ UNCHANGED <<inventory, changes, reviewed, consented, rendered>>
  BY DEF Download
<1>2. /\ item \in Work /\ item.package \in Packages
      /\ item.installed.permissions \in consented[item.package.id]
      /\ ~item.builtin => cached # None
  BY <1>0, <1>1, WorkItems DEF Compared
<1>3. CASE Replace(r, item, Finished(item, FALSE))
  BY <1>0, <1>1, <1>3, FinishedTyped, ReplaceStep DEF AdministrationTyped
<1>4. ASSUME NEW p \in IF item.builtin THEN {item.package} ELSE cached,
             Notice(p) = Notice(item.package),
             Replace(r, item, [item EXCEPT !.step = "download", !.package = p, !.builtin = FALSE])
      PROVE  CInv'
  <2> DEFINE new == [item EXCEPT !.step = "download", !.package = p, !.builtin = FALSE]
  <2>1. p \in Packages
    <3>1. CASE item.builtin
      BY <1>2, <1>4, <3>1
    <3>2. CASE ~item.builtin
      <4>1. cached \subseteq Packages
        BY <1>0, <1>2, <3>2 DEF UpdatesTyped
      <4> QED
        BY <1>4, <3>2, <4>1
    <3> QED
      BY <3>1, <3>2
  <2>2. p.id = item.package.id
    BY <1>4 DEF Notice
  <2>3. new \in Work /\ new.step = "download" /\ new.installed = item.installed /\ new.package = p
    BY <1>2, <2>1 DEF Work
  <2>4. Replace(r, item, new)
    BY <1>4
  <2> HIDE DEF new
  <2> QED
    BY <1>0, <1>1, <1>2, <2>2, <2>3, <2>4, ReplaceStep DEF AdministrationTyped
<1> QED
  BY <1>3, <1>4 DEF Download

LEMMA ReviewStep ==
    ASSUME CInv, UNCHANGED refreshVars, NEW r \in Requests, NEW item \in request[r].work,
           item.step \notin {"switch", "done"}, permissionApprovalRequired(r, item)
    PROVE  CInv'
<1>0. AdministrationTyped
  BY DEF CInv, TypeOK
<1>1. item \in Work /\ item.package \in Packages
  BY WorkItems
<1>2. request[r].op \in Operations
  BY WorkItems DEF Running
<1>3. /\ Replace(r, item, Finished(item, FALSE)) /\ UNCHANGED <<inventory, changes, consented, rendered>>
      /\ reviewed' = {Challenge(request[r].op, item.package)}
  BY DEF permissionApprovalRequired
<1>4. reviewed' \subseteq Challenges
  BY <1>1, <1>2, <1>3 DEF Challenge, Challenges
<1>5. Finished(item, FALSE) \in Result /\ Finished(item, FALSE) \notin Work
  BY FinishedTyped
<1> QED
  BY <1>0, <1>3, <1>4, <1>5, ReplaceStep DEF AdministrationTyped
\* Manager.Install and Manager.Upgrade: with consent, or with the permissions
\* of what the request has compared the package with.
LEMMA ApplyStep ==
    ASSUME CInv, UNCHANGED refreshVars, NEW r \in Requests, NEW item \in request[r].work,
           item.step \notin {"switch", "done"}, Apply(r, item)
    PROVE  CInv'
<1> DEFINE p == item.package
           needed == needsApproval(request[r].op, item.installed, p)
<1>0. /\ AdministrationTyped /\ Compared
      /\ inventory \in [Plugins -> Entry \cup {None}]
      /\ consented \in [Plugins -> SUBSET Permissions]
  BY DEF CInv, TypeOK, AdministrationTyped
<1>1. /\ item \in Work /\ p \in Packages /\ p.id \in Plugins
      /\ item.step \in {"waiting", "download"}
  BY WorkItems DEF Work
<1>2. UNCHANGED <<reviewed, rendered>>
  BY DEF Apply
<1>3. CASE /\ Replace(r, item, Finished(item, FALSE))
           /\ UNCHANGED <<inventory, changes, consented>>
  <2>1. Finished(item, FALSE) \in Result /\ Finished(item, FALSE) \notin Work
    BY FinishedTyped
  <2> QED
    BY <1>0, <1>2, <1>3, <2>1, ReplaceStep DEF AdministrationTyped
<1>4. CASE /\ Applied(p, IF Installed(inventory, p.id) THEN inventory[p.id].enabled ELSE TRUE)
           /\ IF needed THEN Consent(p) ELSE UNCHANGED consented
           /\ Replace(r, item, Finished(item, TRUE))
  <2> DEFINE enabled == IF Installed(inventory, p.id) THEN inventory[p.id].enabled ELSE TRUE
             entry == [package |-> p, enabled |-> enabled]
  <2>1. enabled \in BOOLEAN
    BY <1>1, InstalledIsApproved DEF Entry
  <2>2. entry \in Entry /\ entry.package = p
    BY <1>1, <2>1 DEF Entry
  <2>3. inventory' = [inventory EXCEPT ![p.id] = entry] /\ changes' \in 0..MaxChanges
    BY <1>0, <1>4, CatalogAssumption DEF Applied, AdministrationTyped
  <2>4. /\ consented' \in [Plugins -> SUBSET Permissions]
        /\ \A id \in Plugins : consented[id] \subseteq consented'[id]
        /\ p.permissions \in consented'[p.id]
    <3>1. CASE needed
      <4>1. consented' = [consented EXCEPT ![p.id] = @ \cup {p.permissions}]
        BY <1>4, <3>1 DEF Consent
      <4>2. p.permissions \in Permissions
        BY <1>1 DEF Permissions
      <4> HIDE DEF p
      <4> QED
        BY <1>0, <1>1, <4>1, <4>2
    <3>2. CASE ~needed
      <4>1. consented' = consented
        BY <1>4, <3>2
      <4>2. request[r].op # "install" /\ item.installed.permissions = p.permissions
        BY <3>2 DEF needsApproval, permissionSetChanged
      <4>3. p.permissions \in consented[p.id]
        BY <1>0, <1>1, <4>2 DEF Compared
      <4> QED
        BY <1>0, <4>1, <4>3
    <3> QED
      BY <3>1, <3>2
  <2>5. /\ inventory' \in [Plugins -> Entry \cup {None}]
        /\ \A id \in Plugins : inventory'[id] # inventory[id] /\ inventory'[id] # None =>
             inventory'[id].package.permissions \in consented'[id]
    <3> HIDE DEF entry, p
    <3> QED
      BY <1>0, <1>1, <2>2, <2>3, <2>4
  <2>6. Finished(item, TRUE) \in Result /\ Finished(item, TRUE) \notin Work
    BY FinishedTyped
  <2> QED
    BY <1>0, <1>2, <1>4, <2>3, <2>4, <2>5, <2>6, ReplaceStep DEF AdministrationTyped
<1> QED
  BY <1>3, <1>4 DEF Apply

LEMMA RunSwitchStep ==
    ASSUME CInv, UNCHANGED refreshVars, NEW r \in Requests, NEW item \in request[r].work,
           RunSwitch(r, item)
    PROVE  CInv'
<1>0. AdministrationTyped /\ inventory \in [Plugins -> Entry \cup {None}]
  BY DEF CInv, TypeOK, AdministrationTyped
<1>1. UNCHANGED <<reviewed, consented, rendered>> /\ item.step = "switch"
  BY DEF RunSwitch
<1>2. PICK ok \in BOOLEAN : Replace(r, item, Finished(item, ok))
  BY DEF RunSwitch
<1>3. Finished(item, ok) \in Result /\ Finished(item, ok) \notin Work
  BY <1>1, FinishedTyped
<1>4. /\ inventory' \in [Plugins -> Entry \cup {None}] /\ changes' \in 0..MaxChanges
      /\ \A id \in Plugins : inventory'[id] # inventory[id] /\ inventory'[id] # None =>
            inventory'[id].package.permissions \in consented[id]
  <2>1. CASE UNCHANGED <<inventory, changes>>
    BY <1>0, <2>1 DEF AdministrationTyped
  <2>2. CASE /\ Installed(inventory, item.id) /\ changes < MaxChanges /\ changes' = changes + 1
             /\ inventory' = [inventory EXCEPT ![item.id] =
                   IF request[r].op = "uninstall" THEN None
                   ELSE [@ EXCEPT !.enabled = request[r].op = "enable"]]
    <3> DEFINE entry == [inventory[item.id] EXCEPT !.enabled = request[r].op = "enable"]
    <3>0. item.id \in Plugins
      BY <1>1, WorkItems DEF Switch
    <3>1. /\ entry \in Entry /\ entry.package = inventory[item.id].package
          /\ inventory[item.id].package.permissions \in consented[item.id]
      BY <2>2, <3>0, InstalledIsApproved DEF Entry
    <3>2. changes' \in 0..MaxChanges
      BY <1>0, <2>2, CatalogAssumption DEF AdministrationTyped
    <3>3. \/ inventory' = [inventory EXCEPT ![item.id] = None]
          \/ inventory' = [inventory EXCEPT ![item.id] = entry]
      BY <1>0, <2>2, <3>0
    <3> HIDE DEF entry
    <3> QED
      BY <1>0, <3>0, <3>1, <3>2, <3>3
  <2> QED
    BY <2>1, <2>2 DEF RunSwitch
<1> QED
  BY <1>0, <1>1, <1>2, <1>3, <1>4, ReplaceStep DEF AdministrationTyped

LEMMA RebuildStep ==
    ASSUME CInv, UNCHANGED refreshVars, NEW r \in Requests, scheduleRenderRebuild(r)
    PROVE  CInv'
<1>0. AdministrationTyped
  BY DEF CInv, TypeOK
<1>1. rendered' \in Dependencies
  BY <1>0, AffectingTyped DEF scheduleRenderRebuild, AdministrationTyped
<1>2. /\ request' = [request EXCEPT ![r] = NoRequest]
      /\ UNCHANGED <<inventory, changes, reviewed, consented>>
  BY DEF scheduleRenderRebuild
<1>3. NoRequest \in Request /\ NoRequest.work = {}
  BY DEF Request, NoRequest
<1> QED
  BY <1>0, <1>1, <1>2, <1>3, RequestStep DEF AdministrationTyped

LEMMA AdministrationStep == ASSUME CInv, Administration, UNCHANGED refreshVars PROVE CInv'
<1>1. PICK r \in Requests :
       \/ \E approval \in reviewed \cup {None} :
             \/ \E p \in Packages : readPluginUpload(r, p, approval)
             \/ \E id \in Plugins : Update(r, id, approval) \/ UpdateBuiltin(r, id, approval)
       \/ UpdateAll(r)
       \/ \E id \in Plugins, op \in {"enable", "disable", "uninstall"} : SwitchPlugin(r, id, op)
       \/ \E item \in request[r].work :
             \/ RunSwitch(r, item)
             \/ /\ item.step # "switch"
                /\ item.step # "done"
                /\ Download(r, item) \/ permissionApprovalRequired(r, item) \/ Apply(r, item)
       \/ scheduleRenderRebuild(r)
  BY DEF Administration
<1>2. ASSUME NEW approval \in reviewed \cup {None}, NEW p \in Packages,
             readPluginUpload(r, p, approval)
      PROVE  CInv'
  BY <1>2, UploadStep
<1>3. CASE \/ \E id \in Plugins, a \in reviewed \cup {None} :
                 Update(r, id, a) \/ UpdateBuiltin(r, id, a)
           \/ UpdateAll(r)
  BY <1>3, UpdateStep
<1>4. ASSUME NEW id \in Plugins, NEW op \in {"enable", "disable", "uninstall"},
             SwitchPlugin(r, id, op)
      PROVE  CInv'
  BY <1>4, SwitchStep
<1>5. ASSUME NEW item \in request[r].work,
             \/ RunSwitch(r, item)
             \/ /\ item.step \notin {"switch", "done"}
                /\ Download(r, item) \/ permissionApprovalRequired(r, item) \/ Apply(r, item)
      PROVE  CInv'
  BY <1>5, RunSwitchStep, DownloadStep, ReviewStep, ApplyStep
<1> QED
  BY <1>1, <1>2, <1>3, <1>4, <1>5, RebuildStep

-----------------------------------------------------------------------------
LEMMA CatalogInit == Init => CInv
<1> SUFFICES ASSUME Init PROVE CInv
  OBVIOUS
<1>1. ASSUME NEW id \in Plugins
      PROVE  /\ inventory[id] \in Entry \cup {None}
             /\ inventory[id] # None => inventory[id].package.permissions \in consented[id]
  <2>1. AtStartOf(id) \subseteq Packages
    BY CatalogAssumption DEF AtStartOf
  <2>2. CASE AtStartOf(id) = {}
    BY <2>2 DEF Init
  <2>3. CASE AtStartOf(id) # {}
    <3> DEFINE p == CHOOSE q \in AtStartOf(id) : TRUE
    <3>1. p \in AtStartOf(id)
      BY <2>3
    <3>2. inventory[id] = [package |-> p, enabled |-> TRUE]
      BY <2>3 DEF Init
    <3>3. consented[id] = {q.permissions : q \in AtStartOf(id)}
      BY DEF Init
    <3> HIDE DEF p
    <3> QED
      BY <2>1, <3>1, <3>2, <3>3 DEF Entry
  <2> QED
    BY <2>2, <2>3
<1>2. inventory \in [Plugins -> Entry \cup {None}]
  BY <1>1 DEF Init
<1>3. consented \in [Plugins -> SUBSET Permissions]
  <2>1. \A id \in Plugins : {p.permissions : p \in AtStartOf(id)} \subseteq Permissions
    BY CatalogAssumption DEF AtStartOf, Permissions
  <2> QED
    BY <2>1 DEF Init
<1>4. request \in [Requests -> Request] /\ \A r \in Requests : request[r].work = {}
  BY DEF Init, Request, NoRequest
<1>5. refresh \in [Servers -> Look] /\ \A s \in Servers : refresh[s].step # "tell"
  BY NoRefreshTyped DEF Init
<1>6. told \in [Admins -> [Notices -> Nat]] /\ \A a \in Admins, n \in Notices : told[a][n] = 0
  BY DEF Init
<1>7. rendered \in Dependencies
  BY <1>2, AffectingTyped DEF Init
<1>8. UpdatesTyped /\ AdministrationTyped
  BY <1>2, <1>3, <1>4, <1>5, <1>6, <1>7, CatalogAssumption
     DEF Init, UpdatesTyped, AdministrationTyped
<1>9. Claims /\ PermissionsWereApproved /\ Compared
  BY <1>1, <1>4, <1>5, <1>6 DEF Claims, PermissionsWereApproved, Compared, Installed
<1> QED
  BY <1>8, <1>9 DEF CInv, TypeOK

LEMMA CatalogStep == CInv /\ [Next]_vars => CInv'
<1> SUFFICES ASSUME CInv, [Next]_vars PROVE CInv'
  OBVIOUS
<1>1. CASE PluginUpdates /\ UNCHANGED <<requestVars, asset>>
  BY <1>1, UpdatesStep
<1>2. CASE Administration /\ UNCHANGED <<refreshVars, asset>>
  BY <1>2, AdministrationStep
<1>3. CASE UNCHANGED <<refreshVars, requestVars>>
  BY <1>3 DEF refreshVars, requestVars, CInv, TypeOK, UpdatesTyped, AdministrationTyped, Claims,
     PermissionsWereApproved, Compared, Installed
<1> QED
  BY <1>1, <1>2, <1>3 DEF Next, vars

LEMMA CatalogInvariant == Spec => []CInv
<1> QED
  BY CatalogInit, CatalogStep, PTL DEF Spec

\* The catalog, the announcements, the inventory and the requests of
\* administrators keep their types.
THEOREM TypeCorrectness == Spec => []TypeOK
<1>1. CInv => TypeOK
  BY DEF CInv
<1> QED
  BY CatalogInvariant, <1>1, PTL

\* needsApproval: a package that may run has permissions an administrator has
\* approved for its plugin, however uploads, updates and downloads overlap.
THEOREM InstalledWithConsent == Spec => []PermissionsWereApproved
<1>1. CInv => PermissionsWereApproved
  BY DEF CInv
<1> QED
  BY CatalogInvariant, <1>1, PTL

\* ClaimPluginUpdateAnnouncements: of all the servers that find a release, one
\* tells the administrators, each of them once.
THEOREM ToldAtMostOnce == Spec => []AnnouncedOnce
<1>1. CInv => AnnouncedOnce
  BY DEF CInv, Claims, AnnouncedOnce
<1> QED
  BY CatalogInvariant, <1>1, PTL
================================================================================
