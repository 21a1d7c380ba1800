--------------------------- MODULE PluginCatalog ---------------------------
(***************************************************************************)
(* What administrators do with plugins: they look for newer releases, are  *)
(* told of them once, review what a package may do, install, upgrade,      *)
(* update one or all, and have the pages rendered again.  The manager is   *)
(* the one of PluginLifecycle, here reduced to the inventory it publishes. *)
(* A package stands for its bytes: [id, version, permissions, affects      *)
(* (whether stored renders depend on it), sound (whether the catalog's     *)
(* metadata of it is), kind and css (its style sheet)].                    *)
(***************************************************************************)
EXTENDS Naturals, FiniteSets

CONSTANTS Packages, Builtins, AtStart, Required, \* Builtins, AtStart \subseteq Packages
          Catalogs,    \* what the catalog's server may offer, a set of sets of packages
          Admins,      \* accounts that may be enabled administrators
          Servers,     \* servers that look for releases, of one database
          Here,        \* the server whose administration is modelled
          Requests,    \* administration requests under way
          Concurrency, \* pluginUpdateConcurrency
          MaxRefresh,  \* bound on the refreshes of a server
          MaxChanges,  \* bound on changes of the inventory
          MaxOverlap,  \* bound on activities under way at a time
          None

ASSUME CatalogAssumption ==
    /\ Here \in Servers /\ Catalogs \subseteq SUBSET Packages
    /\ \A C \in Catalogs : C # None
    /\ Builtins \subseteq Packages /\ AtStart \subseteq Packages
    /\ Concurrency \in Nat \ {0} /\ MaxRefresh \in Nat /\ MaxChanges \in Nat
    /\ MaxOverlap \in Nat

Plugins == {p.id : p \in Packages}

VARIABLES
    inventory, \* Manager.Plugins(): the package of each plugin and whether it is enabled
    changes,   \* counts changes of the inventory, only to bound them
    cached,    \* the catalog this server read last
    refresh,   \* the refresh under way; refreshMu admits one on a server
    refreshes, \* counts them
    announced, \* plugin_update_announcements
    told,      \* how often each administrator was told of a release
    request,   \* administration requests
    reviewed,  \* the approval on the page an administrator looks at
    consented, \* permission sets each plugin was given with consent
    rendered,  \* what the renders asked for last depend on
    asset      \* a request for an asset or the style sheet

refreshVars == <<cached, refresh, refreshes, announced, told>>
requestVars == <<inventory, changes, request, reviewed, consented, rendered>>
vars == <<refreshVars, requestVars, asset>>

(* At most MaxOverlap activities are under way.  A refresh on another server *)
(* has nothing in common with the requests here, nor a refresh with what     *)
(* browsers get: their steps are not interleaved.                            *)
Refreshing(S) == {s \in S : refresh[s].step # "idle"}
Administering == {r \in Requests : request[r].step # "idle"}
Serving == asset.step # "idle"
Room == Cardinality(Refreshing(Servers)) + Cardinality(Administering) + (IF Serving THEN 1 ELSE 0) < MaxOverlap

-----------------------------------------------------------------------------
(* Releases *)

Installed(inv, id) == inv[id] # None
Affecting(inv) == [id \in Plugins |->
    IF Installed(inv, id) /\ inv[id].enabled /\ inv[id].package.affects THEN inv[id].package ELSE None]

releaseProblem(p) == ~p.sound

eligible(releases, id, version) ==
    {p \in releases : p.id = id /\ ~releaseProblem(p) /\ p.version > version}

newestCompatibleRelease(releases, id, version) ==
    {p \in eligible(releases, id, version) :
        \A q \in eligible(releases, id, version) : q.version <= p.version}

Updates(inv) ==
    IF cached = None THEN {}
    ELSE UNION {newestCompatibleRelease(cached, id, inv[id].package.version) :
                   id \in {i \in Plugins : Installed(inv, i)}}

BuiltinUpdate(inv) ==
    {p \in Builtins : Installed(inv, p.id) /\ p.version > inv[p.id].package.version}

CatalogAvailable(inv) ==
    cached # None \/ \E p \in Builtins : Installed(inv, p.id)

(* The release of each plugin there is an update for: the bundled one when  *)
(* the remote one is not newer.                                             *)
Available(inv) ==
    LET remote == Updates(inv)
        bundled == {p \in BuiltinUpdate(inv) : \A q \in remote : q.id = p.id => p.version >= q.version}
    IN  {[package |-> p, builtin |-> TRUE] : p \in bundled} \cup
        {[package |-> p, builtin |-> FALSE] : p \in {q \in remote : \A b \in bundled : b.id # q.id}}

-----------------------------------------------------------------------------
(* Approvals *)

Challenge(op, p) == [op |-> op, package |-> p]

permissionSetChanged(installed, target) == installed.permissions # target.permissions

permissionApprovalMatches(approval, op, p) ==
    approval # None /\ approval.op = op /\ approval.package = p

onlyInstallNeedsApproval(op, installed, p) == op = "install" \* a mutant

needsApproval(op, installed, p) ==
    op = "install" \/ permissionSetChanged(installed, p)

-----------------------------------------------------------------------------
(* Looking for releases, by the scheduler or at an administrator's wish *)

NoRefresh == [step |-> "idle", notices |-> {}, tell |-> {}]
Notice(p) == <<p.id, p.version>>
Notices == {Notice(p) : p \in Packages}

Refresh(s) ==
    /\ refresh[s].step = "idle" /\ refreshes[s] < MaxRefresh
    /\ Room /\ ~Serving /\ (s # Here => Administering = {})
    /\ refreshes' = [refreshes EXCEPT ![s] = @ + 1]
    /\ refresh' = [refresh EXCEPT ![s].step = "fetch"]
    /\ UNCHANGED <<cached, announced, told>>

RefreshFails(s) ==
    /\ refresh[s].step = "fetch"
    /\ refresh' = [refresh EXCEPT ![s] = NoRefresh]
    /\ UNCHANGED <<cached, refreshes, announced, told>>

fetchCatalog(s) ==
    /\ refresh[s].step = "fetch"
    /\ \E catalog \in Catalogs : cached' = IF s = Here THEN catalog ELSE cached
    /\ refresh' = [refresh EXCEPT ![s].step = "compare"]
    /\ UNCHANGED <<refreshes, announced, told>>

(* Another server has a catalog and an inventory of its own, of whatever versions. *)
Elsewhere == UNION {eligible(UNION Catalogs, p.id, p.version) : p \in Packages}

pluginUpdateNotices(s) ==
    /\ refresh[s].step = "compare"
    /\ \E found \in IF s = Here THEN {Updates(inventory)} ELSE SUBSET Elsewhere :
          refresh' = [refresh EXCEPT ![s] =
             IF found = {} THEN NoRefresh
             ELSE [@ EXCEPT !.step = "administrators", !.notices = {Notice(p) : p \in found}]]
    /\ UNCHANGED <<cached, refreshes, announced, told>>

EnabledAdministratorIDs(s, ids) ==
    /\ refresh[s].step = "administrators"
    /\ refresh' = [refresh EXCEPT ![s] =
          IF ids = {} THEN NoRefresh ELSE [@ EXCEPT !.step = "claim", !.tell = ids]]
    /\ UNCHANGED <<cached, refreshes, announced, told>>

claimEverything(s) == \* a mutant: a conflict is no reason to leave a release out
    /\ refresh[s].step = "claim"
    /\ announced' = announced \cup refresh[s].notices
    /\ refresh' = [refresh EXCEPT ![s].step = "tell"]
    /\ UNCHANGED <<cached, refreshes, told>>

ClaimPluginUpdateAnnouncements(s) ==
    /\ refresh[s].step = "claim"
    /\ LET pending == refresh[s].notices \ announced IN
       /\ announced' = announced \cup refresh[s].notices
       /\ refresh' = [refresh EXCEPT ![s] =
             IF pending = {} THEN NoRefresh ELSE [@ EXCEPT !.step = "tell", !.notices = pending]]
    /\ UNCHANGED <<cached, refreshes, told>>

(* One notification for each administrator; the first that fails is the last. *)
NotifyPluginUpdates(s, a) ==
    /\ refresh[s].step = "tell" /\ a \in refresh[s].tell
    /\ \/ /\ told' = [told EXCEPT ![a] =
                [n \in Notices |-> IF n \in refresh[s].notices THEN @[n] + 1 ELSE @[n]]]
          /\ refresh' = [refresh EXCEPT ![s] =
                IF @.tell = {a} THEN NoRefresh
                ELSE [@ EXCEPT !.tell = refresh[s].tell \ {a}]]
       \/ /\ refresh' = [refresh EXCEPT ![s] = NoRefresh]
          /\ UNCHANGED told
    /\ UNCHANGED <<cached, refreshes, announced>>

(* A server ends and starts again: what it announced but told nobody is lost. *)
Restart(s) ==
    /\ s # Here /\ refresh[s].step # "idle"
    /\ refresh' = [refresh EXCEPT ![s] = NoRefresh]
    /\ UNCHANGED <<cached, refreshes, announced, told>>

PluginUpdates ==
    \/ \E s \in Servers :
          \/ Refresh(s) \/ RefreshFails(s) \/ fetchCatalog(s) \/ pluginUpdateNotices(s)
          \/ \E ids \in SUBSET Admins : EnabledAdministratorIDs(s, ids)
          \/ ClaimPluginUpdateAnnouncements(s)
          \/ \E a \in Admins : NotifyPluginUpdates(s, a)
          \/ Restart(s)

-----------------------------------------------------------------------------
(* Administration requests.  The handler takes a snapshot of the inventory *)
(* before it runs the action and compares it with the one after.  An item  *)
(* of work is one package to be applied to what the action read before.    *)

NoRequest == [step |-> "idle", op |-> None, approval |-> None, before |-> None, work |-> {}]
Item(p, installed, builtin) ==
    [package |-> p, installed |-> installed, builtin |-> builtin, step |-> "waiting"]

Begin(r, op, approval, work) ==
    /\ request[r] = NoRequest /\ Room /\ Refreshing(Servers \ {Here}) = {}
    /\ request' = [request EXCEPT ![r] =
          [step |-> "work", op |-> op, approval |-> approval, before |-> Affecting(inventory), work |-> work]]
    /\ reviewed' = IF approval = None THEN reviewed ELSE {} \* the form is sent
    /\ UNCHANGED <<inventory, changes, consented, rendered>>

(* An upload is read and validated after the snapshot; a package of another *)
(* plugin is refused there.                                                 *)
readPluginUpload(r, p, approval) ==
    \/ Begin(r, "install", approval, {Item(p, p, FALSE)})
    \/ /\ Installed(inventory, p.id)
       /\ Begin(r, "upgrade", approval, {Item(p, inventory[p.id].package, FALSE)})

Update(r, id, approval) ==
    /\ CatalogAvailable(inventory) /\ Installed(inventory, id)
    /\ \E u \in Available(inventory) :
          /\ u.package.id = id
          /\ Begin(r, "update", approval, {Item(u.package, inventory[id].package, u.builtin)})

UpdateBuiltin(r, id, approval) ==
    \E p \in BuiltinUpdate(inventory) :
       /\ p.id = id
       /\ Begin(r, "update", approval, {Item(p, inventory[id].package, TRUE)})

UpdateAll(r) ==
    /\ Available(inventory) # {}
    /\ Begin(r, "update", None,
             {Item(u.package, inventory[u.package.id].package, u.builtin) : u \in Available(inventory)})

Replace(r, item, new) ==
    request' = [request EXCEPT ![r].work = (@ \ {item}) \cup {new}]

ItemPlugin(item) == IF "id" \in DOMAIN item THEN item.id ELSE item.package.id
Finished(item, ok) == [id |-> ItemPlugin(item), step |-> "done", ok |-> ok]

(* A download yields what the catalog cached under that version now is. *)
Download(r, item) ==
    /\ item.step = "waiting" /\ request[r].op = "update"
    /\ Cardinality({i \in request[r].work : i.step = "download"}) < Concurrency
    /\ \/ Replace(r, item, Finished(item, FALSE))
       \/ \E p \in IF item.builtin THEN {item.package} ELSE cached :
             /\ Notice(p) = Notice(item.package) /\ ~releaseProblem(p)
             /\ Replace(r, item, [item EXCEPT !.step = "download", !.package = p, !.builtin = FALSE])
    /\ UNCHANGED <<inventory, changes, reviewed, consented, rendered>>

ReadyToApply(r, item) == item.step = IF request[r].op = "update" THEN "download" ELSE "waiting"

Consent(p) == consented' = [consented EXCEPT ![p.id] = @ \cup {p.permissions}]

(* The package needs a review it has not had: the administrator is shown it, *)
(* in place of what was shown before.                                       *)
permissionApprovalRequired(r, item) ==
    /\ ReadyToApply(r, item)
    /\ needsApproval(request[r].op, item.installed, item.package)
    /\ ~permissionApprovalMatches(request[r].approval, request[r].op, item.package)
    /\ reviewed' = {Challenge(request[r].op, item.package)}
    /\ Replace(r, item, Finished(item, FALSE))
    /\ UNCHANGED <<inventory, changes, consented, rendered>>

Applied(p, enabled) ==
    /\ changes < MaxChanges
    /\ changes' = changes + 1
    /\ inventory' = [inventory EXCEPT ![p.id] = [package |-> p, enabled |-> enabled]]

(* Manager.Install or Manager.Upgrade, which read the inventory anew. *)
Apply(r, item) ==
    LET p == item.package
        needed == needsApproval(request[r].op, item.installed, p)
        present == Installed(inventory, p.id)
    IN  /\ ReadyToApply(r, item)
        /\ needed => permissionApprovalMatches(request[r].approval, request[r].op, p)
        /\ \/ /\ (request[r].op = "install") # present
              /\ Applied(p, IF present THEN inventory[p.id].enabled ELSE TRUE)
              /\ IF needed THEN Consent(p) ELSE UNCHANGED consented
              /\ Replace(r, item, Finished(item, TRUE))
           \/ /\ Replace(r, item, Finished(item, FALSE)) \* refused or failed by the manager
              /\ UNCHANGED <<inventory, changes, consented>>
        /\ UNCHANGED <<reviewed, rendered>>

(* Enable, disable and uninstall need no package. *)
SwitchPlugin(r, id, op) ==
    /\ Begin(r, op, None, {[id |-> id, step |-> "switch"]})

RunSwitch(r, item) ==
    /\ item.step = "switch"
    /\ \/ /\ Installed(inventory, item.id) /\ changes < MaxChanges
          /\ request[r].op = "enable" \/ item.id \notin Required
          /\ changes' = changes + 1
          /\ inventory' = [inventory EXCEPT ![item.id] =
                IF request[r].op = "uninstall" THEN None
                ELSE [@ EXCEPT !.enabled = request[r].op = "enable"]]
          /\ Replace(r, item, Finished(item, TRUE))
       \/ /\ Replace(r, item, Finished(item, FALSE))
          /\ UNCHANGED <<inventory, changes>>
    /\ UNCHANGED <<reviewed, consented, rendered>>

pluginRenderStateChanged(before, after, id) ==
    before[id] # Affecting(after)[id]

(* The comparison of the two snapshots decides whether the pages are rendered *)
(* again, now or, for a deferred request, with the next change.               *)
scheduleRenderRebuild(r) ==
    /\ request[r].step = "work" /\ \A i \in request[r].work : i.step = "done"
    /\ LET succeeded == {i.id : i \in {j \in request[r].work : j.ok}} IN
       rendered' = IF \E id \in succeeded : pluginRenderStateChanged(request[r].before, inventory, id)
                   THEN Affecting(inventory) ELSE rendered
    /\ request' = [request EXCEPT ![r] = NoRequest]
    /\ UNCHANGED <<inventory, changes, reviewed, consented>>

Administration ==
    \E r \in Requests :
       \/ \E approval \in reviewed \cup {None} :
             \/ \E p \in Packages : readPluginUpload(r, p, approval)
             \/ \E id \in Plugins : Update(r, id, approval) \/ UpdateBuiltin(r, id, approval)
       \/ UpdateAll(r)
       \/ \E id \in Plugins, op \in {"enable", "disable", "uninstall"} : SwitchPlugin(r, id, op)
       \/ \E item \in request[r].work :
             \/ RunSwitch(r, item)
             \/ /\ item.step # "switch"
                /\ item.step # "done"
                /\ Download(r, item) \/ permissionApprovalRequired(r, item) \/ Apply(r, item)
       \/ scheduleRenderRebuild(r)

-----------------------------------------------------------------------------
(* What browsers get of the active plugins *)

NoAsset == [step |-> "idle", package |-> None, version |-> None]
Active(p) == Installed(inventory, p.id) /\ inventory[p.id] = [package |-> p, enabled |-> TRUE]

(* Only declarations of the kind a contribution may style are passed on. *)
safePresentationDeclaration == {"colour"}
safeCodeDeclaration == safePresentationDeclaration \cup {"weight"}
safeContentDeclaration == safeCodeDeclaration \cup {"layout"}

sanitizeStylesheet(p) ==
    p.css \cap CASE p.kind = "browser" -> safePresentationDeclaration
                 [] p.kind = "highlighter" -> safeCodeDeclaration
                 [] p.kind = "content" -> safeContentDeclaration

(* What PresentationStylesVersion fingerprints, and what PresentationStyles joins. *)
StyleIdentity == {p \in Packages : Active(p) /\ p.css # {}}
PresentationStyles(identity) == {<<p.id, sanitizeStylesheet(p)>> : p \in identity}

assetSnapshot(p) ==
    /\ asset = NoAsset /\ Active(p) /\ Room /\ Refreshing(Servers) = {}
    /\ asset' = [NoAsset EXCEPT !.step = "asset", !.package = p]

(* The package is read without the manager's lock, then looked up again. *)
readAssetPackage ==
    /\ asset.step = "asset"
    /\ asset' = IF Active(asset.package) THEN [asset EXCEPT !.step = "serve"] ELSE NoAsset

ServeAsset ==
    /\ asset.step = "serve"
    /\ asset' = NoAsset

PresentationStylesVersion ==
    /\ asset = NoAsset /\ Room /\ Refreshing(Servers) = {}
    /\ asset' = [NoAsset EXCEPT !.step = "styles", !.version = StyleIdentity]

PluginPresentationStyles ==
    /\ asset.step = "styles"
    /\ asset' = [asset EXCEPT !.step = "serve", !.package = PresentationStyles(StyleIdentity)]

PluginAssets ==
    \/ \E p \in Packages : assetSnapshot(p)
    \/ readAssetPackage \/ ServeAsset \/ PresentationStylesVersion \/ PluginPresentationStyles

-----------------------------------------------------------------------------
AtStartOf(id) == {p \in AtStart : p.id = id}

Init ==
    /\ inventory = [id \in Plugins |->
          IF AtStartOf(id) = {} THEN None ELSE [package |-> CHOOSE p \in AtStartOf(id) : TRUE, enabled |-> TRUE]]
    /\ changes = 0
    /\ cached = None
    /\ refresh = [s \in Servers |-> NoRefresh]
    /\ refreshes = [s \in Servers |-> 0]
    /\ announced = {}
    /\ told = [a \in Admins |-> [n \in Notices |-> 0]]
    /\ request = [r \in Requests |-> NoRequest]
    /\ reviewed = {}
    /\ consented = [id \in Plugins |-> {p.permissions : p \in AtStartOf(id)}]
    /\ rendered = Affecting(inventory)
    /\ asset = NoAsset

Next ==
    \/ PluginUpdates /\ UNCHANGED <<requestVars, asset>>
    \/ Administration /\ UNCHANGED <<refreshVars, asset>>
    \/ PluginAssets /\ UNCHANGED <<refreshVars, requestVars>>

Spec == Init /\ [][Next]_vars

-----------------------------------------------------------------------------
(* No plugin has permissions that nobody ever consented to for it, however  *)
(* uploads, downloads and administrators overlap.                           *)
PermissionsWereApproved ==
    \A id \in Plugins : Installed(inventory, id) =>
        inventory[id].package.permissions \in consented[id]

(* "Any permission-set change requires explicit administrator approval      *)
(* before the package is activated": whoever changes what an installed      *)
(* plugin may do has approved that package.  It does not hold: the request  *)
(* compares with the inventory from before its download, and the change of  *)
(* another administrator may have come between.                             *)
PermissionChangesAreApproved ==
    [][\A id \in Plugins :
          /\ Installed(inventory, id) /\ Installed(inventory', id)
          /\ permissionSetChanged(inventory[id].package, inventory'[id].package)
          => \E r \in Requests :
                permissionApprovalMatches(request[r].approval, request[r].op, inventory'[id].package)]_vars

(* No administrator is told twice of one release, although every server      *)
(* looks for releases on its own and restarts forget what was told.          *)
AnnouncedOnce == \A a \in Admins, n \in Notices : told[a][n] <= 1

(* pluginRenderStateChanged is to report "whether a lifecycle operation      *)
(* changed an enabled render-affecting plugin": once no request is under way *)
(* the renders asked for last depend on the plugins that are there.  It does *)
(* not hold: the snapshot from before the upload may be older than a change  *)
(* of another administrator that the operation undoes.                       *)
RebuildsFollow ==
    (\A r \in Requests : request[r] = NoRequest) => rendered = Affecting(inventory)

(* A style sheet that browsers keep for good under the version of a set of   *)
(* contributions is the style sheet of that set.  It does not hold: the      *)
(* plugins may change between the two reads.                                 *)
StylesMatchTheirVersion ==
    asset.step = "serve" /\ asset.version # None
        => asset.package = PresentationStyles(asset.version)
=============================================================================
