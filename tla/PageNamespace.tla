---------------------------- MODULE PageNamespace ----------------------------
(***************************************************************************)
(* The paths of the wiki: which page owns a path, which former paths lead  *)
(* to it, what links to it, its navigation icon, who may view and edit it. *)
(*                                                                         *)
(* Saves, moves, bulk moves and imports are transactions of one or several *)
(* tasks under READ COMMITTED.  A task reads and validates without locking *)
(* what it validates against, then writes; its writes are seen by nobody   *)
(* until the commit, and another writer of the same page or path waits.    *)
(* Paths are sequences of segments.  There is one ordinary user; the other *)
(* actor is an administrator, whom no rule restricts.                      *)
(***************************************************************************)
EXTENDS Naturals, SequencesExt

CONSTANTS
    Clients,  \* requests that change the namespace
    Ids,      \* identities a page may get
    Paths,    \* paths the model tells apart
    Sources,  \* paths of the first pages, which requests edit, move and view
    Targets,  \* paths requests create pages at and move pages to
    Settable, \* paths authors link to and administrators give rules and icons
    MaxOps,   \* bound on requests and changes of rules and icons
    None

ASSUME NamespaceAssumption ==
    /\ Paths \subseteq Seq(STRING) \ {<<>>} /\ Sources \cup Targets \cup Settable \subseteq Paths
    /\ IsFiniteSet(Paths) /\ IsFiniteSet(Ids)
    /\ MaxOps \in Nat /\ None \notin Clients \cup Ids \cup Paths

VARIABLES
    db,       \* the committed tables: slug, bin, alias, links, icons
    rules,    \* page_access_rules as they concern the ordinary user
    tx,       \* the transaction of each client
    cache,    \* the server's cached navigation icons, None when not loaded
    overlap,  \* whether two icon writers ever overlapped
    ops       \* requests so far

spaceVars == <<db, rules, tx, cache, overlap, ops>>

-----------------------------------------------------------------------------
(* Resolution *)

Above == [path \in Paths |-> {top \in Paths : path = top \/ IsStrictPrefix(top, path)}]

Under(path, top) == top \in Above[path]

Live(d) == {i \in Ids : d.slug[i] # None /\ i \notin d.bin}

GetPage(d, path) == {i \in Live(d) : d.slug[i] = path}

ResolvePageAlias(d, path) == {i \in Live(d) : d.alias[path] = i}

(* The page a requested path leads to: the current path wins over an alias. *)
ResolvePageLinks(d, path) ==
    IF GetPage(d, path) # {} THEN GetPage(d, path) ELSE ResolvePageAlias(d, path)

NavigationItems(d) == {p \in Paths : \E i \in Live(d) : Under(d.slug[i], p)}

-----------------------------------------------------------------------------
(* Access: the nearest rule set replaces those of the ancestors. *)

Access == {"none", "view", "edit"} \* of a path with rules; None has no rules

nearest(path) ==
    LET ruled == {p \in Above[path] : rules[p] # None}
    IN  {p \in ruled : ruled \subseteq Above[p]}

Grants(actor, path, levels) ==
    actor = "administrator" \/ \A p \in nearest(path) : rules[p] \in levels

CanView(actor, path) == Grants(actor, path, {"view", "edit"})
CanEdit(actor, path) == Grants(actor, path, {"edit"})
FilterPages(actor, paths) == {p \in paths : CanView(actor, p)}

-----------------------------------------------------------------------------
(* Tasks and writes.  A write is what one task does to one page.            *)

(* rest: the pages of an import that are still to be saved. *)
Idle == [todo |-> <<>>, found |-> None, writes |-> <<>>, rest |-> <<>>, alone |-> TRUE, step |-> "idle"]

MoveTask(from, to, tree) == [op |-> "move", from |-> from, to |-> to, tree |-> tree]

(* from is None when the request names no existing page. *)
SaveTask(from, to, icon, links) ==
    [op |-> "save", from |-> from, to |-> to, icon |-> icon, links |-> links]

pageRecordLookupSlug(task) == IF task.from = None THEN task.to ELSE task.from

(* Normalize, and Destination for bulk moves. *)
Normalize(task) ==
    /\ task.from # task.to
    /\ task.tree => ~Under(task.to, task.from)

Rebase(path, from, to) == to \o SubSeq(path, Len(from) + 1, Len(path))

validateOnlyPages(d, id, path) == \* a mutant: aliases are not asked
    \A i \in Ids \ {id} : d.slug[i] # path

(* Aliases and slugs of other pages, binned ones included. *)
validatePageDestination(d, id, path) ==
    /\ \A i \in Ids \ {id} : d.slug[i] # path
    /\ d.alias[path] \in {id, None}

loadMovedPages(d, task) ==
    {i \in Live(d) : d.slug[i] = task.from \/ (task.tree /\ Under(d.slug[i], task.from))}

Move(id, old, new) == [op |-> "move", id |-> id, old |-> old, new |-> new]

validateMoveDestinations(d, task) ==
    {Move(i, d.slug[i], Rebase(d.slug[i], task.from, task.to)) : i \in loadMovedPages(d, task)}

(* A unique key of navigation_icons or page_links fails the transaction.    *)
KeyClash(d, w) ==
    /\ w.old # w.new
    /\ \/ {w.old, w.new} \subseteq d.icons
       \/ w.op = "move" /\ \E i \in Ids : {w.old, w.new} \subseteq d.links[i]

(* removeCurrentSlugAlias, then the alias of the path that was read. *)
Realias(d, w) ==
    [p \in Paths |-> IF p = w.old /\ w.old # w.new THEN w.id
                     ELSE IF p = w.new /\ d.alias[p] = w.id THEN None ELSE d.alias[p]]

MoveIcon(d, w) == IF w.old \in d.icons THEN (d.icons \ {w.old}) \cup {w.new} ELSE d.icons

retargetMovedPageLinks(d, w) ==
    [i \in Ids |-> IF w.old \in d.links[i] THEN (d.links[i] \ {w.old}) \cup {w.new} ELSE d.links[i]]

applyPageMoves(d, w) ==
    [d EXCEPT !.slug[w.id] = w.new, !.alias = Realias(d, w), !.icons = MoveIcon(d, w),
              !.links = retargetMovedPageLinks(d, w)]

savePageIcon(icons, path, icon) == IF icon THEN icons \cup {path} ELSE icons \ {path}

(* renamePageRecord, or the insert of a page that has no old path.          *)
executePageSaveTransaction(d, w) ==
    [d EXCEPT !.slug[w.id] = w.new,
              !.alias = IF w.old = None THEN @ ELSE Realias(d, w),
              !.icons = savePageIcon(IF w.old = None THEN @ ELSE MoveIcon(d, w), w.new, w.icon),
              !.links[w.id] = w.links]

Apply(d, w) == IF w.op = "move" THEN applyPageMoves(d, w) ELSE executePageSaveTransaction(d, w)

Replay(d, writes) ==
    LET seen[k \in 0..Len(writes)] == IF k = 0 THEN d ELSE Apply(seen[k - 1], writes[k])
    IN  seen[Len(writes)]

(* What a transaction sees: what is committed and what it wrote. *)
View(c) == Replay(db, tx[c].writes)

Wrote(c) == {tx[c].writes[k] : k \in DOMAIN tx[c].writes}
Locked(c) == {w.id : w \in Wrote(c)}
             \cup IF tx[c].step = "write" /\ Head(tx[c].todo).op = "save"
                  THEN {w.id : w \in tx[c].found} ELSE {}
Claimed(c) == {w.new : w \in Wrote(c)} \cup {w.old : w \in Wrote(c)}
Others(c) == Clients \ {c}

-----------------------------------------------------------------------------
(* Requests *)

Begin(c, todo) ==
    /\ tx[c].step = "idle" /\ ops < MaxOps
    /\ tx' = [tx EXCEPT ![c] = [Idle EXCEPT !.todo = todo, !.step = "read"]]
    /\ ops' = ops + 1
    /\ UNCHANGED <<db, rules, cache, overlap>>

(* Mutations.Save: both paths must be editable; an edit names a page. *)
Save(c, actor, from, to, icon, links) ==
    /\ from # None => GetPage(db, from) # {} /\ CanEdit(actor, from)
    /\ CanEdit(actor, to)
    /\ Begin(c, <<SaveTask(from, to, icon, links)>>)

MovePage(c, actor, from, to, tree) ==
    /\ Normalize(MoveTask(from, to, tree))
    /\ CanEdit(actor, from) /\ CanEdit(actor, to)
    /\ Begin(c, <<MoveTask(from, to, tree)>>)

(* The selected pages beneath one target, the longest paths first. *)
BulkMovePages(c, selected, target) ==
    LET Destination(p) == Append(target, Last(p))
    IN  /\ \A p \in selected : Destination(p) \in Paths \ {p}
        /\ \E ordered \in SetToSeqs(selected) :
              /\ \A k, l \in DOMAIN ordered : k < l => Len(ordered[k]) >= Len(ordered[l])
              /\ Begin(c, [k \in DOMAIN ordered |-> MoveTask(ordered[k], Destination(ordered[k]), FALSE)])

(* An archive: every page in one transaction. *)
ImportPortablePages(c, paths, icon) ==
    LET ordered == SetToSeq(paths)
    IN  Begin(c, [k \in DOMAIN ordered |-> SaveTask(None, ordered[k], icon, {})])

(* Uploaded files are saved one by one: each page is read, then saved with  *)
(* the icon it had, in a transaction and with an invalidation of its own.   *)
Import(c, paths) ==
    /\ tx[c].step = "idle" /\ ops < MaxOps /\ ops' = ops + 1
    /\ tx' = [tx EXCEPT ![c] = [Idle EXCEPT !.rest = SetToSeq(paths), !.step = "import"]]
    /\ UNCHANGED <<db, rules, cache, overlap>>

importPage(c) ==
    /\ tx[c].step = "import"
    /\ LET path == Head(tx[c].rest)
           kept == GetPage(db, path) # {} /\ path \in db.icons
       IN  tx' = [tx EXCEPT ![c] = [Idle EXCEPT !.todo = <<SaveTask(None, path, kept, {})>>,
                                                !.rest = Tail(tx[c].rest), !.step = "read"]]
    /\ UNCHANGED <<db, rules, cache, overlap, ops>>

-----------------------------------------------------------------------------
(* Steps of a transaction *)

Rollback(c) ==
    /\ tx[c].step \in {"read", "write"}
    /\ tx' = [tx EXCEPT ![c] = Idle]
    /\ UNCHANGED <<db, rules, cache, overlap, ops>>

Found(c, writes) ==
    /\ tx' = [tx EXCEPT ![c].found = writes, ![c].step = "write"]
    /\ UNCHANGED <<db, rules, cache, overlap, ops>>

(* movePage reads the pages and validates their destinations, unlocked. *)
ReadMoved(c) ==
    /\ tx[c].step = "read" /\ Head(tx[c].todo).op = "move"
    /\ LET moves == validateMoveDestinations(View(c), Head(tx[c].todo)) IN
         /\ moves # {}
         /\ \A w \in moves : w.new \in Paths /\ validatePageDestination(View(c), w.id, w.new)
         /\ Found(c, moves)

(* loadPageRecordForUpdate finds and locks the page, a page in the bin ends *)
(* the save; a new page is refused on a path that is an alias.              *)
savePageRecord(c) ==
    /\ tx[c].step = "read" /\ Head(tx[c].todo).op = "save"
    /\ LET d == View(c)
           t == Head(tx[c].todo)
           path == pageRecordLookupSlug(t)
           found == {i \in Ids : d.slug[i] = path}
           write(i, old) == [op |-> "save", id |-> i, old |-> old, new |-> t.to,
                             icon |-> t.icon, links |-> t.links]
       IN  \/ /\ found # {} /\ found \subseteq Live(d)
              /\ \A e \in Others(c) : found \cap Locked(e) = {}
              /\ t.to # path => \A i \in found : validatePageDestination(d, i, t.to)
              /\ Found(c, {write(i, path) : i \in found})
           \/ /\ found = {} /\ d.alias[t.to] = None
              /\ \E i \in Ids : /\ d.slug[i] = None
                                /\ \A e \in Others(c) : i \notin Locked(e)
                                /\ Found(c, {write(i, None)})

(* The writes of the task wait for other writers of the same pages and      *)
(* paths; a path taken meanwhile, a purged page or a clash ends it.         *)
WriteTask(c) ==
    /\ tx[c].step = "write"
    /\ LET d == View(c)
           writes == SetToSeq(tx[c].found)
       IN  /\ \A w \in tx[c].found :
                /\ \A e \in Others(c) : w.id \notin Locked(e) /\ {w.old, w.new} \cap Claimed(e) \subseteq {None}
                /\ \A i \in Ids \ {w.id} : d.slug[i] # w.new
                /\ w.old # None => d.slug[w.id] # None
                /\ ~KeyClash(d, w)
           /\ tx' = [tx EXCEPT ![c].writes = @ \o writes, ![c].todo = Tail(@), ![c].found = None,
                               ![c].step = IF Len(tx[c].todo) = 1 THEN "commit" ELSE "read"]
    /\ UNCHANGED <<db, rules, cache, overlap, ops>>

(* Every other transaction under way has then seen the tables change. *)
Changed(c, step) ==
    [e \in Clients |-> IF e = c THEN [Idle EXCEPT !.step = step, !.rest = tx[c].rest]
                       ELSE IF tx[e].step = "idle" THEN tx[e] ELSE [tx[e] EXCEPT !.alone = FALSE]]

Commit(c) ==
    /\ tx[c].step = "commit"
    /\ db' = View(c)
    /\ tx' = Changed(c, "invalidate")
    /\ overlap' = (overlap \/ \E e \in Clients : tx[e].step = "cached")
    /\ UNCHANGED <<rules, cache, ops>>

-----------------------------------------------------------------------------
(* Single statements of administrators *)

Statement(new) ==
    /\ ops < MaxOps /\ ops' = ops + 1
    /\ db' = new
    /\ tx' = Changed(None, "idle")
    /\ UNCHANGED <<rules, cache, overlap>>

Unlocked(i) == \A c \in Clients : i \notin Locked(c)

(* One page, or the selected ones at once. *)
BulkDeletePages(ids) ==
    /\ ids \subseteq Live(db) /\ \A i \in ids : Unlocked(i)
    /\ Statement([db EXCEPT !.bin = @ \cup ids])

RestorePage(i) ==
    /\ db.slug[i] # None /\ i \in db.bin /\ Unlocked(i)
    /\ Statement([db EXCEPT !.bin = @ \ {i}])

(* The aliases and links of the page go with it, and so does every icon     *)
(* that no page is at or below; then the cached icons are discarded.        *)
PermanentlyDeletePage(c, i) ==
    /\ tx[c].step = "idle" /\ ops < MaxOps /\ ops' = ops + 1
    /\ i \in db.bin /\ Unlocked(i)
    /\ LET slugs == {db.slug[j] : j \in Ids \ {i}} \ {None} IN
         db' = [db EXCEPT !.slug[i] = None, !.bin = @ \ {i}, !.links[i] = {},
                          !.alias = [p \in Paths |-> IF @[p] = i THEN None ELSE @[p]],
                          !.icons = {p \in @ : \E s \in slugs : Under(s, p)}]
    /\ tx' = Changed(c, "invalidate")
    /\ overlap' = (overlap \/ \E e \in Clients : tx[e].step = "cached")
    /\ UNCHANGED <<rules, cache>>

-----------------------------------------------------------------------------
(* Navigation icons *)

(* The next page of an import follows. *)
Invalidated(c) == [tx EXCEPT ![c] =
                    IF @.rest = <<>> THEN Idle ELSE [Idle EXCEPT !.rest = tx[c].rest, !.step = "import"]]

KeepIcons(c) == \* a mutant: the cache is not discarded
    /\ tx[c].step = "invalidate"
    /\ tx' = Invalidated(c)
    /\ UNCHANGED <<db, rules, cache, overlap, ops>>

InvalidateIcons(c) ==
    /\ tx[c].step = "invalidate"
    /\ cache' = None
    /\ tx' = Invalidated(c)
    /\ UNCHANGED <<db, rules, overlap, ops>>

(* The statement; the cache is changed in a second step. *)
SetNavigationIcon(c, path, icon) ==
    /\ tx[c].step = "idle" /\ ops < MaxOps /\ ops' = ops + 1
    /\ db' = [db EXCEPT !.icons = savePageIcon(@, path, icon)]
    /\ tx' = [Changed(c, "cached") EXCEPT ![c].found = [path |-> path, icon |-> icon]]
    /\ overlap' = (overlap \/ \E e \in Clients : tx[e].step \in {"cached", "invalidate"})
    /\ UNCHANGED <<rules, cache>>

CacheIcon(c) ==
    /\ tx[c].step = "cached"
    /\ cache' = IF cache = None THEN None ELSE savePageIcon(cache, tx[c].found.path, tx[c].found.icon)
    /\ tx' = [tx EXCEPT ![c] = Idle]
    /\ UNCHANGED <<db, rules, overlap, ops>>

NavigationIcons ==
    /\ cache = None
    /\ cache' = db.icons
    /\ UNCHANGED <<db, rules, tx, overlap, ops>>

-----------------------------------------------------------------------------
(* Access rules *)

(* SavePageAccessRule and DeletePageAccessRule, as far as the user is concerned. *)
SetRule(path, access) ==
    /\ ops < MaxOps /\ ops' = ops + 1
    /\ rules[path] # access
    /\ rules' = [rules EXCEPT ![path] = access]
    /\ UNCHANGED <<db, tx, cache, overlap>>

-----------------------------------------------------------------------------
(* The wiki has pages, one of which may once have been at another path. *)
SpaceInit ==
    /\ \E slug \in [Ids -> Sources \cup {None}], former \in Targets, of \in Ids \cup {None} :
          /\ \A i, j \in Ids : slug[i] = slug[j] => i = j \/ slug[i] = None
          /\ of # None => slug[of] # None /\ \A i \in Ids : slug[i] # former
          /\ db = [slug |-> slug, bin |-> {}, alias |-> [p \in Paths |-> IF p = former THEN of ELSE None],
                   links |-> [i \in Ids |-> {}], icons |-> {}]
    /\ rules = [p \in Paths |-> None]
    /\ tx = [c \in Clients |-> Idle]
    /\ cache = None /\ overlap = FALSE
    /\ ops = 0

(* What a client asks for; ops bounds the requests. *)
Request(c) ==
    /\ tx[c].step = "idle" /\ ops < MaxOps
    /\ \/ \E to \in Targets :
             \/ \E from \in Sources \cup {None}, icon \in BOOLEAN, links \in SUBSET Settable :
                   Save(c, "user", from, to, icon, links)
             \/ \E from \in Sources, tree \in BOOLEAN : MovePage(c, "user", from, to, tree)
             \/ \E selected \in (SUBSET Sources) \ {{}} : BulkMovePages(c, selected, to)
       \/ \E paths \in (SUBSET Targets) \ {{}} :
             Import(c, paths) \/ \E icon \in BOOLEAN : ImportPortablePages(c, paths, icon)
       \/ \E p \in Settable, icon \in BOOLEAN : SetNavigationIcon(c, p, icon)
       \/ \E i \in Ids : PermanentlyDeletePage(c, i)

SpaceNext ==
    \/ \E c \in Clients :
          \/ Request(c)
          \/ importPage(c) \/ ReadMoved(c) \/ savePageRecord(c) \/ WriteTask(c) \/ Commit(c) \/ Rollback(c)
          \/ InvalidateIcons(c) \/ CacheIcon(c)
    \/ \E ids \in (SUBSET Ids) \ {{}} : BulkDeletePages(ids)
    \/ \E i \in Ids : RestorePage(i)
    \/ NavigationIcons
    \/ \E p \in Settable, a \in Access \cup {None} : SetRule(p, a)

SpaceSpec == SpaceInit /\ [][SpaceNext]_spaceVars

-----------------------------------------------------------------------------
(* A path that leads to a page leads to the same page after every save,     *)
(* move, bulk move and import, as its new path or as an alias, when no      *)
(* other change was committed while the request was under way.              *)
PathsKeepLeading ==
    [][\A c \in Clients :
          tx[c].step = "commit" /\ tx[c].alone /\ tx'[c].step = "invalidate" =>
              \A p \in Paths : ResolvePageLinks(db, p) # {} =>
                  ResolvePageLinks(db', p) = ResolvePageLinks(db, p)]_spaceVars

(* As long as no two changes of icons overlapped, the cached icons are the  *)
(* stored ones whenever no change is under way: each kind of change, also   *)
(* one that only renames or purges paths, discards or updates the cache.    *)
CachedIconsAreStored ==
    ~overlap /\ (\A c \in Clients : tx[c].step \notin {"cached", "invalidate"}) =>
        cache \in {None, db.icons}

(* The same as PathsKeepLeading for every request ("preserves the previous  *)
(* slug as an alias").  It does not hold: of two moves of one page, the     *)
(* second leaves no alias for the path the first one gave it.               *)
PathsAlwaysLead ==
    [][\A p \in Paths : ResolvePageLinks(db, p) # {} /\ Live(db') = Live(db) =>
          ResolvePageLinks(db', p) = ResolvePageLinks(db, p)]_spaceVars

(* The cached icons are the stored ones ("Keep an already-loaded cache      *)
(* coherent with successful admin writes").  It does not hold when two      *)
(* writers reach the table and the cache in different orders.               *)
CacheIsCoherent ==
    (\A c \in Clients : tx[c].step \notin {"cached", "invalidate"}) => cache \in {None, db.icons}
=============================================================================
