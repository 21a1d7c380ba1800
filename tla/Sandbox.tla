------------------------------- MODULE Sandbox -------------------------------
(***************************************************************************)
(* Running plugins (pkg/plugin/wasm): the process-wide cache of compiled   *)
(* code with its leases, the instances that are loaded from it, and the    *)
(* calls into their guests.  An instance takes one call at a time through  *)
(* its gate; a guest that trapped, ran into its deadline or answered with  *)
(* something invalid is thrown away, and the next call starts another.     *)
(* While it runs, a guest may call back into the host, which checks whose  *)
(* call it is, counts it and asks the policy.                              *)
(*                                                                         *)
(* An instance is one that Manager loads once: the versions of a plugin    *)
(* are several.  A guest is numbered when it is instantiated; what it      *)
(* computes is arbitrary.  codeMu, the gates and the slots of httpActive   *)
(* make the steps atomic that are actions here.                            *)
(***************************************************************************)
EXTENDS Naturals, Sequences, FiniteSets

CONSTANTS
    Nil,
    Instances,      \* instances that may be loaded
    Binary,         \* Binary[i]: the digest of i's WASM, Nil if i is declarative
    Permissions,    \* Permissions[i]: what the manifest of i asks for
    Granted,        \* what WithPermissions grants
    Modules,        \* Modules[i]: the stages of the modules in the manifest of i
    Callers,        \* goroutines that render, run widgets, hooks or exports
    RetainedLimit,  \* retainedCodeLimit
    HTTPLimit,      \* capacity of httpActive
    Quota,          \* host calls of one invocation
    MaxGuests,      \* bound on instantiated guests
    MaxCalls,       \* bound on invocations that begin
    MaxEdits        \* bound on edits of the page

VARIABLES
    retained,   \* retainedCode, the least recently used first
    entries,    \* every codeEntry that was ever retained
    compiling,  \* who holds compilationGate
    inst,       \* the instances
    gate,       \* who holds Instance.gate: a caller, "close" or Nil
    guests,     \* guests instantiated so far
    spoilt,     \* guests in which a call was cut off or went wrong
    call,       \* the invocation of each caller
    active,     \* the callers that hold a slot of httpActive
    page,       \* the page the calls are about: its version (updated_at), that of its
                \* metadata, and whether it has the tag that bulk edits add
    calls       \* invocations begun so far

vars == <<retained, entries, compiling, inst, gate, guests, spoilt, call, active, page, calls>>

Entries == 1..Len(entries)
Absent == [phase |-> "absent", lease |-> 0, guest |-> 0]
NoCall == [step |-> "none", on |-> Nil, stage |-> Nil, remaining |-> 0, nested |-> FALSE,
           expected |-> 0, meta |-> 0, tags |-> FALSE]

\* A macro is parsed and rendered by two calls of the stages "parse" and "macro".
RenderStages == {"content-preprocess", "preprocess", "postprocess", "highlight", "macro", "widget"}
OwnStages == {"admin-action", "widget-command", "export", "content-change"}

ASSUME SandboxAssumption ==
    /\ Modules \in [Instances -> SUBSET (RenderStages \cup OwnStages)]
    /\ RetainedLimit \in Nat \ {0} /\ {HTTPLimit, Quota, MaxGuests, MaxCalls, MaxEdits} \subseteq Nat
    /\ IsFiniteSet(Instances)
    /\ {Nil, "close"} \cap (Instances \cup Callers) = {} /\ Nil # "close"
    /\ \A i \in Instances : Binary[i] = Nil => Modules[i] = {}

TypeOK ==
    /\ \A k \in Entries : entries[k].refs \in 0..Cardinality(Instances)
    /\ Len(retained) <= RetainedLimit
    /\ \A k \in Entries : ~entries[k].retired <=> \E n \in DOMAIN retained : retained[n] = k
    /\ compiling \in Instances \cup {Nil}
    /\ \A i \in Instances :
          /\ inst[i].phase \in {"absent", "waiting", "compiling", "initializing", "loaded", "failed", "closed"}
          /\ inst[i].lease \in Entries \cup {0}
          /\ inst[i].guest \in 0..guests
    /\ gate \in [Instances -> Callers \cup {"close", Nil}]
    /\ guests \in 0..MaxGuests /\ spoilt \subseteq 1..guests
    /\ \A c \in Callers : call[c].remaining \in 0..Quota /\ call[c].expected \in 0..page.version
    /\ active \subseteq Callers /\ Cardinality(active) <= HTTPLimit
    /\ page.version \in 1..(MaxEdits + 1) /\ page.meta \in 1..page.version
    /\ page.tags \in BOOLEAN
    /\ calls \in 0..MaxCalls

-----------------------------------------------------------------------------
(* The cache of compiled code *)

Matching(binary) == {n \in DOMAIN retained : entries[retained[n]].binary = binary}
Without(s, n) == SubSeq(s, 1, n - 1) \o SubSeq(s, n + 1, Len(s))

\* Promotes the entry to the most recently used one and counts the lease.
retainedLease(i, n) ==
    LET k == retained[n] IN
    /\ retained' = Append(Without(retained, n), k)
    /\ entries' = [entries EXCEPT ![k].refs = @ + 1]
    /\ inst' = [inst EXCEPT ![i].phase = "initializing", ![i].lease = k]

\* A retired entry is closed by the last lease, a retained one stays.
releaseRetiredCode(k) ==
    entries' = [entries EXCEPT ![k].refs = @ - 1,
                               ![k].open = @ /\ ~(entries[k].retired /\ entries[k].refs = 1)]

\* Mutant of retainCompiledCode: what is evicted is closed whether it is leased or not.
evictAndClose(i) ==
    LET full == Len(retained) >= RetainedLimit
        old == IF full THEN [entries EXCEPT ![Head(retained)].retired = TRUE, ![Head(retained)].open = FALSE]
               ELSE entries
    IN  /\ entries' = Append(old, [binary |-> Binary[i], refs |-> 1, retired |-> FALSE, open |-> TRUE])
        /\ retained' = Append(IF full THEN Tail(retained) ELSE retained, Len(entries) + 1)

\* The least recently used entry is retired, and closed unless it is leased.  (It is
\* closed after codeMu is released, when nobody can find it any more.)
retainCompiledCode(i) ==
    LET full == Len(retained) >= RetainedLimit
        old == IF full
               THEN [entries EXCEPT ![Head(retained)].retired = TRUE,
                                    ![Head(retained)].open = entries[Head(retained)].refs > 0]
               ELSE entries
    IN  /\ entries' = Append(old, [binary |-> Binary[i], refs |-> 1, retired |-> FALSE, open |-> TRUE])
        /\ retained' = Append(IF full THEN Tail(retained) ELSE retained, Len(entries) + 1)

-----------------------------------------------------------------------------
(* Loading an instance *)

CacheOnly == UNCHANGED <<gate, guests, spoilt, call, active, page, calls>>
Phase(i, p) == inst' = [inst EXCEPT ![i].phase = p]

\* Load up to the first look into the cache.  A permission that is not granted ends it;
\* a declarative package has no code.
Load(i) ==
    /\ inst[i].phase = "absent"
    /\ Permissions[i] \subseteq Granted
    /\ \/ Binary[i] = Nil /\ Phase(i, "loaded") /\ UNCHANGED <<retained, entries>>
       \/ Binary[i] # Nil /\ \E n \in Matching(Binary[i]) : retainedLease(i, n)
       \/ /\ Binary[i] # Nil /\ Matching(Binary[i]) = {}
          /\ Phase(i, "waiting") /\ UNCHANGED <<retained, entries>>
    /\ UNCHANGED compiling /\ CacheOnly

\* The compilation gate is taken, unless the load's deadline is first.
AwaitCompilation(i) ==
    /\ inst[i].phase = "waiting"
    /\ \/ compiling = Nil /\ compiling' = i /\ Phase(i, "compiling")
       \/ Phase(i, "failed") /\ UNCHANGED compiling
    /\ UNCHANGED <<retained, entries>> /\ CacheOnly

\* Behind the gate: another runtime may have compiled it meanwhile.  Compiling it, or the
\* validation of its imports and exports, may fail.
compile(i) ==
    /\ inst[i].phase = "compiling"
    /\ compiling' = Nil
    /\ IF Matching(Binary[i]) # {}
       THEN \E n \in Matching(Binary[i]) : retainedLease(i, n)
       ELSE \/ /\ retainCompiledCode(i)
               /\ inst' = [inst EXCEPT ![i].phase = "initializing", ![i].lease = Len(entries) + 1]
            \/ Phase(i, "failed") /\ UNCHANGED <<retained, entries>>
    /\ CacheOnly

\* The first guest, which runs _initialize and tells its API version.
instantiate(i) ==
    /\ guests < MaxGuests
    /\ guests' = guests + 1
    /\ inst' = [inst EXCEPT ![i].phase = "loaded", ![i].guest = guests + 1]

Initialize(i) ==
    /\ inst[i].phase = "initializing"
    /\ \/ /\ instantiate(i) /\ UNCHANGED entries
       \/ /\ releaseRetiredCode(inst[i].lease)
          /\ inst' = [inst EXCEPT ![i].phase = "failed", ![i].lease = 0]
          /\ UNCHANGED guests
    /\ UNCHANGED <<retained, compiling, gate, spoilt, call, active, page, calls>>

\* Close waits for the gate, whatever its context says.
AwaitDrain(i) ==
    /\ inst[i].phase = "loaded" /\ gate[i] = Nil
    /\ gate' = [gate EXCEPT ![i] = "close"]
    /\ UNCHANGED <<retained, entries, compiling, inst, guests, spoilt, call, active, page, calls>>

Close(i) ==
    /\ gate[i] = "close"
    /\ gate' = [gate EXCEPT ![i] = Nil]
    /\ inst' = [inst EXCEPT ![i] = [Absent EXCEPT !.phase = "closed"]]
    /\ IF inst[i].lease = 0 THEN UNCHANGED entries ELSE releaseRetiredCode(inst[i].lease)
    /\ UNCHANGED <<retained, compiling, guests, spoilt, call, active, page, calls>>

-----------------------------------------------------------------------------
(* What a guest may answer *)

Blank == [error |-> FALSE, matched |-> FALSE, invocation |-> FALSE, parts |-> {}, actions |-> {},
          file |-> FALSE, command |-> "none"]

\* One answer of each kind; sizes are valid or not as a whole.
Answers == {Blank, [Blank EXCEPT !.error = TRUE], [Blank EXCEPT !.matched = TRUE, !.invocation = TRUE],
    [Blank EXCEPT !.parts = {"text"}], [Blank EXCEPT !.parts = {"markdown"}],
    [Blank EXCEPT !.parts = {"both"}], [Blank EXCEPT !.parts = {"too many"}],
    [Blank EXCEPT !.actions = {"valid"}], [Blank EXCEPT !.actions = {"valid", "invalid"}],
    [Blank EXCEPT !.file = TRUE], [Blank EXCEPT !.command = "local"], [Blank EXCEPT !.command = "elsewhere"]}

\* A fragment is text, or Markdown the host renders before it parses the page.
validRenderPart(part, stage) == part = "text" \/ (part = "markdown" /\ stage = "preprocess")

validWidgetAction(action, stage) == stage = "widget" /\ action = "valid"

validWidgetCommandResult(r) == r.parts = {} /\ r.actions = {} /\ ~r.file /\ r.command = "local"

validExportResult(r) == r.parts = {} /\ r.actions = {} /\ r.file

emptyRenderResult(r) == r = Blank

validateStageSpecificRenderResult(r, stage) ==
    CASE stage = "widget-command" -> validWidgetCommandResult(r)
      [] stage = "export" -> validExportResult(r)
      [] stage \in {"admin-action", "content-change"} -> emptyRenderResult(r)
      [] OTHER -> r.command = "none" /\ ~r.file

validateGeneralRenderResult(r, stage) ==
    /\ \A part \in r.parts : validRenderPart(part, stage)
    /\ \A action \in r.actions : validWidgetAction(action, stage)

validateRenderResult(r, stage) ==
    /\ ~r.error
    /\ validateStageSpecificRenderResult(r, stage)
    /\ stage \in OwnStages \/ validateGeneralRenderResult(r, stage)

-----------------------------------------------------------------------------
(* The host's side of a call *)

\* What the application offers besides the built-in methods: a command or a hook of the
\* page may change it, a render or a widget may read it.
Capabilities(stage) ==
    IF stage = "widget-command" THEN {"pages.content", "pages.update-content"}
    ELSE {"pages.content"}

PermissionFor ==
    [m \in {"http.do", "pages.content", "pages.update-content", "log"} |->
        CASE m = "http.do" -> {"network"}
          [] m = "pages.content" -> {"pages:content"}
          [] m = "pages.update-content" -> {"pages:write"}
          [] OTHER -> {}]

\* Both the host's policy and the manifest must grant it.
capabilityAllowed(i, m) == PermissionFor[m] \subseteq Granted \cap Permissions[i]

\* The callers inside a guest.
InGuest == {"execute", "http", "update"}
Running(c) == call[c].step \in InGuest
Guest(c) == inst[call[c].on].guest

Step(c, s) == call' = [call EXCEPT ![c].step = s]
InstancesOnly == UNCHANGED <<retained, entries, compiling>>

acquireInvocationGate(c) ==
    /\ call[c].step = "gate" /\ gate[call[c].on] = Nil
    /\ gate' = [gate EXCEPT ![call[c].on] = c]
    /\ Step(c, "ensure")
    /\ InstancesOnly /\ UNCHANGED <<inst, guests, spoilt, active, page, calls>>

\* The call is over: its caller goes on with the page around it, or returns.
Over(c) == IF call[c].nested
           THEN [NoCall EXCEPT !.step = "render"]
           ELSE NoCall

LeaveGate(c) == gate' = [gate EXCEPT ![call[c].on] = Nil]

\* The deadline passes while the call waits for the gate.
GiveUpGate(c) ==
    /\ call[c].step = "gate"
    /\ call' = [call EXCEPT ![c] = Over(c)]
    /\ InstancesOnly /\ UNCHANGED <<gate, inst, guests, spoilt, active, page, calls>>

\* Behind the gate the instance may be closed by now.  A guest that was discarded, or that
\* a deadline closed, is replaced.
ensureInvocationModule(c) ==
    LET i == call[c].on IN
    /\ call[c].step = "ensure"
    /\ \/ /\ inst[i].phase = "loaded" /\ inst[i].guest # 0
          /\ Step(c, "execute")
          /\ UNCHANGED <<gate, inst, guests>>
       \/ /\ inst[i].phase = "loaded" /\ inst[i].lease # 0 /\ inst[i].guest = 0
          /\ instantiate(i)
          /\ Step(c, "execute")
          /\ UNCHANGED gate
       \/ \* closed, without code, or the guest does not start
          /\ inst[i].phase # "loaded" \/ inst[i].guest = 0
          /\ LeaveGate(c)
          /\ call' = [call EXCEPT ![c] = Over(c)]
          /\ UNCHANGED <<inst, guests>>
    /\ InstancesOnly /\ UNCHANGED <<spoilt, active, page, calls>>

\* Mutant of discardInvocationModule: the guest is kept.
keepModule(c) == UNCHANGED inst

discardInvocationModule(c) == inst' = [inst EXCEPT ![call[c].on].guest = 0]

\* A trap, a deadline, memory or an answer that is not valid: the call fails.
FailInvocation(c) ==
    /\ spoilt' = spoilt \cup {Guest(c)}
    /\ discardInvocationModule(c)
    /\ LeaveGate(c)
    /\ active' = active \ {c}
    /\ call' = [call EXCEPT ![c] = Over(c)]
    /\ InstancesOnly /\ UNCHANGED <<guests, page, calls>>

\* At any point inside the guest; a host call in progress returns with its context.
CutOff(c) == Running(c) /\ FailInvocation(c)

\* The guest answers.  Its gate is released before the host renders what the answer holds.
Answered(c, r) ==
    /\ call[c].step = "execute"
    /\ IF validateRenderResult(r, call[c].stage)
       THEN /\ call' = [call EXCEPT ![c] = IF "markdown" \in r.parts /\ ~call[c].nested
                                           THEN [NoCall EXCEPT !.step = "render"] ELSE Over(c)]
            /\ LeaveGate(c)
            /\ InstancesOnly /\ UNCHANGED <<inst, guests, spoilt, active, page, calls>>
       ELSE FailInvocation(c)

-----------------------------------------------------------------------------
(* Callers *)

\* An instance stays reachable for those that acquired it, so that a call may find it
\* closed.  A caller takes another call only from the host's own rendering.
invoke(c, i, stage) ==
    /\ calls < MaxCalls /\ calls' = calls + 1
    /\ inst[i].phase \in {"loaded", "closed"} /\ stage \in Modules[i]
    /\ call[c].step \in {"none", "render"}
    /\ call' = [call EXCEPT ![c] = [NoCall EXCEPT !.step = "gate", !.on = i, !.stage = stage,
                                    !.remaining = Quota, !.nested = call[c].step = "render"]]
    /\ InstancesOnly /\ UNCHANGED <<gate, inst, guests, spoilt, active, page>>

\* The adapters of a manifest's modules.  One that names a capability is left out where the
\* host offers no such capability.
PreprocessContent(c, i, offered) == offered /\ invoke(c, i, "content-preprocess")
Preprocess(c, i) == invoke(c, i, "preprocess") \/ invoke(c, i, "postprocess")
Highlight(c, i) == invoke(c, i, "highlight")
Macro(c, i, offered) == offered /\ invoke(c, i, "macro")
Widget(c, i) == invoke(c, i, "widget")
WidgetCommand(c, i) == invoke(c, i, "widget-command")
RunAdminAction(c, i) == invoke(c, i, "admin-action")
Export(c, i) == invoke(c, i, "export")
Changed(c, i) == invoke(c, i, "content-change")

\* What a render, a view of widgets, a command, an action, an export or a hook invokes.
Contribution(c, i) ==
    \/ \E offered \in BOOLEAN : PreprocessContent(c, i, offered) \/ Macro(c, i, offered)
    \/ Preprocess(c, i) \/ Highlight(c, i) \/ Widget(c, i)
    \/ WidgetCommand(c, i) \/ RunAdminAction(c, i) \/ Export(c, i) \/ Changed(c, i)

\* render has written every fragment, or has failed.
Rendered(c) ==
    /\ call[c].step = "render"
    /\ call' = [call EXCEPT ![c] = NoCall]
    /\ InstancesOnly /\ UNCHANGED <<gate, inst, guests, spoilt, active, page, calls>>

-----------------------------------------------------------------------------
(* Calls back into the host *)

\* A guest's call counts even if it is denied then; one beyond the quota is refused.
authorizeCapabilityCall(c, m) ==
    /\ call[c].step = "execute"
    /\ call[c].remaining > 0

hostCall(c) ==
    /\ \E m \in DOMAIN PermissionFor :
          /\ authorizeCapabilityCall(c, m)
          /\ capabilityAllowed(call[c].on, m) => m \in Capabilities(call[c].stage) \cup {"log", "http.do"}
    /\ call' = [call EXCEPT ![c].remaining = @ - 1]
    /\ InstancesOnly /\ UNCHANGED <<gate, inst, guests, spoilt, active, page, calls>>

\* A request takes a slot or is refused at once.
httpCall(c) ==
    /\ authorizeCapabilityCall(c, "http.do")
    /\ capabilityAllowed(call[c].on, "http.do")
    /\ call' = [call EXCEPT ![c].remaining = @ - 1,
                            ![c].step = IF Cardinality(active) < HTTPLimit THEN "http" ELSE @]
    /\ active' = IF Cardinality(active) < HTTPLimit THEN active \cup {c} ELSE active
    /\ InstancesOnly /\ UNCHANGED <<gate, inst, guests, spoilt, page, calls>>

readPluginHTTPResponse(c) ==
    /\ call[c].step = "http"
    /\ active' = active \ {c}
    /\ Step(c, "execute")
    /\ InstancesOnly /\ UNCHANGED <<gate, inst, guests, spoilt, page, calls>>

\* The guest sends a body it made from the version it expects; the rest of the page is
\* loaded now.
UpdateContent(c, expected) ==
    /\ authorizeCapabilityCall(c, "pages.update-content")
    /\ capabilityAllowed(call[c].on, "pages.update-content")
    /\ "pages.update-content" \in Capabilities(call[c].stage)
    /\ call' = [call EXCEPT ![c].step = "update", ![c].remaining = @ - 1,
                            ![c].expected = expected, ![c].meta = page.meta, ![c].tags = page.tags]
    /\ InstancesOnly /\ UNCHANGED <<gate, inst, guests, spoilt, active, page, calls>>

\* Mutant of SaveContent: the version to compare with is the one that was loaded with the rest.
saveLoaded(c) ==
    /\ call[c].step = "update"
    /\ page.version <= MaxEdits
    /\ page' = [version |-> page.version + 1, meta |-> call[c].meta, tags |-> call[c].tags]
    /\ call' = [call EXCEPT ![c].step = "execute", ![c].expected = 0, ![c].meta = 0,
                            ![c].tags = FALSE]
    /\ InstancesOnly /\ UNCHANGED <<gate, inst, guests, spoilt, active, calls>>

\* Save, which fails on a page that is not the expected one.
SaveContent(c) ==
    /\ call[c].step = "update"
    /\ IF page.version = call[c].expected
       THEN /\ page.version <= MaxEdits
            /\ page' = [version |-> page.version + 1, meta |-> call[c].meta, tags |-> call[c].tags]
       ELSE UNCHANGED page
    /\ call' = [call EXCEPT ![c].step = "execute", ![c].expected = 0, ![c].meta = 0,
                            ![c].tags = FALSE]
    /\ InstancesOnly /\ UNCHANGED <<gate, inst, guests, spoilt, active, calls>>

\* Others change the page.  Only what they do during a command is of interest here.
Commanded == \E c \in Callers : Running(c) /\ call[c].stage = "widget-command"
PageOnly == UNCHANGED <<retained, entries, compiling, inst, gate, guests, spoilt, call, active, calls>>

\* A save of the text, or of a form with all its metadata, tags included.
EditPage(meta, tags) ==
    /\ Commanded /\ page.version <= MaxEdits
    /\ meta \/ tags = page.tags
    /\ page' = [version |-> page.version + 1, meta |-> IF meta THEN page.version + 1 ELSE page.meta,
                tags |-> tags]
    /\ PageOnly

\* A bulk edit of tags leaves the version as it is.  (So do one of groups and a new icon.)
BulkAddPageTag ==
    /\ Commanded
    /\ page' = [page EXCEPT !.tags = TRUE]
    /\ PageOnly

-----------------------------------------------------------------------------

Init ==
    /\ retained = <<>> /\ entries = <<>> /\ compiling = Nil
    /\ inst = [i \in Instances |-> Absent]
    /\ gate = [i \in Instances |-> Nil]
    /\ guests = 0 /\ spoilt = {}
    /\ call = [c \in Callers |-> NoCall]
    /\ active = {}
    /\ page = [version |-> 1, meta |-> 1, tags |-> FALSE]
    /\ calls = 0

Loading(i) == Load(i) \/ AwaitCompilation(i) \/ compile(i) \/ Initialize(i) \/ AwaitDrain(i) \/ Close(i)

Calling(c) ==
    \/ \E i \in Instances : Contribution(c, i)
    \/ acquireInvocationGate(c) \/ GiveUpGate(c) \/ ensureInvocationModule(c)
    \/ \E r \in Answers : Answered(c, r)
    \/ CutOff(c) \/ Rendered(c)
    \/ hostCall(c) \/ httpCall(c) \/ readPluginHTTPResponse(c)
    \/ \E v \in 1..page.version : UpdateContent(c, v)
    \/ SaveContent(c)

Next ==
    \/ \E i \in Instances : Loading(i)
    \/ \E c \in Callers : Calling(c)
    \/ \E meta, tags \in BOOLEAN : EditPage(meta, tags)
    \/ BulkAddPageTag

Spec == Init /\ [][Next]_vars

-----------------------------------------------------------------------------
(* Properties *)

Leasing(k) == {i \in Instances : inst[i].lease = k}

\* Compiled code is closed when nobody can need it any more and not before: every lease is
\* counted (compiledLease), leased code is open however often it was evicted meanwhile, code
\* that is neither retained nor leased is closed, and no binary is retained twice (cache.go).
CompiledCodeIsLeased ==
    /\ \A k \in Entries :
          /\ entries[k].refs = Cardinality(Leasing(k))
          /\ entries[k].open <=> ~entries[k].retired \/ Leasing(k) # {}
    /\ \A m, n \in DOMAIN retained : entries[retained[m]].binary = entries[retained[n]].binary => m = n

\* A guest runs one call, on behalf of the caller that holds its gate, and has not gone
\* wrong in an earlier one; nobody waits for a gate, or renders an answer, while holding
\* another (Instance, invoke, render).
GuestsTakeTurns ==
    \A c \in Callers :
        /\ Running(c) => gate[call[c].on] = c /\ Guest(c) # 0 /\ Guest(c) \notin spoilt
        /\ call[c].step \in {"none", "gate", "render"} => \A i \in Instances : gate[i] # c

\* What a plugin writes replaces the version its guest had in mind, with the metadata of
\* that version, whatever was saved between the guest's reading, the host's and the save
\* (UpdateContent, Save).
UpdateReplacesWhatWasRead ==
    [][\A c \in Callers : call[c].step = "update" /\ call'[c].step = "execute" /\ page' # page =>
          page.version = call[c].expected /\ page'.meta = page.meta]_vars

\* "Metadata is loaded from the current page and preserved by the mutation": all of them,
\* tags included.  It does not hold: a tag that a bulk edit adds between the load and the
\* save is taken away again, since the version it is compared with is the same.
UpdateKeepsMetadata ==
    [][\A c \in Callers : call[c].step = "update" /\ call'[c].step = "execute" /\ page' # page =>
          page'.meta = page.meta /\ page'.tags = page.tags]_vars
=============================================================================
