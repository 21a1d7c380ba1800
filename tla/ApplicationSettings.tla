------------------------- MODULE ApplicationSettings -------------------------
(***************************************************************************)
(* What administrators configure for the application and users for         *)
(* themselves: the one row of application_settings with its columns (the   *)
(* registration switch, the toolbar overrides, the PDF service, the logo), *)
(* the rows of pdf_headers, and the preferences of one user.  Every save   *)
(* is computed from an earlier read or from a form that was opened before; *)
(* writers of the row wait for its lock.  Plugins' values share only the   *)
(* encryption key with it: a behaviour changes one of the two.             *)
(***************************************************************************)
EXTENDS PluginSettings

CONSTANTS
    HeaderNames,   \* names of PDF headers as typed
    Reserved,      \* the ones that are refused
    Fold,          \* the name two spellings share
    Contributions, \* toolbar entries and widgets of plugins
    URLs,          \* PDF services
    Override,      \* whether the deployment sets the registration switch
    MaxForms       \* bound on requests

ASSUME ApplicationAssumption == Override \in BOOLEAN /\ MaxForms \in Nat

VARIABLES
    row,     \* application_settings
    rowLock, \* the request that locked it
    headers, \* pdf_headers
    nextId,  \* their sequence
    prefs,   \* user_preferences of the user
    form,    \* requests under way, with what they read or were shown
    export,  \* a PDF export: what it has read
    edits    \* counts the requests

appVars == <<row, rowLock, headers, nextId, prefs, form, export, edits>>
configurationVars == <<valueVars, appVars>>

(* The columns that are modelled, and a user's preferences before any are stored. *)
StoredSettings(registration, toolbar, url, logo) ==
    [registration |-> registration, toolbar |-> toolbar, pdfURL |-> url, logo |-> logo]
NoPreferences == [expanded |-> {}, hidden |-> {}]

NoForm == [step |-> "idle", shown |-> {}, inputs |-> {}, rows |-> {}, url |-> None, gone |-> {}, value |-> None]
NoExport == [step |-> "idle", url |-> None, headers |-> {}]

-----------------------------------------------------------------------------
(* PDF headers: a row as it is stored, and an input as it is submitted     *)

Inputs(ids) == [id : ids, name : HeaderNames, value : {"", "w"}, sensitive : BOOLEAN]

(* A form: nothing, one input for a row shown, or it and a new one. *)
FormsFor(shown) ==
    LET new == [id |-> 0, name |-> CHOOSE n \in HeaderNames \ Reserved : TRUE, value |-> "w", sensitive |-> FALSE] IN
    {{}, {new}} \cup UNION {{{i}, {i, new}} : i \in Inputs({h.id : h \in shown})}

Plain(value) == <<"plain", value>>
decryptPDFHeader(h) == h.value[2]

normalizePDFHeaderName(name) == name \notin Reserved

existingPDFHeader(id, existing) == {h \in existing : h.id = id}

(* What an input stands for: the value typed, or the secret of its row. *)
Resolved(i, existing) ==
    [name |-> i.name, sensitive |-> i.sensitive,
     plain |-> IF i.value = "" /\ \E h \in existing : h.id = i.id /\ h.sensitive
               THEN decryptPDFHeader(CHOOSE h \in existing : h.id = i.id) ELSE i.value]

resolvePDFHeaderInputs(inputs, existing) ==
    IF /\ \A i \in inputs :
            /\ normalizePDFHeaderName(i.name)
            /\ i.id # 0 => existingPDFHeader(i.id, existing) # {}
            /\ Resolved(i, existing).plain # ""
            /\ (i.value = "" /\ i.id # 0 => key)
       /\ \A i, j \in inputs : i # j => Fold[i.name] # Fold[j.name] /\ (i.id # j.id \/ i.id = 0)
    THEN {{Resolved(i, existing) : i \in inputs}} ELSE {}

preparePDFHeadersForStorage(resolved) ==
    IF key \/ \A h \in resolved : ~h.sensitive
    THEN {{[name |-> h.name, sensitive |-> h.sensitive,
            value |-> IF h.sensitive THEN Cipher(h.plain) ELSE Plain(h.plain)] : h \in resolved}}
    ELSE {}

PDFRequestHeaders == {[name |-> h.name, value |-> decryptPDFHeader(h)] : h \in headers}
CanDecrypt == key \/ \A h \in headers : ~h.sensitive

(* A request starts (ApplicationNext has the guard). *)
Open(c, f) ==
    /\ form' = [form EXCEPT ![c] = f]
    /\ edits' = edits + 1

EditPDFSettings(c) ==
    /\ Open(c, [NoForm EXCEPT !.step = "pdf", !.shown = headers])
    /\ UNCHANGED <<row, rowLock, headers, nextId, prefs, export>>

(* The rows of the table are read again, the inputs resolved and encrypted. *)
SavePDFSettings(c, inputs, url) ==
    /\ \E resolved \in resolvePDFHeaderInputs(inputs, headers) :
       \E rows \in preparePDFHeadersForStorage(resolved) :
          form' = [form EXCEPT ![c].step = "save", ![c].inputs = inputs, ![c].rows = rows, ![c].url = url]
    /\ UNCHANGED <<row, rowLock, headers, nextId, prefs, export, edits>>

deleteFirst(c) == \* a mutant: no row is locked before the deletion
    /\ form[c].step = "save"
    /\ form' = [form EXCEPT ![c].step = "delete"]
    /\ UNCHANGED <<row, rowLock, headers, nextId, prefs, export, edits>>

(* UPDATE application_settings: it waits for the row, and keeps it.  Other  *)
(* sessions see the new URL when the transaction commits.                   *)
UpdatePDFURL(c) ==
    /\ form[c].step = "save" /\ rowLock = None
    /\ rowLock' = c
    /\ form' = [form EXCEPT ![c].step = "delete"]
    /\ UNCHANGED <<row, headers, nextId, prefs, export, edits>>

(* DELETE FROM pdf_headers: the rows that are committed. *)
DeletePDFHeaders(c) ==
    /\ form[c].step = "delete"
    /\ form' = [form EXCEPT ![c].step = "insert", ![c].gone = headers]
    /\ UNCHANGED <<row, rowLock, headers, nextId, prefs, export, edits>>

(* The sequence numbers the rows in the order of the form: in some order. *)
Numbered(rows) ==
    CHOOSE f \in [rows -> nextId..(nextId + Cardinality(rows) - 1)] :
        \A a, b \in rows : a # b => f[a] # f[b]

InsertPDFHeaders(c) ==
    /\ form[c].step = "insert"
    /\ LET rows == form[c].rows
           id == Numbered(rows)
       IN  headers' = (headers \ form[c].gone) \cup
                     {[id |-> id[h], name |-> h.name, value |-> h.value, sensitive |-> h.sensitive] : h \in rows}
    /\ nextId' = nextId + Cardinality(form[c].rows)
    /\ row' = [row EXCEPT !.pdfURL = form[c].url]
    /\ rowLock' = None
    /\ form' = [form EXCEPT ![c] = NoForm]
    /\ UNCHANGED <<prefs, export, edits>>

-----------------------------------------------------------------------------
(* Other columns of the row *)

EditApplicationSettings(c, registration) ==
    /\ Open(c, [NoForm EXCEPT !.step = "app",
                   !.value = [registration |-> IF Override THEN row.registration ELSE registration]])
    /\ UNCHANGED <<row, rowLock, headers, nextId, prefs, export>>

SaveApplicationSettings(c) ==
    /\ form[c].step = "app" /\ rowLock = None
    /\ row' = [row EXCEPT !.registration = form[c].value.registration]
    /\ form' = [form EXCEPT ![c] = NoForm]
    /\ UNCHANGED <<rowLock, headers, nextId, prefs, export, edits>>

(* The placements submitted over those read; entries of plugins that are not *)
(* loaded cannot be submitted and are kept.                                  *)
editorToolbarOverridesFromForm(existing, loaded, submitted) ==
    [t \in Contributions |-> IF t \in loaded /\ t \in DOMAIN submitted THEN submitted[t] ELSE existing[t]]

EditEditorToolbar(c, loaded, submitted) ==
    /\ Open(c, [NoForm EXCEPT !.step = "toolbar",
                   !.value = editorToolbarOverridesFromForm(row.toolbar, loaded, submitted)])
    /\ UNCHANGED <<row, rowLock, headers, nextId, prefs, export>>

SaveEditorToolbarOverrides(c) ==
    /\ form[c].step = "toolbar" /\ rowLock = None
    /\ row' = [row EXCEPT !.toolbar = form[c].value]
    /\ form' = [form EXCEPT ![c] = NoForm]
    /\ UNCHANGED <<rowLock, headers, nextId, prefs, export, edits>>

(* The type is that of the name's extension, which the content must confirm; *)
(* an SVG must be passive.                                                   *)
brandLogoContentType(upload) == upload \in {"png", "passive svg"}

SaveBrandLogo(upload) ==
    /\ edits < MaxForms /\ rowLock = None /\ upload # row.logo
    /\ upload # None => brandLogoContentType(upload)
    /\ row' = [row EXCEPT !.logo = upload]
    /\ edits' = edits + 1
    /\ UNCHANGED <<rowLock, headers, nextId, prefs, form, export>>

-----------------------------------------------------------------------------
(* Preferences of the user, from several windows *)

(* Of the widgets of loaded plugins: hidden ones that are disabled or were  *)
(* not presented stay hidden, presented ones are as submitted.              *)
hiddenPluginWidgets(loaded, enabled, current, presented, visible) ==
    {w \in loaded : IF w \in enabled /\ w \in presented THEN w \notin visible ELSE w \in current}

EditPreferences(c, loaded, enabled, presented, visible) ==
    /\ Open(c, [NoForm EXCEPT !.step = "prefs",
                   !.value = [expanded |-> prefs.expanded,
                              hidden |-> hiddenPluginWidgets(loaded, enabled, prefs.hidden, presented, visible)]])
    /\ UNCHANGED <<row, rowLock, headers, nextId, prefs, export>>

SavePreferences(c) ==
    /\ form[c].step = "prefs"
    /\ prefs' = form[c].value
    /\ form' = [form EXCEPT ![c] = NoForm]
    /\ UNCHANGED <<row, rowLock, headers, nextId, export, edits>>

SetExpandedNavigation(expanded) ==
    /\ edits < MaxForms /\ expanded # prefs.expanded
    /\ prefs' = [prefs EXCEPT !.expanded = expanded]
    /\ edits' = edits + 1
    /\ UNCHANGED <<row, rowLock, headers, nextId, form, export>>

-----------------------------------------------------------------------------
(* An export reads the URL, then the page, then the headers; a request that *)
(* fails or is given up leaves nothing, its transaction rolled back.        *)

ExportPagePDF ==
    /\ export = NoExport /\ edits < MaxForms /\ row.pdfURL # None
    /\ export' = [NoExport EXCEPT !.step = "headers", !.url = row.pdfURL]
    /\ edits' = edits + 1
    /\ UNCHANGED <<row, rowLock, headers, nextId, prefs, form>>

LoadPDFHeaders ==
    /\ export.step = "headers"
    /\ export' = IF CanDecrypt THEN [export EXCEPT !.step = "request", !.headers = PDFRequestHeaders] ELSE NoExport
    /\ UNCHANGED <<row, rowLock, headers, nextId, prefs, form, edits>>

Render ==
    /\ export.step = "request"
    /\ export' = NoExport
    /\ UNCHANGED <<row, rowLock, headers, nextId, prefs, form, edits>>

GiveUp(c) ==
    /\ form[c] # NoForm
    /\ form' = [form EXCEPT ![c] = NoForm]
    /\ rowLock' = IF rowLock = c THEN None ELSE rowLock
    /\ UNCHANGED <<row, headers, nextId, prefs, export, edits>>

-----------------------------------------------------------------------------
ApplicationInit ==
    /\ row = StoredSettings(FALSE, [t \in Contributions |-> "default"], None, None)
    /\ rowLock = None
    /\ headers \in {{}, {[id |-> 1, name |-> CHOOSE n \in HeaderNames \ Reserved : TRUE,
                          value |-> IF key THEN Cipher("v") ELSE Plain("v"), sensitive |-> key]}}
    /\ nextId = 2
    /\ prefs = NoPreferences
    /\ form = [c \in Requests |-> NoForm]
    /\ export = NoExport
    /\ edits = 0

ApplicationNext ==
    \/ \E c \in Requests :
          \/ /\ form[c] = NoForm /\ edits < MaxForms
             /\ \/ EditPDFSettings(c)
                \/ \E b \in BOOLEAN : EditApplicationSettings(c, b)
                \/ \E t \in Contributions, loaded \in SUBSET Contributions, p \in {"default", "moved"} :
                      EditEditorToolbar(c, loaded, [u \in {t} |-> p])
                \/ \E loaded, visible \in SUBSET Contributions : \E enabled, presented \in SUBSET loaded :
                      EditPreferences(c, loaded, enabled, presented, visible)
          \/ /\ form[c].step = "pdf"
             /\ \E inputs \in FormsFor(form[c].shown), url \in URLs : SavePDFSettings(c, inputs, url)
          \/ UpdatePDFURL(c) \/ DeletePDFHeaders(c) \/ InsertPDFHeaders(c)
          \/ SaveApplicationSettings(c) \/ SaveEditorToolbarOverrides(c) \/ SavePreferences(c)
          \/ GiveUp(c)
    \/ \E upload \in {None, "png", "passive svg", "active svg"} : SaveBrandLogo(upload)
    \/ \E expanded \in SUBSET Contributions : SetExpandedNavigation(expanded)
    \/ ExportPagePDF \/ LoadPDFHeaders \/ Render

ConfigurationInit == ValuesInit /\ ApplicationInit

ConfigurationNext ==
    \/ edits = 0 /\ ValuesNext /\ UNCHANGED appVars
    \/ saves = 0 /\ ApplicationNext /\ UNCHANGED valueVars

ConfigurationSpec == ConfigurationInit /\ [][ConfigurationNext]_configurationVars

-----------------------------------------------------------------------------
(* Whenever the headers or the URL of the PDF service change they are those *)
(* of one form ("updates ... atomically"): every header is as typed, a      *)
(* blank secret that of the row its administrator was shown, however many   *)
(* saves came between, and no row of another form is left among them.       *)
PDFSettingsAreOneForm ==
    [][<<headers, row.pdfURL>>' # <<headers, row.pdfURL>> =>
          \E c \in Requests :
             /\ form[c].step = "insert"
             /\ row'.pdfURL = form[c].url
             /\ Cardinality(headers') = Cardinality(form[c].inputs)
             /\ {[name |-> h.name, sensitive |-> h.sensitive, plain |-> decryptPDFHeader(h)] : h \in headers'}
                  = {Resolved(i, form[c].shown) : i \in form[c].inputs}]_configurationVars

(* An export sends the headers that were saved with its URL.  It does not   *)
(* hold: they are read by two statements with the page in between.          *)
ExportUsesOneConfiguration ==
    export.step = "request" => export.url = row.pdfURL \/ export.headers # PDFRequestHeaders

(* A save changes the placements it submitted and no other.  It does not    *)
(* hold: all of them are written, as they were read before.                 *)
OtherPlacementsStay ==
    [][Cardinality({t \in Contributions : row'.toolbar[t] # row.toolbar[t]}) <= 1]_configurationVars

(* Saving the preferences keeps the folders the user has expanded.  It does *)
(* not hold: the ones read before are written back.                         *)
ExpandedFoldersStay ==
    [][\A c \in Requests : form[c].step = "prefs" => prefs'.expanded = prefs.expanded]_configurationVars
=============================================================================
