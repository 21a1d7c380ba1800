--------------------------- MODULE PortableArchive ---------------------------
(***************************************************************************)
(* Uploaded images and attachments, the pages that refer to them, and the  *)
(* archives that carry both to another time or place.                      *)
(*                                                                         *)
(* An export reads page after page and file after file in statements of    *)
(* their own, while pages move and files are deleted.  A restore is one    *)
(* transaction of the page namespace that also uploads the files again.    *)
(*                                                                         *)
(* A file is its kind and its number; the numbers of the two kinds are     *)
(* drawn from two sequences and overlap.  A text is the set of references  *)
(* it holds.  Names, types and sizes of files are left out: the archive    *)
(* limit counts the archive's files.                                       *)
(***************************************************************************)
EXTENDS PageReads

CONSTANTS
    Texts,       \* the texts pages start with and authors write
    MaxFiles,    \* bound on the files of a kind
    MaxBytes,    \* the limit of an import
    MaxFileOps   \* bound on uploads, deletions, exports and restores

Kinds == {"media", "attachments"}
File == Kinds \X (1..MaxFiles)

(* How a text refers to a file: by the URL it is served at, by the path it  *)
(* has in an archive, or by a URL that is shown as code.                    *)
Reference == {"url", "relative", "code"} \X File

ASSUME ArchiveAssumption ==
    /\ Texts \subseteq SUBSET Reference
    /\ MaxFiles \in Nat /\ MaxBytes \in Nat /\ MaxFileOps \in Nat
    /\ None \notin [file : File, alone : BOOLEAN] \cup [by : {"user", "administrator"}, data : File]

VARIABLES
    files,    \* images and attachments: who uploaded them, and their bytes
    last,     \* the two sequences
    texts,    \* pages.markdown_content
    deletion, \* the deletion a member has under way
    work,      \* the export or restore an administrator has under way
    shelf,    \* the archive of the last export that succeeded
    fileOps   \* requests for files so far

fileVars == <<files, last, texts, deletion, work, shelf, fileOps>>
archiveVars == <<readVars, fileVars>>

NoArchive == [pages |-> {}, resources |-> <<>>]

NoJob == [step |-> "idle", todo |-> <<>>, need |-> {}, out |-> NoArchive, portable |-> TRUE,
          client |-> None, new |-> <<>>]

-----------------------------------------------------------------------------
(* References *)

(* Destinations in code are no references. *)
Ranges(text) == {r \in text : r[1] # "code"}

ReferencedFiles(text) == {r[2] : r \in {d \in Ranges(text) : d[1] = "url"}}

ImagesOf(text) == {f \in ReferencedFiles(text) : f[1] = "media"}

countListed(f) == \* a mutant: pages in the recycle bin do not count
    Cardinality({i \in Live(db) : \E form \in {"url", "code"} : <<form, f>> \in texts[i]})

(* Every row of pages counts, and code counts too. *)
UsageCount(f) ==
    Cardinality({i \in Ids : db.slug[i] # None /\ \E form \in {"url", "code"} : <<form, f>> \in texts[i]})

(* The bytes that the references of a text show. *)
Showing(stored, text) == {stored[f].data : f \in {g \in ReferencedFiles(text) : stored[g] # None}}

(* Stored URLs become archive paths, and archive paths stored URLs again.   *)
rewriteMarkdown(text) == {IF r[1] = "url" THEN <<"relative", r[2]>> ELSE r : r \in text}

RestoreResourceReferences(text, new) ==
    {IF r[1] = "relative" /\ r[2] \in DOMAIN new THEN <<"url", new[r[2]]>> ELSE r : r \in text}

-----------------------------------------------------------------------------
(* Files *)

FileRequest == fileOps < MaxFileOps /\ fileOps' = fileOps + 1

saveFile(kind, actor) ==
    LET f == <<kind, last[kind] + 1>> IN
    /\ last[kind] < MaxFiles
    /\ last' = [last EXCEPT ![kind] = @ + 1]
    /\ files' = [files EXCEPT ![f] = [by |-> actor, data |-> f]]
    /\ UNCHANGED <<readVars, texts, deletion, work, shelf>>

UploadImage == FileRequest /\ saveFile("media", "user")
UploadAttachment == FileRequest /\ saveFile("attachments", "user")

authorizeMediaDeletion(f, actor) ==
    \/ actor = "administrator"
    \/ files[f].by = actor /\ UsageCount(f) = 0

(* The file is looked up with its uses, and deleted in another statement. *)
DeleteFile(f) ==
    /\ FileRequest
    /\ deletion = None /\ files[f] # None
    /\ authorizeMediaDeletion(f, "user")
    /\ deletion' = [file |-> f, alone |-> TRUE]
    /\ UNCHANGED <<readVars, files, last, texts, work, shelf>>

FinishDeletion ==
    /\ deletion # None
    /\ files' = [files EXCEPT ![deletion.file] = None]
    /\ deletion' = None
    /\ UNCHANGED <<readVars, last, texts, work, shelf, fileOps>>

DeleteAdminAttachment(f) ==
    /\ FileRequest
    /\ files[f] # None /\ authorizeMediaDeletion(f, "administrator")
    /\ files' = [files EXCEPT ![f] = None]
    /\ UNCHANGED <<readVars, last, texts, deletion, work, shelf>>

-----------------------------------------------------------------------------
(* Export *)

Work(new) ==
    /\ work' = new
    /\ UNCHANGED <<readVars, files, last, texts, deletion, fileOps>>

StartExport(paths, portable) ==
    /\ FileRequest
    /\ work = NoJob /\ paths # {}
    /\ work' = [NoJob EXCEPT !.step = "export", !.portable = portable, !.todo = SetToSeq(paths)]
    /\ UNCHANGED <<readVars, files, last, texts, deletion, shelf>>

(* All pages, or the selected ones, which the administrator was shown. *)
ExportPortablePages(paths) == paths \subseteq ListPages /\ StartExport(paths, TRUE)

(* One page as Markdown; with its images when it has any. *)
ExportPageMarkdown(path) ==
    /\ CanView("user", path)
    /\ \E i \in GetPage(db, path) : ImagesOf(texts[i]) # {}
    /\ StartExport({path}, FALSE)

(* The print preview and the PDF: the page is rendered and its images put   *)
(* into the document.                                                       *)
PreviewPageExport(path) == CanView("user", path) /\ StartExport({path}, FALSE)

(* A page that is gone ends the export. *)
WritePage ==
    /\ work.step = "export" /\ work.need = {} /\ work.todo # <<>>
    /\ LET path == Head(work.todo)
           found == GetPage(db, path)
       IN  IF found = {} THEN Work(NoJob)
           ELSE \E i \in found :
                  Work([work EXCEPT
                    !.todo = Tail(@),
                    !.need = IF work.portable THEN ReferencedFiles(texts[i]) ELSE ImagesOf(texts[i]),
                    !.out.pages = @ \cup {[slug |-> path, text |-> rewriteMarkdown(texts[i]),
                                           showed |-> Showing(files, texts[i])]}])
    /\ UNCHANGED shelf

AlreadyWritten(f) == \E k \in DOMAIN work.out.resources : work.out.resources[k].file = f

exportByNumber(f) == \* a mutant: one table for the numbers of both kinds
    IF \E k \in DOMAIN work.out.resources : work.out.resources[k].file[2] = f[2]
    THEN work.out.resources
    ELSE Append(work.out.resources, [section |-> f[1], file |-> f, data |-> files[f].data])

(* Each file once. *)
exportResource(f) ==
    IF AlreadyWritten(f) THEN work.out.resources
    ELSE Append(work.out.resources, [section |-> f[1], file |-> f, data |-> files[f].data])

(* A file that is gone ends the export unless it was written before. *)
WriteResource ==
    /\ work.step = "export"
    /\ \E f \in work.need :
          IF AlreadyWritten(f) \/ files[f] # None
          THEN Work([work EXCEPT !.need = @ \ {f}, !.out.resources = exportResource(f)])
          ELSE Work(NoJob)
    /\ UNCHANGED shelf

FinishExport ==
    /\ work.step = "export" /\ work.need = {} /\ work.todo = <<>>
    /\ shelf' = IF work.portable THEN work.out ELSE shelf
    /\ Work(NoJob)

-----------------------------------------------------------------------------
(* Import *)

Size(archive) == Cardinality(archive.pages) + Len(archive.resources)

readArchiveResources(resources) ==
    /\ \A k \in DOMAIN resources : resources[k].section = resources[k].file[1]
    /\ \A k, l \in DOMAIN resources : resources[k].file = resources[l].file => k = l

readArchivePages(pages) == pages # {} /\ \A p, q \in pages : p.slug = q.slug => p = q

(* The archive is checked as a whole before anything is written. *)
Parse(archive) ==
    /\ Size(archive) <= MaxBytes
    /\ readArchivePages(archive.pages)
    /\ readArchiveResources(archive.resources)

OfKind(resources, kind) == {k \in DOMAIN resources : resources[k].section = kind}

(* The numbers that the sequences give to the files of the archive.         *)
uploaded(resources) ==
    [f \in {resources[k].file : k \in DOMAIN resources} |->
        LET at == CHOOSE k \in DOMAIN resources : resources[k].file = f IN
        <<f[1], last[f[1]] + Cardinality({k \in OfKind(resources, f[1]) : k <= at})>>]

(* The files are uploaded, then the pages are saved, in one transaction. *)
Restore(c) ==
    /\ FileRequest
    /\ work = NoJob /\ shelf # NoArchive /\ Parse(shelf)
    /\ LET grown == [k \in Kinds |-> last[k] + Cardinality(OfKind(shelf.resources, k))] IN
         /\ \A k \in Kinds : grown[k] <= MaxFiles
         /\ last' = grown
    /\ ImportPortablePages(c, {p.slug : p \in shelf.pages}, FALSE)
    /\ work' = [NoJob EXCEPT !.step = "restore", !.client = c, !.new = uploaded(shelf.resources)]
    /\ UNCHANGED <<reader, files, texts, deletion, shelf>>

(* What the commit of the restore publishes, once the pages are saved. *)
RestoreFiles ==
    [f \in File |->
        IF \E g \in DOMAIN work.new : work.new[g] = f
        THEN LET g == CHOOSE g \in DOMAIN work.new : work.new[g] = f
                 k == CHOOSE k \in DOMAIN shelf.resources : shelf.resources[k].file = g
             IN  [by |-> "administrator", data |-> shelf.resources[k].data]
        ELSE files[f]]

RestoredText(d, i) ==
    IF \E p \in shelf.pages : p.slug = d.slug[i]
    THEN RestoreResourceReferences((CHOOSE p \in shelf.pages : p.slug = d.slug[i]).text, work.new)
    ELSE texts[i]

-----------------------------------------------------------------------------
(* Steps of the page namespace as they concern texts *)

Commits(c) == tx[c].step = "commit" /\ tx'[c].step = "invalidate"

SavedBy(c) == {w.id : w \in {v \in Wrote(c) : v.op = "save"}}

PublishRestore(c) ==
    /\ files' = RestoreFiles
    /\ texts' = [i \in Ids |-> IF i \in SavedBy(c) THEN RestoredText(db', i) ELSE texts[i]]
    /\ work' = NoJob

PublishSave(c) ==
    /\ \E text \in Texts : texts' = [i \in Ids |-> IF i \in SavedBy(c) THEN text ELSE texts[i]]
    /\ UNCHANGED <<files, work>>

(* While files are in use there is at most one request of the namespace     *)
(* besides a restore, and no icons and rules change.                        *)
PageRequest ==
    /\ ops = 0
    /\ \/ \E c \in Clients, from \in Sources, to \in Targets :
             MovePage(c, "user", from, to, FALSE) \/ Save(c, "user", from, from, FALSE, {})
       \/ \E c \in Clients, i \in Ids : PermanentlyDeletePage(c, i)

PageStep ==
    /\ fileOps > 0
    /\ \/ PageRequest
       \/ \E c \in Clients :
             ReadMoved(c) \/ savePageRecord(c) \/ WriteTask(c) \/ Commit(c) \/ Rollback(c) \/ InvalidateIcons(c)
       \/ ops = 0 /\ \E i \in Ids : BulkDeletePages({i})
       \/ \E i \in Ids : RestorePage(i)
    /\ OneWriter'
    /\ \/ \E c \in Clients : Commits(c) /\ work.client = c /\ PublishRestore(c)
       \/ \E c \in Clients : Commits(c) /\ work.client # c /\ PublishSave(c)
       \/ /\ \A c \in Clients : ~Commits(c)
          /\ work' = IF work.client # None /\ tx'[work.client].step = "idle" THEN NoJob ELSE work
          /\ UNCHANGED <<files, texts>>
    /\ deletion' = IF deletion # None /\ \E c \in Clients : Commits(c) THEN [deletion EXCEPT !.alone = FALSE] ELSE deletion
    /\ UNCHANGED <<reader, last, shelf, fileOps>>

-----------------------------------------------------------------------------
(* Files are explored apart from what users are shown: there are either no  *)
(* texts and no requests for files, or no readers.                          *)
ArchiveInit ==
    /\ ReadInit
    /\ shelf = NoArchive /\ work = NoJob /\ deletion = None
    /\ last = [k \in Kinds |-> 1]
    /\ files = [f \in File |-> IF f[2] = 1 THEN [by |-> "user", data |-> f] ELSE None]
    /\ \/ fileOps = MaxFileOps + 1 /\ texts = [i \in Ids |-> {}]
       \/ /\ fileOps = 0 /\ texts \in [Ids -> Texts]
          /\ \A i \in Ids : db.slug[i] = None => texts[i] = {}
          /\ \A p \in Paths : db.alias[p] = None

ImageRequest == UploadImage \/ \E f \in File : f[1] = "media" /\ DeleteFile(f)

AttachmentRequest == UploadAttachment \/ \E f \in File : f[1] = "attachments" /\ DeleteFile(f)

FileStep ==
    \/ ImageRequest \/ AttachmentRequest \/ FinishDeletion
    \/ \E f \in File : DeleteAdminAttachment(f)
    \/ \E paths \in SUBSET Paths : ExportPortablePages(paths)
    \/ \E path \in Paths : ExportPageMarkdown(path) \/ PreviewPageExport(path)
    \/ WritePage \/ WriteResource \/ FinishExport
    \/ \E c \in Clients : Restore(c)

ArchiveNext ==
    \/ fileOps > MaxFileOps /\ ReadNext /\ UNCHANGED fileVars
    \/ fileOps <= MaxFileOps /\ (FileStep \/ PageStep)

ArchiveSpec == ArchiveInit /\ [][ArchiveNext]_archiveVars

-----------------------------------------------------------------------------
(* An export that succeeds is an archive the import accepts (up to the size *)
(* limit, which exports do not have), and a restore that commits leaves     *)
(* every page of it with references to all the files the page showed when   *)
(* it was exported, whatever was moved or deleted in between.               *)
ArchivesKeepContent ==
    [][/\ shelf' # shelf /\ Size(shelf') <= MaxBytes => Parse(shelf')
       /\ work.step = "restore" /\ Commits(work.client) =>
             \A p \in shelf.pages : \E i \in Ids :
                 db'.slug[i] = p.slug /\ p.showed \subseteq Showing(files', texts'[i])]_archiveVars

(* The deletion of a member takes no file away from a page, also none in    *)
(* the recycle bin, unless a text changed while the deletion was under way. *)
UsedFilesStay ==
    [][deletion # None /\ deletion' = None /\ deletion.alone =>
          \A i \in Ids : db.slug[i] # None =>
              Showing(files', texts'[i]) = Showing(files, texts[i])]_archiveVars
=============================================================================
