-------------------------- MODULE OrganizationFiles --------------------------
(***************************************************************************)
(* The documents of an organization and the files behind them. A file is   *)
(* stored when it is picked in the profile form (uploadDocumentFile); the  *)
(* rows are written when the form is saved (updateProfile, syncDocuments), *)
(* row by row and in no transaction, and only then are the files deleted   *)
(* that the form no longer shows. A save may stop between two rows, and    *)
(* deleteFile may fail without anybody being told.                         *)
(*                                                                         *)
(* Abstracted: a document is the URL of its file. Every upload has a URL of*)
(* its own (randomUUID). Saves run one after the other.                    *)
(***************************************************************************)
EXTENDS Naturals, FiniteSets

CONSTANTS
  Papers,       \* ids of organization_documents rows
  Urls          \* URLs under the organization's folder

ASSUME UrlsAssumption == Urls \cap {"absent", "deleted"} = {}

VARIABLES
  papers,       \* papers[p]: the URL of the row if it is there
  bucket,       \* the stored files
  uploaded,     \* history: the URLs uploadFile has returned
  relisted      \* history: URLs a form listed that were neither new nor the row's own

fileVars == <<papers, bucket, uploaded, relisted>>

PaperRow == Urls \cup {"absent", "deleted"}

FilesTypeOK ==
  /\ papers \in [Papers -> PaperRow]
  /\ bucket \subseteq uploaded
  /\ uploaded \subseteq Urls
  /\ relisted \subseteq Urls

FilesInit ==
  /\ papers = [p \in Papers |-> "absent"]
  /\ bucket = {}
  /\ uploaded = {}
  /\ relisted = {}

LivePapers == {p \in Papers : papers[p] \in Urls}

\* uploadFile; what is uploaded and never saved stays stored.
UploadFile(u) ==
  /\ u \notin uploaded
  /\ bucket' = bucket \cup {u}
  /\ uploaded' = uploaded \cup {u}
  /\ UNCHANGED <<papers, relisted>>

-----------------------------------------------------------------------------
(* Saving the form.                                                        *)

\* What a form may list: live rows by their id, and documents without one, which
\* get an id nobody has.
Forms == UNION {[S -> uploaded] : S \in SUBSET {p \in Papers : papers[p] # "deleted"}}

\* The rows after the documents of `done` are saved and those of `dropped` deleted.
Saved(form, done, dropped) ==
  [p \in Papers |-> IF p \in done THEN form[p] ELSE IF p \in dropped THEN "deleted" ELSE papers[p]]

Dropped(form) == LivePapers \ DOMAIN form

\* orphanedUrls: of the rows that got another file or were deleted.
Orphaned(form) ==
  {papers[p] : p \in Dropped(form) \cup {q \in DOMAIN form \cap LivePapers : form[q] # papers[q]}}

\* The files a form lists for a document that has another, though they are some other
\* document's or are not stored any more.
Relisted(form) ==
  {form[p] : p \in {q \in DOMAIN form :
     /\ form[q] # papers[q]
     /\ \/ form[q] \notin bucket
        \/ \E o \in LivePapers : papers[o] = form[q]
        \/ \E o \in DOMAIN form \ {q} : form[o] = form[q]}}

\* Mutant: a file goes as soon as its row is looked at.
SyncStops_Eager(form) ==
  \E done \in SUBSET DOMAIN form :
    /\ papers' = Saved(form, done, {})
    /\ bucket' = bucket \ Orphaned(form)
    /\ relisted' = relisted \cup Relisted(form)
    /\ UNCHANGED uploaded

\* syncDocuments stops at a row: an unknown id, or a write that fails. What was
\* saved before stays, and no file is deleted.
SyncStops(form) ==
  \E done \in SUBSET DOMAIN form, dropped \in SUBSET Dropped(form) :
    /\ dropped # {} => done = DOMAIN form
    /\ papers' = Saved(form, done, dropped)
    /\ relisted' = relisted \cup Relisted(form)
    /\ UNCHANGED <<bucket, uploaded>>

\* syncDocuments to its end; deleteFile gives no error when it fails.
SyncDocuments(form) ==
  \E failed \in SUBSET Orphaned(form) :
    /\ papers' = Saved(form, DOMAIN form, Dropped(form))
    /\ bucket' = bucket \ (Orphaned(form) \ failed)
    /\ relisted' = relisted \cup Relisted(form)
    /\ UNCHANGED uploaded

FilesNext ==
  \/ \E u \in Urls : UploadFile(u)
  \/ \E form \in Forms : SyncStops(form)
  \/ \E form \in Forms : SyncDocuments(form)

FilesSpec == FilesInit /\ [][FilesNext]_fileVars

-----------------------------------------------------------------------------
(* Property.                                                               *)

\* A failure never loses a file that is still referenced: whatever was replaced or
\* cut short, the file of a listed document is stored. The exception is a form that
\* lists the file of one row under another, as when two rows are exchanged:
\* orphanedUrls does not look whether another row still has the URL
\* (organization.service.ts, syncDocuments).
FilesAreKept == \A p \in LivePapers : papers[p] \in bucket \cup relisted

=============================================================================
