-------------------------- MODULE RequisitionSheet --------------------------
(***************************************************************************)
(* What is on the sheet of a material requisition: its lines and covering  *)
(* document, as create and update of MaterialRequisitionService write them,*)
(* and the four sources a requester picks materials from: the material     *)
(* master, the requisitions of a project, those of other projects, and an  *)
(* uploaded bill of materials. A source is read long before the sheet is   *)
(* saved, and by other rules than those the sheet is saved under.          *)
(*                                                                         *)
(* Abstracted: a quantity is zero or not, and a file is what its code and  *)
(* quantity columns hold. Every sheet has a project of its own, so that    *)
(* another sheet stands for another project. The checklists are replaced   *)
(* like the lines and left out, and who may do what is in Requisition.     *)
(*                                                                         *)
(* Bound: MaxEntries, the rows of a request or of a file.                  *)
(***************************************************************************)
EXTENDS Naturals, Sequences, FiniteSets

CONSTANTS
  Items,        \* materials
  Unlisted,     \* a code or an id the organization's material master does not have
  Sheets,       \* requisitions
  MaxEntries

ASSUME SheetAssumption == Unlisted \notin Items /\ MaxEntries \in Nat

VARIABLES
  stock,        \* stock[m]: the material's status, "DELETED" if it is deleted
  sheets        \* sheets[s]: the requisition's row and the rows below it

sheetVars == <<stock, sheets>>

\* "INACTIVE" stands for obsolete, too.
Stock == {"ACTIVE", "INACTIVE", "DELETED"}

\* A list as the request or the file holds it: materials, some with a quantity.
Entry == [material: Items \cup {Unlisted}, qty: {0, 1}]
Entries == UNION {[1..n -> Entry] : n \in 0..MaxEntries}

\* "SUBMITTED" stands for the statuses from under review to approved, "SHELVED" for
\* rejected and disabled, "ENDED" for cancelled, obsolete and deleted; "NONE" is not
\* created yet.
Sheet == [status: {"NONE", "DRAFT", "SUBMITTED", "RETURNED", "SHELVED", "ENDED"},
          lines: Seq(Items), covering: Nat]

NoSheet == [status |-> "NONE", lines |-> << >>, covering |-> 0]

\* NOT_A_SOURCE_STATUSES are the others.
SourceStatuses == {"DRAFT", "SUBMITTED", "RETURNED"}

SheetTypeOK ==
  /\ stock \in [Items -> Stock]
  /\ sheets \in [Sheets -> Sheet]

SheetInit ==
  /\ stock = [m \in Items |-> "ACTIVE"]
  /\ sheets = [s \in Sheets |-> NoSheet]

-----------------------------------------------------------------------------
(* What a request may put on a sheet.                                      *)

Distinct(s) == \A i, j \in DOMAIN s : s[i] = s[j] => i = j

Active(m) == m \in Items /\ stock[m] = "ACTIVE"

\* The entries of a list that stand at the given places, in their order.
Picked(es, places) ==
  LET nth(k) == CHOOSE i \in places : Cardinality({j \in places : j <= i}) = k
  IN [k \in 1..Cardinality(places) |-> es[nth(k)]]

\* Lines without a quantity are dropped.
Requested(es) == Picked(es, {i \in DOMAIN es : es[i].qty > 0})
MaterialsOf(es) == [i \in DOMAIN es |-> es[i].material]

\* Mutant: a material may be listed twice.
LinesAccepted_Twice(es) ==
  \A i \in DOMAIN Requested(es) : Active(Requested(es)[i].material)

\* resolveLines throws unless each material is listed once, is there and is active.
LinesAccepted(es) ==
  /\ Distinct(MaterialsOf(Requested(es)))
  /\ \A i \in DOMAIN Requested(es) : Active(Requested(es)[i].material)

\* The lists of lines a request can leave on a sheet.
LineLists == {MaterialsOf(Requested(es)) : es \in {e \in Entries : LinesAccepted(e)}}

\* resolveDocuments: a later covering document replaces an earlier one.
Covering(sent) == IF sent > 0 THEN 1 ELSE 0

\* Lines and documents are replaced as a set, each only when sent. A
\* list that is not sent stays, even when a new one like it would be refused.
Written(sheet) ==
  {[sheet EXCEPT !.lines = lns, !.covering = cov] :
     lns \in LineLists \cup {sheet.lines},
     cov \in {Covering(sent) : sent \in 0..2} \cup {sheet.covering}}

Complete(sheet) == sheet.lines # << >>

-----------------------------------------------------------------------------
(* The sources.                                                            *)

\* searchMaterials: every active material.
FromMaster == {m \in Items : Active(m)}

\* Mutant: the lines of a project, whatever has become of their materials.
FromProject_AnyStatus(s) ==
  {m \in Items : /\ sheets[s].status \in SourceStatuses
                 /\ \E i \in DOMAIN sheets[s].lines : sheets[s].lines[i] = m}

\* getProjectItems: what was requisitioned on the project, by requisitions that
\* were not dropped, and is still active.
FromProject(s) ==
  {m \in Items : /\ sheets[s].status \in SourceStatuses
                 /\ \E i \in DOMAIN sheets[s].lines : sheets[s].lines[i] = m
                 /\ Active(m)}

\* getSourceProjects: the other projects with something requisitioned on them.
SourceProjects(s) ==
  {o \in Sheets \ {s} : sheets[o].status \in SourceStatuses /\ sheets[o].lines # << >>}

Usable(e) == e.qty > 0 /\ Active(e.material)

\* Mutant: a material on several rows is offered on several lines.
BomLines_Unmerged(es) == Picked(es, {i \in DOMAIN es : Usable(es[i])})

\* previewBom: the rows whose code is an active material's; rows of one material
\* become one line, where the first of them stands.
BomLines(es) ==
  Picked(es, {i \in DOMAIN es : /\ Usable(es[i])
                               /\ \A j \in 1..(i - 1) :
                                    Usable(es[j]) => es[j].material # es[i].material})

-----------------------------------------------------------------------------
(* The handlers.                                                           *)

\* create, submitted in the same request or not.
CreateSheet(s) ==
  /\ sheets[s].status = "NONE"
  /\ \E new \in Written(NoSheet) : \E submit \in BOOLEAN :
       /\ submit => Complete(new)
       /\ sheets' = [sheets EXCEPT ![s] = [new EXCEPT !.status = IF submit THEN "SUBMITTED" ELSE "DRAFT"]]
  /\ UNCHANGED stock

\* update, with a submission or not; a submitted sheet has to stay complete.
UpdateSheet(s) ==
  /\ sheets[s].status \in SourceStatuses
  /\ \E new \in Written(sheets[s]) : \E submit \in BOOLEAN :
       /\ submit \/ sheets[s].status = "SUBMITTED" => Complete(new)
       /\ sheets' = [sheets EXCEPT ![s] = [new EXCEPT !.status = IF submit THEN "SUBMITTED" ELSE @]]
  /\ UNCHANGED stock

\* submit, without an edit: the lines are counted and not looked at again.
SubmitSheet(s) ==
  /\ sheets[s].status \in {"DRAFT", "RETURNED"}
  /\ Complete(sheets[s])
  /\ sheets' = [sheets EXCEPT ![s].status = "SUBMITTED"]
  /\ UNCHANGED stock

\* review, approve, changeStatus, remove: where a sheet goes without an edit. A
\* shelved requisition returns to review as it was.
MoveSheet(s) ==
  /\ \E to \in CASE sheets[s].status = "SUBMITTED" -> {"RETURNED", "SHELVED", "ENDED"}
                 [] sheets[s].status = "RETURNED" -> {"SHELVED", "ENDED"}
                 [] sheets[s].status = "DRAFT" -> {"ENDED"}
                 [] sheets[s].status = "SHELVED" -> {"SUBMITTED", "ENDED"}
                 [] OTHER -> {} :
       sheets' = [sheets EXCEPT ![s].status = to]
  /\ UNCHANGED stock

\* Material: enable, disable, obsolete; remove is for good.
StockChanges(m) ==
  /\ stock[m] # "DELETED"
  /\ \E st \in Stock \ {stock[m]} : stock' = [stock EXCEPT ![m] = st]
  /\ UNCHANGED sheets

SheetNext ==
  \/ \E s \in Sheets : CreateSheet(s)
  \/ \E s \in Sheets : UpdateSheet(s)
  \/ \E s \in Sheets : SubmitSheet(s)
  \/ \E s \in Sheets : MoveSheet(s)
  \/ \E m \in Items : StockChanges(m)

SheetSpec == SheetInit /\ [][SheetNext]_sheetVars

-----------------------------------------------------------------------------
(* Properties.                                                             *)

\* What a source offers now, a save accepts now: from the master, from any source
\* project, and the whole of any file as one list (searchMaterials, getProjectItems
\* and previewBom against resolveLines).
OffersAreAccepted ==
  /\ \A m \in FromMaster : LinesAccepted(<<[material |-> m, qty |-> 1]>>)
  /\ \A s \in Sheets, m \in Items :
       (\E o \in SourceProjects(s) \cup {s} : m \in FromProject(o))
         => LinesAccepted(<<[material |-> m, qty |-> 1]>>)
  /\ \A es \in Entries : LinesAccepted(BomLines(es))

\* Whatever was replaced, kept or copied, no sheet lists a material twice or has
\* two covering documents (resolveLines, resolveDocuments, replaceChildren).
ListedOnce == \A s \in Sheets : Distinct(sheets[s].lines) /\ sheets[s].covering <= 1

=============================================================================
