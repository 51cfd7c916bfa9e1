------------------------------- MODULE Material -------------------------------
(***************************************************************************)
(* One material and the register of its documents under the handlers of    *)
(* MaterialService: documents are versioned and never removed, the         *)
(* deprecated URL columns show the current one of each type, and an issued *)
(* purchase order freezes what it was priced against. Requests run one at a*)
(* time, each to its end.                                                  *)
(*                                                                         *)
(* Abstracted: a document is its place in the register, and its file, title*)
(* and dates are left out; everything patchable but the descriptions and   *)
(* isSystem is left out; the category, group and unit a handler looks up   *)
(* are refusals. Inputs are those the DTOs declare.                        *)
(*                                                                         *)
(* createdAt is the number of the INSERT that filed a row: rows of one     *)
(* INSERT share it. purchaseOrderIssuedAt is kept in whole seconds and     *)
(* createdAt in microseconds, so whether it falls before or after the      *)
(* documents filed within that second is left open.                        *)
(*                                                                         *)
(* Bounds: MaxDocuments rows in the register, MaxInputs documents in one   *)
(* request.                                                                *)
(***************************************************************************)
EXTENDS Integers, Sequences, FiniteSets

CONSTANTS
  Types,         \* document types
  Singletons,    \* SINGLETON_DOCUMENT_TYPES
  Columned,      \* types with a deprecated URL column on the material
  Photos,        \* those whose column lists every active document: PHOTO
  Descriptions,  \* values of the short and the long description together
  MaxDocuments,
  MaxInputs

ASSUME TypesAssumption ==
  IsFiniteSet(Types) /\ Singletons \subseteq Types /\ Columned \subseteq Types /\ Photos \subseteq Columned
ASSUME BoundsAssumption == MaxDocuments \in Nat /\ MaxInputs \in Nat

VARIABLES
  material,   \* the materials row
  documents,  \* its material_documents rows, in the order filed
  column      \* column[t]: what the deprecated column of type t shows

vars == <<material, documents, column>>

Statuses == {"ACTIVE", "INACTIVE", "OBSOLETE"}

\* `issuedAt` is the last createdAt that purchaseOrderIssuedAt is not before.
Row == [status: Statuses, isSystem: BOOLEAN, description: Descriptions,
        issued: BOOLEAN, issuedAt: Nat, deleted: BOOLEAN]

\* `supersedes` is the row of supersedesId, or 0.
Document == [type: Types, version: Nat, supersedes: Nat, active: BOOLEAN,
             deleted: BOOLEAN, createdAt: Nat, migrated: BOOLEAN]

\* The URL of a row: that of a migrated row was already in the legacy column.
Legacy == 0
Url(docs, i) == IF docs[i].migrated THEN Legacy ELSE i

TypeOK ==
  /\ material \in Row
  /\ documents \in Seq(Document)
  /\ column \in [Types -> SUBSET Nat]

-----------------------------------------------------------------------------
(* The register: appendDocumentRow, saveDocuments, the deprecated columns. *)

Of(docs, t) == {i \in DOMAIN docs : docs[i].type = t}
Active(docs, t) == {i \in Of(docs, t) : docs[i].active /\ ~docs[i].deleted}

\* Mutant: a document of the very moment of the order is not frozen.
Frozen_Before(d) == material.issued /\ d.createdAt < material.issuedAt

\* isDocumentFrozen: filed before the purchase order was issued.
Frozen(d) == material.issued /\ d.createdAt <= material.issuedAt

\* Mutant: only rows that are not deleted count.
NextVersion_Shown(docs, t) ==
  LET used == {docs[i].version : i \in {j \in Of(docs, t) : ~docs[j].deleted}}
  IN  IF used = {} THEN 1 ELSE 1 + CHOOSE v \in used : \A w \in used : w <= v

\* nextVersionForType: one more than any row of the type ever had.
NextVersion(docs, t) ==
  LET used == {docs[i].version : i \in Of(docs, t)}
  IN  IF used = {} THEN 1 ELSE 1 + CHOOSE v \in used : \A w \in used : w <= v

\* Mutant: an upload that names no row never replaces one.
Replaced_Named(docs, t, named) == {IF named # 0 /\ ~Frozen(docs[named]) THEN named ELSE 0}

\* The row an upload of type t replaces, or 0: the one it names, or for a
\* singleton an active one of the highest version, but never a frozen one.
Replaced(docs, t, named) ==
  LET current == IF named # 0 THEN {named}
                 ELSE IF t \in Singletons /\ Active(docs, t) # {}
                 THEN {i \in Active(docs, t) : \A j \in Active(docs, t) : docs[j].version <= docs[i].version}
                 ELSE {0}
  IN  {IF i # 0 /\ Frozen(docs[i]) THEN 0 ELSE i : i \in current}

\* Mutant: the replaced row stays active.
Filed_Beside(docs, t, old) ==
  Append(docs,
         [type |-> t, version |-> IF old = 0 THEN NextVersion(docs, t) ELSE docs[old].version + 1,
          supersedes |-> old, active |-> TRUE, deleted |-> FALSE,
          createdAt |-> Len(docs) + 1, migrated |-> FALSE])

\* The register once an upload of type t has replaced `old`.
Filed(docs, t, old) ==
  Append([i \in DOMAIN docs |-> IF i = old THEN [docs[i] EXCEPT !.active = FALSE] ELSE docs[i]],
         [type |-> t, version |-> IF old = 0 THEN NextVersion(docs, t) ELSE docs[old].version + 1,
          supersedes |-> old, active |-> TRUE, deleted |-> FALSE,
          createdAt |-> Len(docs) + 1, migrated |-> FALSE])

\* What appendDocumentRow may leave the register as.
Appended(docs, t, named) == {Filed(docs, t, old) : old \in Replaced(docs, t, named)}

\* What filing one more of type t may leave any of these registers as.
AppendedEach(registers, t) == UNION {Appended(docs, t, 0) : docs \in registers}

\* What filing the types of `inputs`, one after another, may leave the register as.
AppendedAll(docs, inputs) ==
  LET after[k \in 0..Len(inputs)] ==
        IF k = 0 THEN {docs} ELSE AppendedEach(after[k - 1], inputs[k])
  IN  after[Len(inputs)]

\* Rows of one INSERT, each a chain of its own.
Batch(inputs, migrated) ==
  [i \in DOMAIN inputs |->
     [type |-> inputs[i], version |-> 1, supersedes |-> 0, active |-> TRUE, deleted |-> FALSE,
      createdAt |-> 1, migrated |-> migrated]]

\* The last of the active documents of a type by createdAt; rows of one INSERT tie.
Latest(docs, t) ==
  {i \in Active(docs, t) : \A j \in Active(docs, t) : docs[j].createdAt <= docs[i].createdAt}

\* What syncLegacyDocumentColumns may write into the column of type t.
Shows(docs, t) ==
  IF t \in Photos THEN {{Url(docs, i) : i \in Active(docs, t)}}
  ELSE IF t \in Columned /\ Active(docs, t) # {} THEN {{Url(docs, i)} : i \in Latest(docs, t)}
  ELSE {{}}

Synced(docs) == {c \in [Types -> UNION {Shows(docs, t) : t \in Types}] : \A t \in Types : c[t] \in Shows(docs, t)}

\* The transaction of a handler that left the register as docs.
Register(docs) ==
  /\ Len(docs) <= MaxDocuments
  /\ documents' = docs
  /\ column' \in Synced(docs)

-----------------------------------------------------------------------------
(* create, clone and materials older than the register.                    *)

Inputs == UNION {[1..n -> Types] : n \in 0..MaxInputs}

\* A material created or cloned with documents, in any status since a clone
\* keeps that of its source; or one whose URLs are still in its columns only,
\* created before the register or cloned from such a material.
Init ==
  /\ \E status \in Statuses, isSystem \in BOOLEAN, description \in Descriptions :
       material = [status |-> status, isSystem |-> isSystem, description |-> description,
                   issued |-> FALSE, issuedAt |-> 0, deleted |-> FALSE]
  /\ \/ \E inputs \in Inputs : /\ documents = Batch(inputs, FALSE)
                               /\ column \in Synced(documents)
     \/ /\ documents = <<>>
        /\ \E filled \in SUBSET Columned : column = [t \in Types |-> IF t \in filled THEN {Legacy} ELSE {}]

-----------------------------------------------------------------------------
(* The documents.                                                          *)

\* addDocument: never refused for the lock; the row it names must be current.
AddDocument(t, named) ==
  /\ ~material.deleted
  /\ named \in {0} \cup Active(documents, t)
  /\ \E docs \in Appended(documents, t, named) : Register(docs)
  /\ UNCHANGED material

\* Mutants: the columns are left as they are; the replaced row is current again.
RemoveDocument_Unsynced(i) ==
  /\ ~material.deleted
  /\ ~documents[i].deleted
  /\ ~Frozen(documents[i])
  /\ documents' = [documents EXCEPT ![i].deleted = TRUE, ![i].active = FALSE]
  /\ UNCHANGED <<material, column>>
RemoveDocument_Restores(i) ==
  /\ ~material.deleted
  /\ ~documents[i].deleted
  /\ ~Frozen(documents[i])
  /\ Register([j \in DOMAIN documents |->
                 IF j = i THEN [documents[j] EXCEPT !.deleted = TRUE, !.active = FALSE]
                 ELSE IF j = documents[i].supersedes THEN [documents[j] EXCEPT !.active = TRUE]
                 ELSE documents[j]])
  /\ UNCHANGED material

\* removeDocument marks the row; what it had replaced stays superseded.
RemoveDocument(i) ==
  /\ ~material.deleted
  /\ ~documents[i].deleted
  /\ ~Frozen(documents[i])
  /\ Register([documents EXCEPT ![i].deleted = TRUE, ![i].active = FALSE])
  /\ UNCHANGED material

\* backfillLegacyDocuments turns the columns of a material without rows into rows.
Backfill ==
  /\ ~material.deleted
  /\ documents = <<>>
  /\ LET filled == {t \in Columned : column[t] # {}}
     IN  /\ filled # {}
         /\ Cardinality(filled) <= MaxDocuments
         /\ \E inputs \in [1..Cardinality(filled) -> filled] :
              /\ \A t \in filled : \E k \in DOMAIN inputs : inputs[k] = t
              /\ documents' = Batch(inputs, TRUE)
  /\ UNCHANGED <<material, column>>

-----------------------------------------------------------------------------
(* The material.                                                           *)

\* Mutant: the descriptions are written whatever the lock.
Edited_Unlocked(description, isSystem) ==
  [material EXCEPT !.description = description, !.isSystem = isSystem]

\* stripPoLockedFields drops the descriptions from the payload.
Edited(description, isSystem) ==
  [material EXCEPT !.description = IF material.issued THEN material.description ELSE description,
                   !.isSystem = isSystem]

\* update, whose documents are filed like uploads that name no row.
Update(description, isSystem, inputs) ==
  /\ ~material.deleted
  /\ material' = Edited(description, isSystem)
  /\ IF inputs = <<>> THEN UNCHANGED <<documents, column>>
     ELSE \E docs \in AppendedAll(documents, inputs) : Register(docs)

\* A row of an import that matches the material by name.
Import(description) ==
  /\ ~material.deleted
  /\ material' = [material EXCEPT !.description = IF material.issued THEN @ ELSE description]
  /\ UNCHANGED <<documents, column>>

\* markPurchaseOrderIssued; a second order changes nothing.
MarkPurchaseOrderIssued ==
  /\ ~material.deleted
  /\ ~material.issued
  /\ \E issuedAt \in 0..MaxDocuments :
       material' = [material EXCEPT !.issued = TRUE, !.issuedAt = issuedAt]
  /\ UNCHANGED <<documents, column>>

Enable ==
  /\ ~material.deleted
  /\ material.status # "ACTIVE"
  /\ material' = [material EXCEPT !.status = "ACTIVE"]
  /\ UNCHANGED <<documents, column>>

Disable ==
  /\ ~material.deleted
  /\ ~material.isSystem
  /\ material.status # "INACTIVE"
  /\ material' = [material EXCEPT !.status = "INACTIVE"]
  /\ UNCHANGED <<documents, column>>

Obsolete ==
  /\ ~material.deleted
  /\ ~material.isSystem
  /\ material.status # "OBSOLETE"
  /\ material' = [material EXCEPT !.status = "OBSOLETE"]
  /\ UNCHANGED <<documents, column>>

\* remove: not a system material, and none an order was issued against.
CanRemove == ~material.deleted /\ ~material.isSystem /\ ~material.issued

Removed == [material EXCEPT !.deleted = TRUE, !.status = "INACTIVE"]

Remove ==
  /\ CanRemove
  /\ material' = Removed
  /\ UNCHANGED <<documents, column>>

-----------------------------------------------------------------------------
Next ==
  \/ \E t \in Types, named \in 0..MaxDocuments : AddDocument(t, named)
  \/ \E i \in DOMAIN documents : RemoveDocument(i)
  \/ Backfill
  \/ \E description \in Descriptions, isSystem \in BOOLEAN, inputs \in Inputs :
       Update(description, isSystem, inputs)
  \/ \E description \in Descriptions : Import(description)
  \/ MarkPurchaseOrderIssued
  \/ Enable
  \/ Disable
  \/ Obsolete
  \/ Remove

Spec == Init /\ [][Next]_vars

-----------------------------------------------------------------------------
(* Properties that hold.                                                   *)

\* Once a material has document rows, its deprecated columns show the current
\* document of each type, whichever handler filed, replaced or deleted one.
ColumnsShowCurrent == documents # <<>> => column \in Synced(documents)

\* A document is replaced at most once, by a later one of its type with the next
\* version number, and is not current from then on.
ChainsAreLinear ==
  \A i \in DOMAIN documents :
    LET old == documents[i].supersedes
    IN  old # 0 => /\ old < i
                   /\ documents[old].type = documents[i].type
                   /\ documents[i].version = documents[old].version + 1
                   /\ ~documents[old].active
                   /\ \A j \in DOMAIN documents : documents[j].supersedes = old => j = i

\* A document filed beside the others of its type takes a version number higher
\* than any of them ever had, those deleted since included.
BesideOthersIsNew ==
  \A i, j \in DOMAIN documents :
    /\ documents[i].supersedes = 0
    /\ documents[i].type = documents[j].type
    /\ documents[j].createdAt < documents[i].createdAt
    => documents[j].version < documents[i].version

\* Rows are only ever added; of a row that is there, no handler changes more than
\* that it is no longer current, or no longer shown, and neither is ever undone.
HistoryStays ==
  [][\A i \in DOMAIN documents :
       /\ i \in DOMAIN documents'
       /\ \A field \in {"type", "version", "supersedes", "createdAt", "migrated"} :
            documents'[i][field] = documents[i][field]
       /\ documents'[i].active => documents[i].active
       /\ documents[i].deleted => documents'[i].deleted]_vars

\* What a purchase order was priced against stays: the descriptions, every
\* document filed before it, and the lock itself, whose material is not deleted.
PricedAgainstStays ==
  [][material.issued =>
       /\ material'.issued /\ material'.issuedAt = material.issuedAt
       /\ material'.description = material.description
       /\ ~material'.deleted
       /\ \A i \in DOMAIN documents :
            documents[i].createdAt <= material.issuedAt => documents'[i] = documents[i]]_vars

\* No upload leaves a singleton type with more current documents than it had,
\* or than one, while no purchase order keeps one of them from being replaced.
SingletonsStaySingle ==
  [][~material.issued =>
       \A t \in Singletons :
         \/ Cardinality(Active(documents', t)) <= 1
         \/ Cardinality(Active(documents', t)) <= Cardinality(Active(documents, t))]_vars

-----------------------------------------------------------------------------
(* What the code says of itself and does not do.                           *)

OnFile(t) == column[t] \cup {Url(documents, i) : i \in Of(documents, t)}

\* "Nothing already filed is discarded": a URL on file, be it in a column or in a
\* row, stays on file through every update and upload.
NothingFiledIsDiscarded == [][\A t \in Types : OnFile(t) \subseteq OnFile(t)']_vars

=============================================================================
