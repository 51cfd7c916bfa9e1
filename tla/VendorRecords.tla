---------------------------- MODULE VendorRecords ----------------------------
(***************************************************************************)
(* The documents one vendor has filed and the project experience it claims:*)
(* the sub-resource handlers of VendorService, the wholesale replacement by*)
(* its update, and what a clone takes along. Documents of a singleton type *)
(* replace one another; of the other types several are current at a time.  *)
(* A row is deleted by a flag and its number counts ever after. Handlers   *)
(* run one at a time, a transaction is one step.                           *)
(*                                                                         *)
(* Abstracted: one type of either sort stands for all of its sort; dates,  *)
(* URLs, remarks and the values of a project. The vendor's other lists are *)
(* replaced and cloned the same way and have no rule between rows but the  *)
(* one primary contact, which every call asserts on the list it carries.   *)
(*                                                                         *)
(* Bounds: a row is filed once, so DocumentIds and ExperienceIds bound the *)
(* rows there ever are; a replacement carries two documents at most.       *)
(***************************************************************************)
EXTENDS Integers, FiniteSets

CONSTANTS DocumentIds, ExperienceIds

ASSUME RecordsAssumption == IsFiniteSet(DocumentIds)

VARIABLES
  documents,     \* the vendor_documents rows
  experiences,   \* the vendor_project_experiences rows
  vouched        \* the rows that verifyProjectExperience was called for

recordVars == <<documents, experiences, vouched>>

\* VENDOR_SINGLETON_DOCUMENT_TYPES, and the rest.
DocumentTypes == {"singleton", "several"}

Numbers == 0..Cardinality(DocumentIds)

\* An absent row's type and version mean nothing.
DocumentRow == [state: {"absent", "current", "superseded", "deleted"}, documentType: DocumentTypes, version: Numbers]

ExperienceStates == {"absent", "claimed", "verified", "deleted"}

RecordsTypeOK ==
  /\ documents \in [DocumentIds -> DocumentRow]
  /\ experiences \in [ExperienceIds -> ExperienceStates]
  /\ vouched \subseteq ExperienceIds

RecordsInit ==
  /\ documents = [d \in DocumentIds |-> [state |-> "absent", documentType |-> "several", version |-> 0]]
  /\ experiences = [e \in ExperienceIds |-> "absent"]
  /\ vouched = {}

-----------------------------------------------------------------------------
(* Documents.                                                              *)

OfType(docs, type) == {d \in DocumentIds : docs[d].state # "absent" /\ docs[d].documentType = type}

Current(docs, type) == {d \in OfType(docs, type) : docs[d].state = "current"}

\* Mutant: deleted rows do not count.
NextDocumentVersion_Live(docs, type) ==
  CHOOSE n \in 1..Cardinality(DocumentIds) + 1 :
    /\ \A d \in OfType(docs, type) : docs[d].state # "deleted" => docs[d].version < n
    /\ n = 1 \/ \E d \in OfType(docs, type) : docs[d].state # "deleted" /\ docs[d].version = n - 1

\* nextDocumentVersion: over every row of the type, deleted ones too.
NextDocumentVersion(docs, type) ==
  CHOOSE n \in 1..Cardinality(DocumentIds) + 1 :
    /\ \A d \in OfType(docs, type) : docs[d].version < n
    /\ n = 1 \/ \E d \in OfType(docs, type) : docs[d].version = n - 1

\* The row of d that supersedes `previous`.
Supersede(docs, d, previous) ==
  [docs EXCEPT ![previous].state = "superseded",
               ![d] = [state |-> "current", documentType |-> docs[previous].documentType,
                       version |-> docs[previous].version + 1]]

FileBeside(docs, d, type) ==
  [docs EXCEPT ![d] = [state |-> "current", documentType |-> type, version |-> NextDocumentVersion(docs, type)]]

\* appendDocumentRow without a supersedesId. The current row is the one of the
\* highest version, where there is a choice.
Appended(docs, d, type) ==
  IF type = "singleton" /\ Current(docs, type) # {}
  THEN Supersede(docs, d, CHOOSE c \in Current(docs, type) :
                             \A b \in Current(docs, type) : docs[b].version <= docs[c].version)
  ELSE FileBeside(docs, d, type)

\* addDocument.
AddDocument(d, type) ==
  /\ documents[d].state = "absent"
  /\ documents' = Appended(documents, d, type)
  /\ UNCHANGED <<experiences, vouched>>

\* addDocument with the id of the document it supersedes, which must be current.
AddSuccessor(d, previous) ==
  /\ documents[d].state = "absent" /\ documents[previous].state = "current"
  /\ documents' = Supersede(documents, d, previous)
  /\ UNCHANGED <<experiences, vouched>>

RemoveDocument(d) ==
  /\ documents[d].state \in {"current", "superseded"}
  /\ documents' = [documents EXCEPT ![d].state = "deleted"]
  /\ UNCHANGED <<experiences, vouched>>

\* Every live row goes.
Emptied(docs) == [d \in DocumentIds |-> IF docs[d].state = "absent" THEN docs[d] ELSE [docs[d] EXCEPT !.state = "deleted"]]

\* replaceChildren with a list of none, one or two documents, filed in its order.
ReplaceDocuments ==
  /\ \/ documents' = Emptied(documents)
     \/ \E d \in DocumentIds, type \in DocumentTypes :
          /\ documents[d].state = "absent"
          /\ \/ documents' = Appended(Emptied(documents), d, type)
             \/ \E b \in DocumentIds \ {d}, other \in DocumentTypes :
                  /\ documents[b].state = "absent"
                  /\ documents' = Appended(Appended(Emptied(documents), d, type), b, other)
  /\ UNCHANGED <<experiences, vouched>>

-----------------------------------------------------------------------------
(* Project experience.                                                     *)

\* addProjectExperience; isVerified is not taken from the request.
AddProjectExperience(e) ==
  /\ experiences[e] = "absent"
  /\ experiences' = [experiences EXCEPT ![e] = "claimed"]
  /\ UNCHANGED <<documents, vouched>>

VerifyProjectExperience(e) ==
  /\ experiences[e] = "claimed"
  /\ experiences' = [experiences EXCEPT ![e] = "verified"]
  /\ vouched' = vouched \cup {e}
  /\ UNCHANGED documents

RemoveProjectExperience(e) ==
  /\ experiences[e] \in {"claimed", "verified"}
  /\ experiences' = [experiences EXCEPT ![e] = "deleted"]
  /\ UNCHANGED <<documents, vouched>>

\* replaceChildren with a list of experiences, which are claims all over again.
ReplaceExperiences(listed) ==
  /\ \A e \in listed : experiences[e] = "absent"
  /\ experiences' = [e \in ExperienceIds |-> IF e \in listed THEN "claimed"
                                             ELSE IF experiences[e] = "absent" THEN "absent" ELSE "deleted"]
  /\ UNCHANGED <<documents, vouched>>

-----------------------------------------------------------------------------
(* The clone.                                                              *)

\* Mutant: what was confirmed of the source is confirmed of the clone.
ClonedExperience_Kept(state) == IF state = "deleted" THEN "absent" ELSE state

ClonedExperience(state) == IF state \in {"claimed", "verified"} THEN "claimed" ELSE "absent"

\* cloneChildren; from here on these are the records of the clone. Superseded
\* documents come along as such and every document starts over at version 1.
CloneRecords ==
  /\ documents' = [d \in DocumentIds |->
                     IF documents[d].state \in {"current", "superseded"} THEN [documents[d] EXCEPT !.version = 1]
                     ELSE [state |-> "absent", documentType |-> "several", version |-> 0]]
  /\ experiences' = [e \in ExperienceIds |-> ClonedExperience(experiences[e])]
  /\ vouched' = {}

DocumentStep ==
  \/ \E d \in DocumentIds :
       \/ \E type \in DocumentTypes : AddDocument(d, type)
       \/ \E previous \in DocumentIds : AddSuccessor(d, previous)
       \/ RemoveDocument(d)
  \/ ReplaceDocuments

ExperienceStep ==
  \/ \E e \in ExperienceIds : AddProjectExperience(e) \/ VerifyProjectExperience(e) \/ RemoveProjectExperience(e)
  \/ \E listed \in SUBSET ExperienceIds : ReplaceExperiences(listed)

RecordsNext == DocumentStep \/ ExperienceStep \/ CloneRecords

RecordsSpec == RecordsInit /\ [][RecordsNext]_recordVars

-----------------------------------------------------------------------------
(* Properties.                                                             *)

\* However documents were replaced by name, by type, as a whole, removed or cloned:
\* of a singleton type one document at most is current, and no other ever filed has
\* a higher number.
CurrentIsLatest ==
  \A d \in Current(documents, "singleton"), b \in OfType(documents, "singleton") :
    /\ documents[b].version <= documents[d].version
    /\ b # d => documents[b].state # "current"

\* What counts as a confirmed reference was confirmed on this very vendor record:
\* neither a replacement of the list nor a clone carries a confirmation over.
VerifiedIsVouched == \A e \in ExperienceIds : experiences[e] = "verified" => e \in vouched

=============================================================================
