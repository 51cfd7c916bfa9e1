--------------------------- MODULE RequisitionDesk ---------------------------
(***************************************************************************)
(* What people are shown of a requisition and what they may then do. Lists *)
(* (my reviews, open projects), pickers (participants, project managers,   *)
(* users of a project), permissions and notices are each computed by a     *)
(* query of its own; the handlers they lead to check again, in other words:*)
(* a database condition here, a chain of exceptions there. Meanwhile roles,*)
(* accounts and assignments change under the requisition.                  *)
(*                                                                         *)
(* Abstracted: a requisition has one list of participants, who decide while*)
(* it waits, and everything else it needs to be submitted; rounds and the  *)
(* two lists are in Requisition, the mapping of users in Assignments.      *)
(*                                                                         *)
(* Bound: Movable, the people whose accounts change.                       *)
(***************************************************************************)
EXTENDS FiniteSets

CONSTANTS
  Persons,       \* users of the organization
  Movable,       \* those whose role or account changes
  Founder        \* who created the project

ASSUME DeskAssumption == Movable \subseteq Persons /\ Founder \in Persons

VARIABLES
  accounts,      \* accounts[u]: role, is_internal, and whether active or deleted
  project,       \* the project's status, manager and assigned users
  paper          \* the requisition

deskVars == <<accounts, project, paper>>

\* "ADMIN" stands for the roles of UNRESTRICTED_PROJECT_ROLES, "WRITER" for the other
\* REQUISITION_WRITER_ROLES, "READER" for the other REQUISITION_READER_ROLES.
WriterRoles == {"ADMIN", "WRITER"}
ReaderRoles == WriterRoles \cup {"READER"}
InternalRoles == ReaderRoles \cup {"USER"}
Account == [role: InternalRoles \cup {"EXTERNAL"}, internal: BOOLEAN,
            state: {"active", "inactive", "deleted"}]

NoManager == "none"
ProjectFile == [open: BOOLEAN, manager: Persons \cup {NoManager}, assigned: SUBSET Persons]

\* "WAITING" is under review and reviewed; "ENDED" is approved and all that is not edited.
\* marks: who takes part, and has decided or not.
Marked == {"none", "pending", "decided"}
Paper == [status: {"NONE", "DRAFT", "WAITING", "RETURNED", "APPROVED", "ENDED", "DELETED"},
          locked: BOOLEAN, by: Persons, marks: [Persons -> Marked]]

DeskTypeOK ==
  /\ accounts \in [Persons -> Account]
  /\ project \in ProjectFile
  /\ paper \in Paper

DeskInit ==
  /\ accounts = [u \in Persons |-> [role |-> "WRITER", internal |-> TRUE, state |-> "active"]]
  /\ project = [open |-> TRUE, manager |-> NoManager, assigned |-> {}]
  /\ paper = [status |-> "NONE", locked |-> FALSE, by |-> Founder,
              marks |-> [u \in Persons |-> "none"]]

-----------------------------------------------------------------------------
(* What the handlers check.                                                *)

\* JwtStrategy lets everybody in who is not deleted; the routes name roles.
Enters(u, roles) == accounts[u].state # "deleted" /\ accounts[u].role \in roles

Member(u) == paper.marks[u] # "none"

\* assertCanRead of findOne.
MayRead(u) == accounts[u].role \in ReaderRoles \/ paper.by = u \/ Member(u)
MayOpen(u) == Enters(u, InternalRoles) /\ paper.status \notin {"NONE", "DELETED"} /\ MayRead(u)

Manages(u) == accounts[u].role \in WriterRoles \/ paper.by = u

\* decide.
MayDecide(u) ==
  /\ Enters(u, InternalRoles)
  /\ paper.status = "WAITING" /\ ~paper.locked
  /\ paper.marks[u] = "pending"

\* canSee of one project; its creator is the Founder.
Sees(u) == accounts[u].role = "ADMIN" \/ u \in {project.manager, Founder} \cup project.assigned

\* assertInternalUsers, of people who are added.
TakesPart(u) ==
  /\ accounts[u].state = "active" /\ accounts[u].internal
  /\ accounts[u].role # "EXTERNAL"

\* assertUsersEligible and assertManagerUsable.
Eligible(u) == accounts[u].state = "active" /\ accounts[u].internal

\* assertProjectUsable with the caller, as create calls it.
MayCreateOn(u) == Enters(u, WriterRoles) /\ Sees(u) /\ project.open

-----------------------------------------------------------------------------
(* What people are shown.                                                  *)

\* Mutant: whoever is assigned is shown the requisition, sent or not.
MyWork_Unsent(u) == paper.status \in {"DRAFT", "WAITING"} /\ paper.marks[u] = "pending"

\* findAssigned, of what still waits for u.
MyWork(u) == paper.status = "WAITING" /\ paper.marks[u] = "pending"

\* findAssigned, of all: drafts have not reached anyone.
MyPapers(u) == paper.status \notin {"NONE", "DRAFT", "DELETED"} /\ Member(u)

\* permissionsFor: canReview and canApprove, canSubmit.
ShownDecide(u) == paper.status = "WAITING" /\ ~paper.locked /\ paper.marks[u] = "pending"
ShownSubmit(u) == paper.status \in {"DRAFT", "RETURNED"} /\ ~paper.locked /\ Manages(u)

\* Mutant: roles are not looked at.
UserOptions_AnyRole == {u \in Persons : accounts[u].internal /\ accounts[u].state = "active"}

\* userOptions: the picker of reviewers and approvers.
UserOptions ==
  {u \in Persons : accounts[u].internal /\ accounts[u].state = "active" /\ accounts[u].role # "EXTERNAL"}

\* eligibleUsers and findProjectManagers.
EligibleUsers == {u \in Persons : accounts[u].internal /\ accounts[u].state = "active"}

\* findActive and myProjects through scope: is the project in u's list of open ones?
ListsProject(u) ==
  project.open /\ (accounts[u].role = "ADMIN" \/ project.manager = u \/ Founder = u \/ u \in project.assigned)

\* concernedUsers: whose notices lead to the requisition.
ConcernedUsers == {paper.by} \cup {u \in Persons : Member(u)}

-----------------------------------------------------------------------------
(* People and the project.                                                 *)

\* updateUser, toggleStatus, deleteUser.
AccountChanges(u) ==
  /\ accounts[u].state # "deleted"
  /\ \/ \E r \in InternalRoles \cup {"EXTERNAL"} : accounts' = [accounts EXCEPT ![u].role = r]
     \/ \E i \in BOOLEAN : accounts' = [accounts EXCEPT ![u].internal = i]
     \/ \E s \in {"active", "inactive", "deleted"} : accounts' = [accounts EXCEPT ![u].state = s]
  /\ UNCHANGED <<project, paper>>

\* Project update and updateStatus; the assignment of users and its end.
ProjectChanges ==
  /\ \/ project' = [project EXCEPT !.open = ~@]
     \/ \E u \in Persons : Eligible(u) /\ project' = [project EXCEPT !.manager = u]
     \/ project' = [project EXCEPT !.manager = NoManager]
     \/ \E u \in Persons : /\ Eligible(u) /\ project.open
                           /\ project' = [project EXCEPT !.assigned = @ \cup {u}]
     \/ \E u \in project.assigned : project' = [project EXCEPT !.assigned = @ \ {u}]
  /\ UNCHANGED <<accounts, paper>>

-----------------------------------------------------------------------------
(* The requisition.                                                        *)

\* The lists replaceParticipants accepts: who is new has to be internal and active.
ListAccepted(want) == \A u \in want : Member(u) \/ TakesPart(u)

Listed(want) ==
  [u \in Persons |-> IF u \notin want THEN "none" ELSE IF Member(u) THEN paper.marks[u] ELSE "pending"]

CreatePaper(u) ==
  /\ paper.status = "NONE"
  /\ MayCreateOn(u)
  /\ \E want \in SUBSET Persons :
       /\ ListAccepted(want)
       /\ paper' = [paper EXCEPT !.status = "DRAFT", !.by = u, !.marks = Listed(want)]
  /\ UNCHANGED <<accounts, project>>

\* update and updateParticipants, as far as they change the lists.
ChangeList(u) ==
  /\ Enters(u, InternalRoles) /\ Manages(u)
  /\ paper.status \in {"DRAFT", "RETURNED", "WAITING"} /\ ~paper.locked
  /\ \E want \in SUBSET Persons :
       /\ paper.status # "DRAFT" => want # {}
       /\ ListAccepted(want)
       /\ paper' = [paper EXCEPT !.marks = Listed(want)]
  /\ UNCHANGED <<accounts, project>>

\* submit, for writers only, and update that submits, for whoever may edit; submit
\* looks at the project, update only at one it changes to.
MaySubmit(u) ==
  /\ paper.status \in {"DRAFT", "RETURNED"} /\ ~paper.locked
  /\ Enters(u, InternalRoles) /\ Manages(u)

SubmitPaper(u) ==
  /\ MaySubmit(u)
  /\ \E x \in Persons : Member(x)
  /\ paper' = [paper EXCEPT !.status = "WAITING",
                            !.marks = [x \in Persons |-> IF Member(x) THEN "pending" ELSE "none"]]
  /\ UNCHANGED <<accounts, project>>

DecidePaper(u) ==
  /\ MayDecide(u)
  /\ \E to \in {"APPROVED", "RETURNED", "ENDED"} :
       paper' = [paper EXCEPT !.status = to, !.marks[u] = "decided"]
  /\ UNCHANGED <<accounts, project>>

\* changeStatus, remove and lockForPurchaseOrder; what was approved or held, and is
\* not locked, may return to where it was.
MovePaper(u) ==
  /\ Enters(u, WriterRoles)
  /\ \/ paper.status = "DRAFT" /\ paper' = [paper EXCEPT !.status = "DELETED"]
     \/ paper.status \in {"WAITING", "RETURNED", "APPROVED"} /\ ~paper.locked
        /\ paper' = [paper EXCEPT !.status = "ENDED"]
     \/ /\ paper.status = "ENDED" /\ ~paper.locked
        /\ \E to \in {"WAITING", "APPROVED"} : paper' = [paper EXCEPT !.status = to]
     \/ paper.status = "APPROVED" /\ paper' = [paper EXCEPT !.locked = TRUE]
  /\ UNCHANGED <<accounts, project>>

DeskNext ==
  \/ \E u \in Movable : AccountChanges(u)
  \/ ProjectChanges
  \/ \E u \in Persons : CreatePaper(u)
  \/ \E u \in Persons : ChangeList(u)
  \/ \E u \in Persons : SubmitPaper(u)
  \/ \E u \in Persons : DecidePaper(u)
  \/ \E u \in Persons : MovePaper(u)

DeskSpec == DeskInit /\ [][DeskNext]_deskVars

-----------------------------------------------------------------------------
(* Properties.                                                             *)

\* Who is shown work, a button or a notice is let through, unless they lost their place
\* in the organization: work that waits can be opened and decided (findAssigned against
\* decide and findOne), shown permissions are those of the handlers, and notices lead
\* to what their reader may open (concernedUsers against assertCanRead).
ShownIsAllowed ==
  \A u \in Persons : Enters(u, InternalRoles) =>
    /\ MyWork(u) => MayOpen(u) /\ MayDecide(u)
    /\ MyPapers(u) => MayOpen(u)
    /\ ShownDecide(u) <=> MayDecide(u)
    /\ ShownSubmit(u) <=> MaySubmit(u)
    /\ u \in ConcernedUsers /\ paper.status \notin {"NONE", "DELETED"} => MayOpen(u)

\* What a picker offers, a save accepts: participants who can come and decide, users and
\* managers of a project, and the projects a writer may raise a requisition on.
PickedIsAccepted ==
  /\ \A u \in UserOptions : TakesPart(u) /\ Enters(u, InternalRoles)
  /\ \A u \in EligibleUsers : Eligible(u)
  /\ \A u \in Persons : ListsProject(u) /\ Enters(u, WriterRoles) => MayCreateOn(u)

=============================================================================
