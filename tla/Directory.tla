----------------------------- MODULE Directory -----------------------------
(***************************************************************************)
(* Clients, the projects done for them, the WBS / cost codes of a project  *)
(* and the requisitions raised on both: ClientService, ProjectService,     *)
(* WbsCostCodeService and the lock of WorkflowLockService, by which a      *)
(* purchase order freezes all of them. Every handler runs to its end       *)
(* before the next one begins.                                             *)
(*                                                                         *)
(* Abstracted: of a row, the references to other rows, its status and its  *)
(* deletion are kept; an edit of other columns goes through the same       *)
(* handler. Client and project types, managers and disciplines are         *)
(* references that are checked as the client is. The stages of a           *)
(* requisition between its submission and its order are one here.          *)
(***************************************************************************)
EXTENDS Integers, FiniteSets

CONSTANTS
  Clients, Projects, WbsCodes, Requisitions,
  None,             \* no parent, no project, no WBS / cost code
  MaxParentDepth    \* MAX_PARENT_DEPTH

\* Clients form no line longer than assertParent follows.
ASSUME DirectoryAssumption ==
  /\ IsFiniteSet(Clients)
  /\ None \notin Clients \cup Projects \cup WbsCodes \cup Requisitions
  /\ MaxParentDepth \in Nat /\ Cardinality(Clients) <= MaxParentDepth

VARIABLES
  clients,       \* the row of each client
  projects,
  wbsCodes,
  requisitions

directoryVars == <<clients, projects, wbsCodes, requisitions>>

ClientRow == [state: {"absent", "ACTIVE", "INACTIVE", "deleted"}, parentClientId: Clients \cup {None}]

ProjectStatus == {"PLANNED", "ACTIVE", "ON_HOLD", "COMPLETED", "CANCELLED"}

ProjectRow == [state: ProjectStatus \cup {"absent", "deleted"}, clientId: Clients \cup {None}]

WbsRow == [state: {"absent", "active", "inactive", "deleted"}, projectId: Projects \cup {None}]

\* "submitted" is any status from the submission to the approval.
RequisitionRow == [state: {"absent", "draft", "submitted", "locked", "deleted"},
                   projectId: Projects \cup {None}, wbsCostCodeId: WbsCodes \cup {None}]

DirectoryTypeOK ==
  /\ clients \in [Clients -> ClientRow]
  /\ projects \in [Projects -> ProjectRow]
  /\ wbsCodes \in [WbsCodes -> WbsRow]
  /\ requisitions \in [Requisitions -> RequisitionRow]

DirectoryInit ==
  /\ clients = [c \in Clients |-> [state |-> "absent", parentClientId |-> None]]
  /\ projects = [p \in Projects |-> [state |-> "absent", clientId |-> None]]
  /\ wbsCodes = [w \in WbsCodes |-> [state |-> "absent", projectId |-> None]]
  /\ requisitions = [r \in Requisitions |->
                       [state |-> "absent", projectId |-> None, wbsCostCodeId |-> None]]

-----------------------------------------------------------------------------
(* The purchase order lock.                                                *)

Locked(r) == requisitions[r].state = "locked"

ProjectEditable(p) == \A r \in Requisitions : Locked(r) => requisitions[r].projectId # p

\* The client a locked requisition's project has now.
ClientEditable(c) ==
  \A r \in Requisitions : Locked(r) => projects[requisitions[r].projectId].clientId # c

WbsEditable(w) == \A r \in Requisitions : Locked(r) => requisitions[r].wbsCostCodeId # w

-----------------------------------------------------------------------------
(* Clients.                                                                *)

LiveClient(c) == clients[c].state \in {"ACTIVE", "INACTIVE"}

\* The client n generations above c.
Ancestor(c) ==
  LET up[n \in 0..MaxParentDepth] ==
        IF n = 0 THEN c
        ELSE IF up[n - 1] = None THEN None ELSE clients[up[n - 1]].parentClientId
  IN  up

\* Mutant: only the parent of the new parent is looked at.
MayBeParent_Near(c, parent) ==
  parent # None => parent # c /\ LiveClient(parent) /\ (c # None => clients[parent].parentClientId # c)

\* assertParent; c is None for a client that is being created.
MayBeParent(c, parent) ==
  parent # None =>
    /\ parent # c
    /\ \A n \in 0..MaxParentDepth - 1 :
         LET node == Ancestor(parent)[n]
         IN  node # None => LiveClient(node) /\ (c # None => clients[node].parentClientId # c)

\* create and insertClient, whose status may be given.
CreateClient(c, status, parent) ==
  /\ clients[c].state = "absent"
  /\ MayBeParent(None, parent)
  /\ clients' = [clients EXCEPT ![c] = [state |-> status, parentClientId |-> parent]]
  /\ UNCHANGED <<projects, wbsCodes, requisitions>>

\* update: a parent that stays is not looked at again.
UpdateClient(c, parent) ==
  /\ LiveClient(c) /\ ClientEditable(c)
  /\ parent # clients[c].parentClientId => MayBeParent(c, parent)
  /\ clients' = [clients EXCEPT ![c].parentClientId = parent]
  /\ UNCHANGED <<projects, wbsCodes, requisitions>>

ActivateClient(c) ==
  /\ clients[c].state = "INACTIVE"
  /\ clients' = [clients EXCEPT ![c].state = "ACTIVE"]
  /\ UNCHANGED <<projects, wbsCodes, requisitions>>

DeactivateClient(c) ==
  /\ clients[c].state = "ACTIVE"
  /\ clients' = [clients EXCEPT ![c].state = "INACTIVE"]
  /\ UNCHANGED <<projects, wbsCodes, requisitions>>

\* remove: its projects are not asked about, its subsidiaries are.
RemoveClient(c) ==
  /\ LiveClient(c) /\ ClientEditable(c)
  /\ \A s \in Clients : clients[s].parentClientId = c => ~LiveClient(s)
  /\ clients' = [clients EXCEPT ![c].state = "deleted"]
  /\ UNCHANGED <<projects, wbsCodes, requisitions>>

-----------------------------------------------------------------------------
(* Projects.                                                               *)

ClientUsable(c) == clients[c].state = "ACTIVE"

LiveProject(p) == projects[p].state \in ProjectStatus

\* OPEN_PROJECT_STATUSES.
OpenProject(p) == projects[p].state \in {"PLANNED", "ACTIVE", "ON_HOLD"}

\* PROJECT_STATUS_TRANSITIONS.
Transitions ==
  {<<"PLANNED", "ACTIVE">>, <<"PLANNED", "CANCELLED">>,
   <<"ACTIVE", "ON_HOLD">>, <<"ACTIVE", "COMPLETED">>, <<"ACTIVE", "CANCELLED">>,
   <<"ON_HOLD", "ACTIVE">>, <<"ON_HOLD", "CANCELLED">>,
   <<"COMPLETED", "ACTIVE">>, <<"CANCELLED", "PLANNED">>}

\* create; the request may give any status.
CreateProject(p, c, status) ==
  /\ projects[p].state = "absent"
  /\ ClientUsable(c)
  /\ projects' = [projects EXCEPT ![p] = [state |-> status, clientId |-> c]]
  /\ UNCHANGED <<clients, wbsCodes, requisitions>>

\* Mutant: the lock is not asked for.
UpdateProject_Unasked(p, c) ==
  /\ LiveProject(p)
  /\ c # projects[p].clientId => ClientUsable(c)
  /\ projects' = [projects EXCEPT ![p].clientId = c]
  /\ UNCHANGED <<clients, wbsCodes, requisitions>>

\* update: only a client that changes must be usable.
UpdateProject(p, c) ==
  /\ LiveProject(p) /\ ProjectEditable(p)
  /\ c # projects[p].clientId => ClientUsable(c)
  /\ projects' = [projects EXCEPT ![p].clientId = c]
  /\ UNCHANGED <<clients, wbsCodes, requisitions>>

\* updateStatus, which does not ask for the lock.
UpdateProjectStatus(p, status) ==
  /\ LiveProject(p) /\ <<projects[p].state, status>> \in Transitions
  /\ status = "ACTIVE" => ClientUsable(projects[p].clientId)
  /\ projects' = [projects EXCEPT ![p].state = status]
  /\ UNCHANGED <<clients, wbsCodes, requisitions>>

\* remove of a project in one of DELETABLE_PROJECT_STATUSES.
RemoveProject(p) ==
  /\ projects[p].state \in {"PLANNED", "CANCELLED"} /\ ProjectEditable(p)
  /\ projects' = [projects EXCEPT ![p].state = "deleted"]
  /\ UNCHANGED <<clients, wbsCodes, requisitions>>

-----------------------------------------------------------------------------
(* WBS / cost codes.                                                       *)

LiveWbs(w) == wbsCodes[w].state \in {"active", "inactive"}

\* assertProjectSelectable, where a project is named.
Selectable(p) == p # None => OpenProject(p)

CreateWbs(w, p, state) ==
  /\ wbsCodes[w].state = "absent"
  /\ Selectable(p)
  /\ wbsCodes' = [wbsCodes EXCEPT ![w] = [state |-> state, projectId |-> p]]
  /\ UNCHANGED <<clients, projects, requisitions>>

\* update of the project or of isActive: a project that stays may have closed.
UpdateWbs(w, p, state) ==
  /\ LiveWbs(w) /\ WbsEditable(w)
  /\ p # wbsCodes[w].projectId => Selectable(p)
  /\ wbsCodes' = [wbsCodes EXCEPT ![w] = [state |-> state, projectId |-> p]]
  /\ UNCHANGED <<clients, projects, requisitions>>

RemoveWbs(w) ==
  /\ LiveWbs(w) /\ WbsEditable(w)
  /\ wbsCodes' = [wbsCodes EXCEPT ![w].state = "deleted"]
  /\ UNCHANGED <<clients, projects, requisitions>>

-----------------------------------------------------------------------------
(* Requisitions, as far as these references go.                            *)

\* assertWbsBelongsToProject, where a code is named.
WbsBelongs(w, p) == w # None => wbsCodes[w].state = "active" /\ wbsCodes[w].projectId = p

CreateRequisition(r, p, w) ==
  /\ requisitions[r].state = "absent"
  /\ OpenProject(p) /\ WbsBelongs(w, p)
  /\ requisitions' = [requisitions EXCEPT ![r] = [state |-> "draft", projectId |-> p, wbsCostCodeId |-> w]]
  /\ UNCHANGED <<clients, projects, wbsCodes>>

\* update: a project that stays may have closed, the code is looked at in any case;
\* once submitted the requisition needs one.
EditRequisition(r, p, w) ==
  /\ requisitions[r].state \in {"draft", "submitted"}
  /\ p # requisitions[r].projectId => OpenProject(p)
  /\ WbsBelongs(w, p)
  /\ requisitions[r].state = "submitted" => w # None
  /\ requisitions' = [requisitions EXCEPT ![r].projectId = p, ![r].wbsCostCodeId = w]
  /\ UNCHANGED <<clients, projects, wbsCodes>>

\* submit looks at the project again, not at the code.
SubmitRequisition(r) ==
  /\ requisitions[r].state = "draft"
  /\ requisitions[r].wbsCostCodeId # None /\ OpenProject(requisitions[r].projectId)
  /\ requisitions' = [requisitions EXCEPT ![r].state = "submitted"]
  /\ UNCHANGED <<clients, projects, wbsCodes>>

\* lockForPurchaseOrder of an approved requisition.
RaiseOrder(r) ==
  /\ requisitions[r].state = "submitted"
  /\ requisitions' = [requisitions EXCEPT ![r].state = "locked"]
  /\ UNCHANGED <<clients, projects, wbsCodes>>

RemoveRequisition(r) ==
  /\ requisitions[r].state = "draft"
  /\ requisitions' = [requisitions EXCEPT ![r].state = "deleted"]
  /\ UNCHANGED <<clients, projects, wbsCodes>>

-----------------------------------------------------------------------------
ClientStep ==
  \E c \in Clients, parent \in Clients \cup {None} :
    \/ \E status \in {"ACTIVE", "INACTIVE"} : CreateClient(c, status, parent)
    \/ UpdateClient(c, parent)
    \/ ActivateClient(c)
    \/ DeactivateClient(c)
    \/ RemoveClient(c)

ProjectStep ==
  \E p \in Projects :
    \/ \E c \in Clients : UpdateProject(p, c) \/ \E status \in ProjectStatus : CreateProject(p, c, status)
    \/ \E status \in ProjectStatus : UpdateProjectStatus(p, status)
    \/ RemoveProject(p)

WbsStep ==
  \E w \in WbsCodes :
    \/ \E p \in Projects \cup {None}, state \in {"active", "inactive"} :
         CreateWbs(w, p, state) \/ UpdateWbs(w, p, state)
    \/ RemoveWbs(w)

RequisitionStep ==
  \E r \in Requisitions :
    \/ \E p \in Projects, w \in WbsCodes \cup {None} : CreateRequisition(r, p, w) \/ EditRequisition(r, p, w)
    \/ SubmitRequisition(r)
    \/ RaiseOrder(r)
    \/ RemoveRequisition(r)

DirectoryNext == ClientStep \/ ProjectStep \/ WbsStep \/ RequisitionStep

DirectorySpec == DirectoryInit /\ [][DirectoryNext]_directoryVars

-----------------------------------------------------------------------------
(* Properties.                                                             *)

\* Whichever clients were re-parented, deactivated and removed: a client that is
\* not deleted has a parent that is not, and nobody is their own ancestor.
ParentsAreSound ==
  \A c \in Clients :
    /\ LiveClient(c) /\ clients[c].parentClientId # None => LiveClient(clients[c].parentClientId)
    /\ LiveClient(c) => Ancestor(c)[Cardinality(Clients)] = None

\* What a purchase order was committed against stays: from the order on its
\* requisition, the project, that project's client and the cost code keep their
\* references and are not deleted, whichever of the three services is asked.
OrderedIsFrozen ==
  [][\A r \in Requisitions : Locked(r) =>
       LET p == requisitions[r].projectId
           w == requisitions[r].wbsCostCodeId
           c == projects[p].clientId
       IN  /\ requisitions'[r] = requisitions[r]
           /\ wbsCodes'[w] = wbsCodes[w]
           /\ projects'[p].clientId = c
           /\ clients'[c].parentClientId = clients[c].parentClientId
           /\ projects[p].state # "deleted" => projects'[p].state # "deleted"
           /\ clients[c].state # "deleted" => clients'[c].state # "deleted"]_directoryVars

=============================================================================
