--------------------------- MODULE RequisitionRules ---------------------------
(***************************************************************************)
(* The rules of a material requisition as constant-level operators: its    *)
(* statuses and the tables of enums/material-requisition.enums.ts, who may *)
(* do what (permissionsFor), and what each transaction body computes from  *)
(* the requisition row it holds.                                           *)
(*                                                                         *)
(* The operators take the row they work on as an argument because the code *)
(* does: some handlers hold the row they locked, others one they read      *)
(* earlier. Requisition applies them to the current row, RequisitionRaces  *)
(* to a stale one.                                                         *)
(*                                                                         *)
(* Abstracted: a header (project, WBS, dates, text columns) and a set of   *)
(* lines are opaque values of which some are complete enough to submit;    *)
(* emails, names, comments' text and the tracking id are left out.         *)
(***************************************************************************)
EXTENDS Naturals, FiniteSets

CONSTANTS
  Users,          \* internal users of the organization
  Owner,          \* the requester (createdBy)
  Writers,        \* users with one of REQUISITION_WRITER_ROLES
  Assignable,     \* users assertInternalUsers accepts: internal, active, not deleted
  Headers,        \* values of the header columns
  ReadyHeaders,   \* those with a WBS / cost code and a required-on-site date
  Lines,          \* contents of the lines table
  ReadyLines      \* those with at least one line

ASSUME UsersAssumption ==
  /\ Owner \in Users
  /\ Writers \subseteq Users
  /\ Assignable \subseteq Users

ASSUME ContentAssumption ==
  /\ ReadyHeaders \subseteq Headers
  /\ ReadyLines \subseteq Lines

Roles == {"REVIEWER", "APPROVER"}

Statuses == {"DRAFT", "UNDER_REVIEW", "REVIEWED", "APPROVED", "RETURNED",
             "REJECTED", "CANCELLED", "ON_HOLD", "DISABLED", "OBSOLETE"}

StatusTransitions ==
  [s \in Statuses |->
     CASE s \in {"UNDER_REVIEW", "REVIEWED", "APPROVED"} -> {"ON_HOLD", "DISABLED", "OBSOLETE"}
       [] s \in {"RETURNED", "REJECTED"} -> {"DISABLED", "OBSOLETE"}
       [] s = "CANCELLED" -> {"OBSOLETE"}
       [] s = "ON_HOLD" -> {"UNDER_REVIEW", "REVIEWED", "APPROVED", "DISABLED", "OBSOLETE"}
       [] s = "DISABLED" -> {"UNDER_REVIEW", "OBSOLETE"}
       [] OTHER -> {}]

EditableStatuses == {"DRAFT", "UNDER_REVIEW", "REVIEWED", "RETURNED"}
SubmittableStatuses == {"DRAFT", "RETURNED"}

\* Until when each role's participants can change.
RoleEditable ==
  [role \in Roles |-> IF role = "REVIEWER" THEN {"DRAFT", "RETURNED", "UNDER_REVIEW"}
                                           ELSE {"DRAFT", "RETURNED", "UNDER_REVIEW", "REVIEWED"}]

\* The status in which a role decides, the decisions it may record, and the
\* positive one. A decision's status has the decision's name (DECISION_STATUS).
Negative == {"RETURNED", "REJECTED", "CANCELLED"}
\* Mutant: approvers need not wait for the review.
DecidesIn_AtOnce == [role \in Roles |-> "UNDER_REVIEW"]

DecidesIn == [role \in Roles |-> IF role = "REVIEWER" THEN "UNDER_REVIEW" ELSE "REVIEWED"]
Positive == [role \in Roles |-> IF role = "REVIEWER" THEN "REVIEWED" ELSE "APPROVED"]
Decisions == [role \in Roles |-> Negative \cup {Positive[role]}]

-----------------------------------------------------------------------------
(* The requisition row and its participants.                               *)

\* The columns of material_requisitions the workflow reads or writes. `held` is
\* statusBeforeHold, `locked` whether lockedAt is set. The other timestamps are
\* shown to people and read by no handler.
Row == [status: Statuses, held: Statuses \cup {"NONE"}, round: Nat,
        locked: BOOLEAN, deleted: BOOLEAN, header: Headers]

\* One participant row per (role, user): NONE if there is none, else what its
\* decision column says. No handler asks which negative decision was taken.
Marks == {"NONE", "PENDING", "POSITIVE", "NEGATIVE"}
Decided == {"POSITIVE", "NEGATIVE"}

Members(ps, role) == {u \in Users : ps[role][u] # "NONE"}
DecidedPositively(ps, role) == \E u \in Users : ps[role][u] = "POSITIVE"

-----------------------------------------------------------------------------
(* Who may do what.                                                        *)

\* The requester, or anyone who can raise and edit requisitions (canManage).
Managers == Writers \cup {Owner}

PendingMembers(ps, role) == {u \in Users : ps[role][u] = "PENDING"}

\* permissionsFor: canEdit and canSubmit. Approvers may correct the requisition
\* before they decide, its requester may not once it is reviewed.
MayEdit(row, ps) ==
  IF row.locked THEN {}
  ELSE CASE row.status \in {"DRAFT", "RETURNED"} -> Managers
         [] row.status = "UNDER_REVIEW" -> Managers \cup PendingMembers(ps, "REVIEWER")
         [] row.status = "REVIEWED" -> PendingMembers(ps, "APPROVER")
         [] OTHER -> {}

CanSubmit(row, u) == ~row.locked /\ row.status \in SubmittableStatuses /\ u \in Managers

Complete(header, lns) == header \in ReadyHeaders /\ lns \in ReadyLines

\* Mutant: a hold can be released to any status it could have been held in.
MoveAllowed_AnyRelease(row, to) == to \in StatusTransitions[row.status]

\* A move of changeStatus is in the table, and releasing a hold returns to
\* where the requisition was held.
MoveAllowed(row, to) ==
  /\ to \in StatusTransitions[row.status]
  /\ row.status = "ON_HOLD" /\ to \notin {"DISABLED", "OBSOLETE"}
       => to = (IF row.held = "NONE" THEN "UNDER_REVIEW" ELSE row.held)

\* Lists of participants are kept as sets. The roles whose list can be sent in
\* another order, which the code treats as a change although nobody joins or
\* leaves, and the roles a request changes. A list that is not sent is the same
\* as one equal to the current list.
Reorderable(ps, want) ==
  {role \in Roles : want[role] = Members(ps, role) /\ Cardinality(want[role]) > 1}

Changed(ps, want, moved) ==
  {role \in Roles : want[role] # Members(ps, role) \/ role \in moved}

\* The checks of replaceParticipants, which throw and roll the transaction back.
ReplaceAllowed(row, ps, u, want, changed) ==
  changed # {} =>
    /\ u \in Managers
    /\ ~row.locked
    /\ \A role \in changed : row.status \in RoleEditable[role]
    /\ row.status # "DRAFT" => \A role \in Roles : want[role] # {}
    /\ \A role \in Roles :
         want[role] \subseteq Assignable \cup Members(ps, "REVIEWER") \cup Members(ps, "APPROVER")

-----------------------------------------------------------------------------
(* What the transaction bodies compute.                                    *)

\* Mutant: a new list starts everyone on it afresh.
Assigned_Afresh(ps, want) ==
  [role \in Roles |-> [u \in Users |-> IF u \in want[role] THEN "PENDING" ELSE "NONE"]]

\* People who stay keep their decision, new ones start pending.
Assigned(ps, want) ==
  [role \in Roles |-> [u \in Users |->
     IF u \notin want[role] THEN "NONE"
     ELSE IF ps[role][u] = "NONE" THEN "PENDING" ELSE ps[role][u]]]

\* Mutants: a new round keeps who was positive, or the approvers' decisions.
Cleared_KeepsPositive(ps) ==
  [role \in Roles |-> [u \in Users |-> IF ps[role][u] = "NEGATIVE" THEN "PENDING" ELSE ps[role][u]]]
Cleared_KeepsApprovers(ps) ==
  [role \in Roles |-> [u \in Users |->
     IF ps[role][u] # "NONE" /\ role = "REVIEWER" THEN "PENDING" ELSE ps[role][u]]]

\* Every decision cleared: what startRound does to the participants.
Cleared(ps) ==
  [role \in Roles |-> [u \in Users |-> IF ps[role][u] = "NONE" THEN "NONE" ELSE "PENDING"]]

StartRound(row) ==
  [row EXCEPT !.status = "UNDER_REVIEW", !.round = @ + 1]

\* settleRound: the round completes if somebody assigned has decided positively.
Settled(row, ps) ==
  IF \E role \in Roles : row.status = DecidesIn[role] /\ DecidedPositively(ps, role)
  THEN [row EXCEPT !.status = IF row.status = "UNDER_REVIEW" THEN "REVIEWED" ELSE "APPROVED"]
  ELSE row

MovedByHand(row, to) ==
  [row EXCEPT !.status = to, !.held = IF to = "ON_HOLD" THEN row.status ELSE "NONE"]

=============================================================================
