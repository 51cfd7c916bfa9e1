----------------------------- MODULE Requisition -----------------------------
(***************************************************************************)
(* The life of one material requisition, from the end of `create` on, under*)
(* the handlers of MaterialRequisitionService and                          *)
(* MaterialRequisitionWorkflowService. Here a request runs by itself: what *)
(* a handler read is still current when its transaction commits.           *)
(* RequisitionRaces drops that assumption.                                 *)
(*                                                                         *)
(* A handler is written in two parts, as the code is: `XReads`, the checks *)
(* made before the transaction on the rows as read, and `XWrites(row, ..)`,*)
(* the transaction body, which works on the row the handler holds. The two *)
(* handlers that lock the row inside their transaction (decide and         *)
(* updateParticipants) have one part.                                      *)
(*                                                                         *)
(* Bound: MaxRound, the number of review rounds a behaviour may start.     *)
(***************************************************************************)
EXTENDS RequisitionRules

CONSTANT MaxRound

ASSUME MaxRoundAssumption == MaxRound \in Nat

VARIABLES
  mr,            \* the material_requisitions row
  participants,  \* participants[role][user]: the participant row's decision
  edited,        \* edited[role]: the participant rows with editedInRound set
  lines,         \* the material_requisition_items rows
  decidedIn,     \* history: the round each recorded decision was taken in
  timeline,      \* workflow_events: which role passed which round
  shown,         \* the status getTimeline shows for the requisition document
  signed,        \* history: the contents an approver approved this round
  reopened       \* history: this round was re-enabled after being disabled

vars == <<mr, participants, edited, lines, decidedIn, timeline, shown, signed, reopened>>

\* A positive decision on the timeline (REVIEWED of a reviewer, APPROVED of an
\* approver). Who took it, and the negative decisions, are left out.
Passed == [round: Nat, role: Roles]

Content == <<mr.header, lines>>

\* Where the requisition stands, looking through a hold.
Stage == IF mr.status = "ON_HOLD" THEN mr.held ELSE mr.status

TypeOK ==
  /\ mr \in Row
  /\ participants \in [Roles -> [Users -> Marks]]
  /\ edited \in [Roles -> SUBSET Users]
  /\ lines \in Lines
  /\ decidedIn \in [Roles -> [Users -> Nat]]
  /\ timeline \subseteq Passed
  /\ shown \in Statuses \cup {"DELETED"}
  /\ signed \subseteq Headers \X Lines
  /\ reopened \in BOOLEAN

-----------------------------------------------------------------------------
(* create: a draft, or a requisition submitted in the same transaction.    *)

Draft(header) ==
  [status |-> "DRAFT", held |-> "NONE", round |-> 0,
   locked |-> FALSE, deleted |-> FALSE, header |-> header]

Nobody == [role \in Roles |-> [u \in Users |-> "NONE"]]
NoUsers == [role \in Roles |-> {}]
NoRounds == [role \in Roles |-> [u \in Users |-> 0]]

Init ==
  \E header \in Headers, lns \in Lines, want \in [Roles -> SUBSET Assignable], submit \in BOOLEAN :
    /\ submit => /\ Complete(header, lns)
                 /\ \A role \in Roles : want[role] # {}
                 /\ MaxRound > 0
    /\ mr = IF submit THEN StartRound(Draft(header)) ELSE Draft(header)
    /\ participants = Assigned(Nobody, want)
    /\ edited = NoUsers
    /\ lines = lns
    /\ decidedIn = NoRounds
    /\ timeline = {}
    /\ shown = IF submit THEN "UNDER_REVIEW" ELSE "DRAFT"
    /\ signed = {}
    /\ reopened = FALSE

-----------------------------------------------------------------------------
(* update: PUT /material-requisitions/:id.                                 *)

UnderReview(row) == row.status \in {"UNDER_REVIEW", "REVIEWED"}

\* Mutant: only a submission has to be complete, not a correction under review.
UpdateReads_Incomplete(u, header, lns, submit) ==
  /\ ~mr.deleted
  /\ mr.status \in EditableStatuses
  /\ u \in MayEdit(mr, participants)
  /\ submit => mr.status \in SubmittableStatuses /\ Complete(header, lns)

\* `submit` is asked for and the status allows it: elsewhere the flag is ignored.
UpdateReads(u, header, lns, submit) ==
  /\ ~mr.deleted
  /\ mr.status \in EditableStatuses
  /\ u \in MayEdit(mr, participants)
  /\ submit => mr.status \in SubmittableStatuses
  /\ submit \/ UnderReview(mr) => Complete(header, lns)

\* The rounds of those who stay.
Kept(rounds, want) ==
  [role \in Roles |-> [u \in Users |-> IF u \in want[role] THEN rounds[role][u] ELSE 0]]

\* The role whose member u an edit of `row` is charged to (markParticipantEdit).
EditorRole(row, ps, u) == {role \in Roles : row.status = DecidesIn[role] /\ u \in PendingMembers(ps, role)}

\* startRound: the row goes to review and every decision is cleared.
BeginRound(row, ps) ==
  /\ \A role \in Roles : Members(ps, role) # {}
  /\ row.round < MaxRound
  /\ mr' = StartRound(row)
  /\ participants' = Cleared(ps)
  /\ edited' = NoUsers
  /\ decidedIn' = NoRounds
  /\ signed' = {}
  /\ reopened' = FALSE

UpdateWrites(row, u, header, lns, want, moved, submit) ==
  LET changed == Changed(participants, want, moved)
      ps      == Assigned(participants, want)
      saved   == [row EXCEPT !.header = header]
      settled == IF changed # {} /\ ~submit THEN Settled(saved, ps) ELSE saved
      charged == IF UnderReview(row) THEN EditorRole(settled, ps, u) ELSE {}
  IN /\ ReplaceAllowed(saved, participants, u, want, changed)
     /\ lines' = lns
     /\ \/ submit /\ BeginRound(saved, ps)
        \/ /\ ~submit
           /\ mr' = settled
           /\ participants' = ps
           /\ edited' = [role \in Roles |-> (edited[role] \cap want[role]) \cup (IF role \in charged THEN {u} ELSE {})]
           /\ decidedIn' = Kept(decidedIn, want)
           /\ UNCHANGED <<signed, reopened>>
     /\ shown' = IF mr'.status = "DRAFT" THEN shown ELSE mr'.status
     /\ UNCHANGED timeline

Update(u) ==
  \E header \in Headers, lns \in Lines, submit \in BOOLEAN :
    /\ UpdateReads(u, header, lns, submit)
    /\ \E want \in [Roles -> SUBSET Users] : \E moved \in SUBSET Reorderable(participants, want) :
         UpdateWrites(mr, u, header, lns, want, moved, submit)

-----------------------------------------------------------------------------
(* submit: PATCH /material-requisitions/:id/submit.                        *)

SubmitReads(u) ==
  /\ u \in Writers
  /\ ~mr.deleted
  /\ CanSubmit(mr, u)
  /\ Complete(mr.header, lines)

\* Mutant: the submission is not recorded on the timeline.
SubmitWrites_Untracked(row) ==
  BeginRound(row, participants) /\ UNCHANGED <<lines, timeline, shown>>

SubmitWrites(row) ==
  /\ BeginRound(row, participants)
  /\ shown' = "UNDER_REVIEW"
  /\ UNCHANGED <<lines, timeline>>

Submit(u) == SubmitReads(u) /\ SubmitWrites(mr)

-----------------------------------------------------------------------------
(* updateParticipants: PUT /material-requisitions/:id/participants.        *)

UpdateParticipants(u) ==
  /\ ~mr.deleted
  /\ \E want \in [Roles -> SUBSET Users] : \E moved \in SUBSET Reorderable(participants, want) :
       LET changed == Changed(participants, want, moved)
           ps      == Assigned(participants, want)
       IN /\ changed # {}
          /\ ReplaceAllowed(mr, participants, u, want, changed)
          /\ participants' = ps
          /\ edited' = [role \in Roles |-> edited[role] \cap want[role]]
          /\ decidedIn' = Kept(decidedIn, want)
          /\ mr' = Settled(mr, ps)
          /\ shown' = IF mr'.status = "DRAFT" THEN shown ELSE mr'.status
  /\ UNCHANGED <<lines, timeline, signed, reopened>>

-----------------------------------------------------------------------------
(* decide: POST /material-requisitions/:id/review and /approval.           *)

Decide(u, role, decision, explained) ==
  /\ decision \in Decisions[role]
  /\ ~mr.deleted
  /\ ~mr.locked
  /\ mr.status = DecidesIn[role]
  /\ u \in PendingMembers(participants, role)
  /\ decision # Positive[role] => explained
  /\ u \in edited[role] => explained
  /\ participants' = [participants EXCEPT ![role][u] =
                        IF decision = Positive[role] THEN "POSITIVE" ELSE "NEGATIVE"]
  /\ mr' = [mr EXCEPT !.status = decision]
  /\ decidedIn' = [decidedIn EXCEPT ![role][u] = mr.round]
  /\ timeline' = IF decision = Positive[role]
                 THEN timeline \cup {[round |-> mr.round, role |-> role]} ELSE timeline
  /\ shown' = IF decision = Positive[role] THEN decision ELSE shown
  /\ signed' = IF decision = "APPROVED" THEN signed \cup {Content} ELSE signed
  /\ UNCHANGED <<edited, lines, reopened>>

-----------------------------------------------------------------------------
(* changeStatus, lockForPurchaseOrder and remove.                          *)

ChangeStatusReads(u, to) ==
  /\ u \in Writers
  /\ ~mr.deleted
  /\ ~mr.locked
  /\ MoveAllowed(mr, to)

ChangeStatusWrites(row, to) ==
  /\ mr' = MovedByHand(row, to)
  /\ shown' = to
  /\ reopened' = (reopened \/ (row.status = "DISABLED" /\ to = "UNDER_REVIEW"))
  /\ UNCHANGED <<participants, edited, lines, decidedIn, timeline, signed>>

ChangeStatus(u, to) == ChangeStatusReads(u, to) /\ ChangeStatusWrites(mr, to)

LockReads ==
  /\ ~mr.deleted
  /\ mr.status = "APPROVED"
  /\ ~mr.locked

LockWrites(row) ==
  /\ mr' = [row EXCEPT !.locked = TRUE]
  /\ shown' = row.status
  /\ UNCHANGED <<participants, edited, lines, decidedIn, timeline, signed, reopened>>

LockForPurchaseOrder == LockReads /\ LockWrites(mr)

\* Mutant: a requisition can be deleted in any status.
RemoveReads_AnyStatus(u) == u \in Writers /\ ~mr.deleted

RemoveReads(u) ==
  /\ u \in Writers
  /\ ~mr.deleted
  /\ mr.status = "DRAFT"

RemoveWrites(row) ==
  /\ mr' = [row EXCEPT !.deleted = TRUE]
  /\ shown' = "DELETED"
  /\ UNCHANGED <<participants, edited, lines, decidedIn, timeline, signed, reopened>>

Remove(u) == RemoveReads(u) /\ RemoveWrites(mr)

-----------------------------------------------------------------------------

Next ==
  \/ \E u \in Users :
       \/ Update(u)
       \/ Submit(u)
       \/ UpdateParticipants(u)
       \/ \E role \in Roles, explained \in BOOLEAN : \E decision \in Decisions[role] :
            Decide(u, role, decision, explained)
       \/ \E to \in Statuses : ChangeStatus(u, to)
       \/ Remove(u)
  \/ LockForPurchaseOrder

Spec == Init /\ [][Next]_vars

-----------------------------------------------------------------------------
(* Properties that hold.                                                   *)

\* A requisition that is reviewed has the positive decision of somebody still
\* assigned to review it, and an approved one also that of an assigned
\* approver, through holds and participant changes. (decide, settleRound,
\* changeStatus and replaceParticipants each move one of the two sides.)
StageIsDecided ==
  /\ Stage \in {"REVIEWED", "APPROVED"} => DecidedPositively(participants, "REVIEWER")
  /\ Stage = "APPROVED" => DecidedPositively(participants, "APPROVER")

\* Every decision a participant row shows was taken in the current round: none
\* is carried from an earlier round into a new one.
DecisionsAreOfThisRound ==
  \A role \in Roles, u \in Users :
    participants[role][u] \in Decided => decidedIn[role][u] = mr.round

\* A positive decision a participant row still shows is on the timeline of the
\* current round: the step and the decision are never recorded one without the other.
PositiveIsOnTimeline ==
  \A role \in Roles, u \in Users :
    participants[role][u] = "POSITIVE" => [round |-> mr.round, role |-> role] \in timeline

\* Only what is with reviewers or approvers, or approved, is ever held, and where
\* it was held is forgotten when it is released: changeStatus never has to guess.
HeldIsSubmitted ==
  IF mr.status = "ON_HOLD" THEN mr.held \in {"UNDER_REVIEW", "REVIEWED", "APPROVED"}
                           ELSE mr.held = "NONE"

\* The timeline holds no approval in a round nobody reviewed: the two steps of
\* the workflow are never skipped or swapped.
NoApprovalWithoutReview ==
  \A e \in timeline : [e EXCEPT !.role = "REVIEWER"] \in timeline

\* Once submitted, a requisition always has a reviewer and an approver, so
\* there is somebody to ask.
SubmittedIsStaffed ==
  Stage # "DRAFT" => \A role \in Roles : Members(participants, role) # {}

\* In a round that was not re-enabled, a requisition waiting for review has
\* recorded no decision at all, and one waiting for approval none of an approver:
\* the first decision settles its step, so everyone asked can still decide.
WaitingIsUndecided ==
  ~reopened => \A role \in Roles :
    Stage \in {"UNDER_REVIEW", DecidesIn[role]} =>
      \A u \in Users : participants[role][u] \in {"NONE", "PENDING"}

\* In a round that was not re-enabled, what stands approved is exactly the
\* content an approver approved, and what is with reviewers or approvers could
\* be submitted as it is.
ApprovedIsWhatWasSigned ==
  ~reopened => /\ Stage = "APPROVED" => Content \in signed
               /\ Stage \in {"UNDER_REVIEW", "REVIEWED", "APPROVED"} => Complete(mr.header, lines)

\* A requisition under a purchase order is approved and not deleted.
LockedIsApproved == mr.locked => mr.status = "APPROVED" /\ ~mr.deleted

\* Except after a decision that sent it back or ended it, the timeline shows
\* the requisition in its status.
TimelineShowsStatus ==
  ~mr.deleted /\ mr.status \notin Negative => shown = mr.status

\* A purchase order freezes the requisition: nothing about it changes again.
LockIsForGood ==
  [][mr.locked => UNCHANGED <<mr, participants, lines>>]_vars

\* Approved content is final: while the requisition is approved neither its
\* content nor its people change, and it leaves that status only to be held,
\* disabled or retired by hand.
ApprovedIsFinal ==
  [][mr.status = "APPROVED" =>
       /\ mr'.status \in {"APPROVED", "ON_HOLD", "DISABLED", "OBSOLETE"}
       /\ UNCHANGED <<mr.header, lines, participants>>]_vars

\* Rounds go up one at a time, and a decision of somebody who stays assigned is
\* only ever cleared by the start of a new round.
DecisionsClearOnlyByRound ==
  [][/\ mr'.round \in {mr.round, mr.round + 1}
     /\ \A role \in Roles, u \in Users :
          participants[role][u] \in Decided =>
            \/ participants'[role][u] \in {participants[role][u], "NONE"}
            \/ mr'.round = mr.round + 1]_vars

\* A deleted or obsolete requisition stays so.
EndIsForGood ==
  [][/\ mr.deleted => mr'.deleted
     /\ mr.status = "OBSOLETE" => mr'.status = "OBSOLETE"]_vars

-----------------------------------------------------------------------------
(* What a comment promises and the code does not keep.                     *)

\* "re-enabling returns it to review, so an approval is never silently restored"
\* (enums/material-requisition.enums.ts:28): a requisition under approval
\* becomes approved only as an approver decides.
ApprovalNeverRestored ==
  [][mr.status = "REVIEWED" /\ mr'.status = "APPROVED" =>
       \E u \in Users : /\ participants[ "APPROVER"][u] = "PENDING"
                        /\ participants'["APPROVER"][u] = "POSITIVE"]_vars

=============================================================================
