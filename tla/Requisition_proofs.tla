------------------------- MODULE Requisition_proofs -------------------------
(***************************************************************************)
(* Proofs about Requisition, for any users, contents and number of rounds. *)
(*                                                                         *)
(* Every step is first shown to be of one of five kinds that say only what *)
(* the invariants need: a round starts (Starts), a requisition is revised  *)
(* without starting one (Revises), a participant decides, a status is moved*)
(* by hand, or the row is only marked as locked or deleted. The inductive  *)
(* invariant IInv is then carried over each kind, conjunct by conjunct.    *)
(***************************************************************************)
EXTENDS RequisitionRaces, TLAPS

\* A step that starts a review round: submit, or update with its submit flag.
Starts ==
  /\ mr.status \in SubmittableStatuses /\ ~mr.locked /\ ~mr.deleted
  /\ mr'.status = "UNDER_REVIEW"
  /\ mr'.round = mr.round + 1
  /\ mr'.held = mr.held /\ mr'.locked = mr.locked /\ mr'.deleted = mr.deleted
  /\ \A role \in Roles, u \in Users : participants'[role][u] \in {"NONE", "PENDING"}
  /\ \A role \in Roles : \E u \in Users : participants'[role][u] # "NONE"
  /\ Complete(mr'.header, lines')
  /\ shown' = "UNDER_REVIEW" /\ timeline' = timeline /\ reopened' = FALSE

\* A step that edits content or participants within a round: update without its
\* submit flag, or updateParticipants.
Revises ==
  /\ mr.status \in EditableStatuses /\ ~mr.locked /\ ~mr.deleted
  /\ mr'.round = mr.round
  /\ mr'.held = mr.held /\ mr'.locked = mr.locked /\ mr'.deleted = mr.deleted
  /\ \/ mr'.status = mr.status
     \/ \E role \in Roles : /\ mr.status = DecidesIn[role]
                            /\ mr'.status = Positive[role]
                            /\ DecidedPositively(participants', role)
  /\ \A role \in Roles, u \in Users :
       \/ participants'[role][u] = "NONE"
       \/ participants'[role][u] = "PENDING" /\ participants[role][u] = "NONE"
       \/ /\ participants'[role][u] = participants[role][u]
          /\ decidedIn'[role][u] = decidedIn[role][u]
  /\ \A role \in Roles : mr.status \notin RoleEditable[role] =>
       \A u \in Users : participants'[role][u] = participants[role][u]
  /\ mr.status # "DRAFT" => \A role \in Roles :
       Members(participants, role) # {} => Members(participants', role) # {}
  /\ UnderReview(mr) /\ Complete(mr.header, lines) => Complete(mr'.header, lines')
  /\ shown' = IF mr'.status = "DRAFT" THEN shown ELSE mr'.status
  /\ UNCHANGED <<timeline, signed, reopened>>

-----------------------------------------------------------------------------
(* What the operators of RequisitionRules return.                          *)

\* Assigning participants gives every user one mark in each role.
LEMMA AssignedType ==
  ASSUME NEW ps \in [Roles -> [Users -> Marks]], NEW want
  PROVE  Assigned(ps, want) \in [Roles -> [Users -> Marks]]
BY DEF Assigned, Marks

\* Clearing decisions keeps who participates and makes everyone pending.
LEMMA ClearedType ==
  ASSUME NEW ps
  PROVE  /\ Cleared(ps) \in [Roles -> [Users -> Marks]]
         /\ \A role \in Roles, u \in Users :
              Cleared(ps)[role][u] = IF ps[role][u] = "NONE" THEN "NONE" ELSE "PENDING"
BY DEF Cleared, Marks

\* Settling moves the status at most one stage, and only if all of its role decided.
LEMMA SettledFacts ==
  ASSUME NEW row \in Row, NEW ps
  PROVE  /\ Settled(row, ps) \in Row
         /\ \A f \in {"held", "round", "locked", "deleted", "header"} : Settled(row, ps)[f] = row[f]
         /\ \/ Settled(row, ps) = row
            \/ \E role \in Roles : /\ row.status = DecidesIn[role]
                                   /\ Settled(row, ps).status = Positive[role]
                                   /\ DecidedPositively(ps, role)
<1>1. CASE \E role \in Roles : row.status = DecidesIn[role] /\ DecidedPositively(ps, role)
  <2>1. Settled(row, ps) = [row EXCEPT !.status = IF row.status = "UNDER_REVIEW" THEN "REVIEWED" ELSE "APPROVED"]
    BY <1>1 DEF Settled
  <2>2. PICK role \in Roles : row.status = DecidesIn[role] /\ DecidedPositively(ps, role)
    BY <1>1
  <2>3. Settled(row, ps).status = Positive[role]
    BY <2>1, <2>2 DEF Row, Roles, DecidesIn, Positive
  <2> QED
    BY <2>1, <2>2, <2>3 DEF Row, Statuses
<1>2. CASE ~ \E role \in Roles : row.status = DecidesIn[role] /\ DecidedPositively(ps, role)
  BY <1>2 DEF Settled
<1> QED
  BY <1>1, <1>2

\* Replacing participants ps by new: those who stay keep their decision, a role
\* whose list the status no longer lets anyone change is left alone, and none is
\* emptied once submitted.
Replaced(row, ps, new, want) ==
  /\ \A role \in Roles, x \in Users :
       \/ new[role][x] = "NONE" /\ x \notin want[role]
       \/ new[role][x] = "PENDING" /\ ps[role][x] = "NONE"
       \/ new[role][x] = ps[role][x] /\ x \in want[role]
  /\ \A role \in Roles : row.status \notin RoleEditable[role] =>
       \A x \in Users : new[role][x] = ps[role][x]
  /\ row.status # "DRAFT" => \A role \in Roles :
       Members(ps, role) # {} => Members(new, role) # {}

\* update and updateParticipants replace participants so.
LEMMA AssignedReplaces ==
  ASSUME NEW row \in Row, NEW ps \in [Roles -> [Users -> Marks]], NEW u,
         NEW want \in [Roles -> SUBSET Users], NEW moved,
         ReplaceAllowed(row, ps, u, want, Changed(ps, want, moved))
  PROVE  Replaced(row, ps, Assigned(ps, want), want)
<1>1. \A role \in Roles, x \in Users :
        Assigned(ps, want)[role][x] = IF x \notin want[role] THEN "NONE"
                                      ELSE IF ps[role][x] = "NONE" THEN "PENDING" ELSE ps[role][x]
  BY DEF Assigned
<1>2. \A role \in Roles : Members(Assigned(ps, want), role) = want[role]
  BY <1>1 DEF Members
<1>3. ASSUME NEW role \in Roles, row.status \notin RoleEditable[role]
      PROVE  \A x \in Users : Assigned(ps, want)[role][x] = ps[role][x]
  <2>1. want[role] = Members(ps, role)
    BY <1>3 DEF ReplaceAllowed, Changed
  <2> QED
    BY <1>1, <2>1 DEF Members
<1>4. ASSUME row.status # "DRAFT", NEW role \in Roles, Members(ps, role) # {}
      PROVE  want[role] # {}
  BY <1>4 DEF ReplaceAllowed, Changed
<1> QED
  BY <1>1, <1>2, <1>3, <1>4 DEF Replaced

-----------------------------------------------------------------------------
(* The kinds of steps.                                                     *)

\* submit starts a round.
LEMMA SubmitKind ==
  ASSUME TypeOK, NEW u \in Users, Submit(u)
  PROVE  Starts
<1> USE DEF TypeOK, Row
<1>1. mr.status \in SubmittableStatuses /\ ~mr.locked /\ ~mr.deleted /\ Complete(mr.header, lines)
  BY DEF Submit, SubmitReads, CanSubmit
<1>2. /\ mr' = StartRound(mr)
      /\ participants' = Cleared(participants)
      /\ \A role \in Roles : Members(participants, role) # {}
      /\ reopened' = FALSE /\ shown' = "UNDER_REVIEW" /\ lines' = lines /\ timeline' = timeline
  BY DEF Submit, SubmitWrites, BeginRound
<1>3. \A role \in Roles, x \in Users :
        participants'[role][x] = IF participants[role][x] = "NONE" THEN "NONE" ELSE "PENDING"
  BY <1>2, ClearedType
<1>4. \A role \in Roles : \E x \in Users : participants'[role][x] # "NONE"
  BY <1>2, <1>3 DEF Members
<1>5. mr' = [mr EXCEPT !.status = "UNDER_REVIEW", !.round = mr.round + 1]
  BY <1>2 DEF StartRound
<1> QED
  BY <1>1, <1>2, <1>3, <1>4, <1>5 DEF Starts

\* update starts a round or revises within one, as its submit flag says.
LEMMA UpdateKind ==
  ASSUME TypeOK, NEW u \in Users, Update(u)
  PROVE  Starts \/ Revises
<1> USE DEF TypeOK
<1>1. PICK header \in Headers, lns \in Lines, submit \in BOOLEAN,
           want \in [Roles -> SUBSET Users], moved \in SUBSET Roles :
        /\ UpdateReads(u, header, lns, submit)
        /\ UpdateWrites(mr, u, header, lns, want, moved, submit)
  BY DEF Update, Reorderable
<1> DEFINE changed == Changed(participants, want, moved)
           ps      == Assigned(participants, want)
           saved   == [mr EXCEPT !.header = header]
           settled == IF changed # {} /\ ~submit THEN Settled(saved, ps) ELSE saved
<1>2. /\ saved \in Row
      /\ \A f \in {"status", "held", "round", "locked", "deleted"} : saved[f] = mr[f]
      /\ saved.header = header
  BY DEF Row
<1>3. /\ mr.status \in EditableStatuses /\ ~mr.deleted
      /\ u \in MayEdit(mr, participants)
      /\ submit => mr.status \in SubmittableStatuses
      /\ submit \/ UnderReview(mr) => Complete(header, lns)
  BY <1>1 DEF UpdateReads
<1>4. ~mr.locked
  BY <1>3 DEF MayEdit
<1>5. /\ ReplaceAllowed(saved, participants, u, want, changed)
      /\ lines' = lns
      /\ \/ submit /\ BeginRound(saved, ps)
         \/ /\ ~submit
            /\ mr' = settled
            /\ participants' = ps
            /\ decidedIn' = Kept(decidedIn, want)
            /\ UNCHANGED <<signed, reopened>>
      /\ shown' = IF mr'.status = "DRAFT" THEN shown ELSE mr'.status
      /\ UNCHANGED timeline
  BY <1>1, Zenon DEF UpdateWrites
<1>6. CASE submit
  <2>1. /\ mr' = StartRound(saved)
        /\ participants' = Cleared(ps)
        /\ \A role \in Roles : Members(ps, role) # {}
        /\ reopened' = FALSE
    BY <1>5, <1>6 DEF BeginRound
  <2>2. mr' = [saved EXCEPT !.status = "UNDER_REVIEW", !.round = saved.round + 1]
    BY <2>1 DEF StartRound
  <2>3. /\ mr'.status = "UNDER_REVIEW" /\ mr'.round = mr.round + 1 /\ mr'.header = header
        /\ mr'.held = mr.held /\ mr'.locked = mr.locked /\ mr'.deleted = mr.deleted
    BY <2>2, <1>2 DEF Row
  <2>4. \A role \in Roles, x \in Users :
          participants'[role][x] = IF ps[role][x] = "NONE" THEN "NONE" ELSE "PENDING"
    BY <2>1, ClearedType
  <2>5. \A role \in Roles : \E x \in Users : participants'[role][x] # "NONE"
    BY <2>1, <2>4 DEF Members
  <2> HIDE DEF ps, saved, settled, changed
  <2> QED
    BY <1>3, <1>4, <1>5, <1>6, <2>1, <2>3, <2>4, <2>5 DEF Starts
<1>7. CASE ~submit
  <2>1. /\ mr' = settled /\ participants' = ps /\ decidedIn' = Kept(decidedIn, want)
        /\ UNCHANGED <<timeline, signed, reopened>>
    BY <1>5, <1>7
  <2>2. /\ mr'.round = mr.round /\ mr'.header = header
        /\ mr'.held = mr.held /\ mr'.locked = mr.locked /\ mr'.deleted = mr.deleted
        /\ \/ mr'.status = mr.status
           \/ \E role \in Roles : /\ mr.status = DecidesIn[role]
                                  /\ mr'.status = Positive[role]
                                  /\ DecidedPositively(participants', role)
    <3> HIDE DEF ps, saved, changed
    <3>1. CASE changed # {}
      BY <2>1, <1>2, <1>7, <3>1, SettledFacts
    <3>2. CASE changed = {}
      BY <2>1, <1>2, <1>7, <3>2
    <3> QED
      BY <3>1, <3>2
  <2>3. Replaced(saved, participants, ps, want)
    BY <1>2, <1>5, AssignedReplaces
  <2>4. \A role \in Roles, x \in Users : x \in want[role] => decidedIn'[role][x] = decidedIn[role][x]
    BY <2>1 DEF Kept
  <2> HIDE DEF ps, saved, settled, changed
  <2> QED
    BY <1>2, <1>3, <1>4, <1>5, <2>1, <2>2, <2>3, <2>4 DEF Revises, Replaced
<1> QED
  BY <1>6, <1>7

\* updateParticipants revises.
LEMMA UpdateParticipantsKind ==
  ASSUME TypeOK, NEW u \in Users, UpdateParticipants(u)
  PROVE  Revises
<1> USE DEF TypeOK
<1>1. PICK want \in [Roles -> SUBSET Users], moved \in SUBSET Roles :
        /\ ~mr.deleted
        /\ Changed(participants, want, moved) # {}
        /\ ReplaceAllowed(mr, participants, u, want, Changed(participants, want, moved))
        /\ participants' = Assigned(participants, want)
        /\ decidedIn' = Kept(decidedIn, want)
        /\ mr' = Settled(mr, Assigned(participants, want))
        /\ shown' = IF mr'.status = "DRAFT" THEN shown ELSE mr'.status
        /\ UNCHANGED <<lines, timeline, signed, reopened>>
  BY Zenon DEF UpdateParticipants, Reorderable
<1>2. mr.status \in EditableStatuses /\ ~mr.locked
  BY <1>1 DEF ReplaceAllowed, Changed, RoleEditable, EditableStatuses, Roles
<1>3. /\ \A f \in {"held", "round", "locked", "deleted", "header"} : mr'[f] = mr[f]
      /\ \/ mr'.status = mr.status
         \/ \E role \in Roles : /\ mr.status = DecidesIn[role]
                                /\ mr'.status = Positive[role]
                                /\ DecidedPositively(participants', role)
  BY <1>1, SettledFacts
<1>4. Replaced(mr, participants, participants', want)
  BY <1>1, AssignedReplaces
<1>5. \A role \in Roles, x \in Users : x \in want[role] => decidedIn'[role][x] = decidedIn[role][x]
  BY <1>1 DEF Kept
<1> QED
  BY <1>1, <1>2, <1>3, <1>4, <1>5 DEF Revises, Replaced

-----------------------------------------------------------------------------
(* Types.                                                                  *)

\* Starting a round keeps the row's type.
LEMMA StartRoundType ==
  ASSUME NEW row \in Row
  PROVE  StartRound(row) \in Row /\ StartRound(row).status = "UNDER_REVIEW"
<1>1. StartRound(row) = [row EXCEPT !.status = "UNDER_REVIEW", !.round = row.round + 1]
  BY DEF StartRound
<1>2. row.round + 1 \in Nat
  BY DEF Row
<1> QED
  BY <1>1, <1>2 DEF Row, Statuses

\* create gives a requisition of its type.
LEMMA InitType == Init => TypeOK
<1> SUFFICES ASSUME NEW header \in Headers, NEW lns \in Lines,
                    NEW want \in [Roles -> SUBSET Assignable], NEW submit \in BOOLEAN,
                    mr = IF submit THEN StartRound(Draft(header)) ELSE Draft(header),
                    participants = Assigned(Nobody, want),
                    edited = NoUsers, lines = lns, decidedIn = NoRounds, timeline = {},
                    shown = IF submit THEN "UNDER_REVIEW" ELSE "DRAFT",
                    signed = {}, reopened = FALSE
             PROVE  TypeOK
  BY Zenon DEF Init
<1>1. mr \in Row
  <2>1. Draft(header) \in Row /\ Draft(header).round = 0
    BY DEF Draft, Row, Statuses
  <2> QED
    BY <2>1, StartRoundType
<1>2. participants \in [Roles -> [Users -> Marks]]
  <2>1. Nobody \in [Roles -> [Users -> Marks]]
    BY DEF Nobody, Marks
  <2> QED
    BY <2>1, AssignedType
<1> QED
  BY <1>1, <1>2 DEF TypeOK, NoUsers, NoRounds, Statuses

\* Clearing the round of those who leave keeps the rounds' type.
LEMMA KeptType ==
  ASSUME TypeOK, NEW want
  PROVE  Kept(decidedIn, want) \in [Roles -> [Users -> Nat]]
BY DEF TypeOK, Kept

\* Starting a round, on whatever row the handler holds, keeps the types.
LEMMA BeginRoundType ==
  ASSUME NEW row \in Row, NEW ps \in [Roles -> [Users -> Marks]], BeginRound(row, ps)
  PROVE  /\ mr' \in Row /\ participants' \in [Roles -> [Users -> Marks]]
         /\ edited' \in [Roles -> SUBSET Users] /\ decidedIn' \in [Roles -> [Users -> Nat]]
         /\ signed' = {} /\ reopened' = FALSE
         /\ mr'.status = "UNDER_REVIEW"
<1>1. mr' \in Row /\ mr'.status = "UNDER_REVIEW"
  BY StartRoundType DEF BeginRound
<1>2. participants' \in [Roles -> [Users -> Marks]]
  BY ClearedType DEF BeginRound
<1> QED
  BY <1>1, <1>2 DEF BeginRound, NoUsers, NoRounds

\* The transaction of update keeps the types, on whatever row the handler holds.
LEMMA UpdateWritesType ==
  ASSUME TypeOK, NEW row \in Row, NEW u \in Users, NEW header \in Headers, NEW lns \in Lines,
         NEW want \in [Roles -> SUBSET Users], NEW moved, NEW submit \in BOOLEAN,
         UpdateWrites(row, u, header, lns, want, moved, submit)
  PROVE  TypeOK'
<1> USE DEF TypeOK
<1> DEFINE ps      == Assigned(participants, want)
           saved   == [row EXCEPT !.header = header]
           settled == IF Changed(participants, want, moved) # {} /\ ~submit
                      THEN Settled(saved, ps) ELSE saved
           charged == IF UnderReview(row) THEN EditorRole(settled, ps, u) ELSE {}
<1>1. saved \in Row
  BY DEF Row
<1>2. settled \in Row
  BY <1>1, SettledFacts
<1>3. ps \in [Roles -> [Users -> Marks]]
  BY AssignedType
<1>4. /\ lines' = lns
      /\ \/ BeginRound(saved, ps)
         \/ /\ mr' = settled
            /\ participants' = ps
            /\ edited' = [role \in Roles |-> (edited[role] \cap want[role]) \cup (IF role \in charged THEN {u} ELSE {})]
            /\ decidedIn' = Kept(decidedIn, want)
            /\ UNCHANGED <<signed, reopened>>
      /\ shown' = IF mr'.status = "DRAFT" THEN shown ELSE mr'.status
      /\ timeline' = timeline
  BY Zenon DEF UpdateWrites
<1> HIDE DEF ps, saved, settled, charged
<1>5. CASE BeginRound(saved, ps)
  BY <1>1, <1>3, <1>4, <1>5, BeginRoundType DEF Statuses
<1>6. CASE ~BeginRound(saved, ps)
  <2>1. mr' \in Row /\ participants' \in [Roles -> [Users -> Marks]]
    BY <1>2, <1>3, <1>4, <1>6
  <2>2. shown' \in Statuses \cup {"DELETED"}
    BY <1>4, <2>1 DEF Row
  <2>3. edited' \in [Roles -> SUBSET Users] /\ decidedIn' \in [Roles -> [Users -> Nat]]
    BY <1>4, <1>6, KeptType
  <2> QED
    BY <1>4, <1>6, <2>1, <2>2, <2>3
<1> QED
  BY <1>5, <1>6

\* The other transactions that save a row they hold keep the types.
LEMMA RowWritesType ==
  ASSUME TypeOK, NEW row \in Row,
         \/ SubmitWrites(row)
         \/ \E to \in Statuses : ChangeStatusWrites(row, to)
         \/ LockWrites(row)
         \/ RemoveWrites(row)
  PROVE  TypeOK'
<1> USE DEF TypeOK
<1>1. CASE SubmitWrites(row)
  BY <1>1, BeginRoundType DEF SubmitWrites, Statuses
<1>2. ASSUME NEW to \in Statuses, ChangeStatusWrites(row, to)
      PROVE  TypeOK'
  BY <1>2 DEF ChangeStatusWrites, MovedByHand, Row
<1>3. CASE LockWrites(row)
  BY <1>3 DEF LockWrites, Row
<1>4. CASE RemoveWrites(row)
  BY <1>4 DEF RemoveWrites, Row
<1> QED
  BY <1>1, <1>2, <1>3, <1>4

\* No handler takes the state out of its type.
LEMMA NextType == TypeOK /\ [Next]_vars => TypeOK'
<1> SUFFICES ASSUME TypeOK, [Next]_vars
             PROVE  TypeOK'
  OBVIOUS
<1> USE DEF TypeOK
<1>3. ASSUME NEW u \in Users, Update(u)
      PROVE  TypeOK'
  BY <1>3, UpdateWritesType DEF Update
<1>4. ASSUME NEW u \in Users, Submit(u)
      PROVE  TypeOK'
  BY <1>4, RowWritesType DEF Submit
<1>5. ASSUME NEW u \in Users, UpdateParticipants(u)
      PROVE  TypeOK'
  <2>1. PICK want \in [Roles -> SUBSET Users] :
          /\ participants' = Assigned(participants, want)
          /\ edited' = [role \in Roles |-> edited[role] \cap want[role]]
          /\ decidedIn' = Kept(decidedIn, want)
          /\ mr' = Settled(mr, Assigned(participants, want))
          /\ shown' = IF mr'.status = "DRAFT" THEN shown ELSE mr'.status
          /\ UNCHANGED <<lines, timeline, signed, reopened>>
    BY <1>5, Zenon DEF UpdateParticipants
  <2>2. mr' \in Row /\ participants' \in [Roles -> [Users -> Marks]]
    BY <2>1, SettledFacts, AssignedType
  <2>3. shown' \in Statuses \cup {"DELETED"}
    BY <2>1, <2>2 DEF Row
  <2> QED
    BY KeptType, <2>1, <2>2, <2>3
<1>6. ASSUME NEW u \in Users, NEW role \in Roles, NEW explained \in BOOLEAN,
             NEW decision \in Decisions[role], Decide(u, role, decision, explained)
      PROVE  TypeOK'
  <2>1. decision \in Statuses
    BY <1>6 DEF Decisions, Negative, Positive, Statuses, Roles
  <2>2. mr' \in Row /\ mr.round \in Nat
    BY <1>6, <2>1 DEF Decide, Row
  <2>3. decidedIn' \in [Roles -> [Users -> Nat]]
    BY <1>6, <2>2 DEF Decide
  <2>4. timeline' \subseteq Passed
    BY <1>6, <2>2 DEF Decide, Passed
  <2>5. participants' \in [Roles -> [Users -> Marks]]
    BY <1>6 DEF Decide, Marks
  <2>6. signed' \subseteq Headers \X Lines
    BY <1>6 DEF Decide, Content, Row
  <2> QED
    BY <1>6, <2>1, <2>2, <2>3, <2>4, <2>5, <2>6 DEF Decide
<1>7. ASSUME NEW u \in Users, NEW to \in Statuses, ChangeStatus(u, to)
      PROVE  TypeOK'
  BY <1>7, RowWritesType DEF ChangeStatus
<1>8. ASSUME NEW u \in Users, Remove(u)
      PROVE  TypeOK'
  BY <1>8, RowWritesType DEF Remove
<1>9. CASE LockForPurchaseOrder
  BY <1>9, RowWritesType DEF LockForPurchaseOrder
<1>10. CASE UNCHANGED vars
  BY <1>10 DEF vars
<1> QED
  BY <1>3, <1>4, <1>5, <1>6, <1>7, <1>8, <1>9, <1>10 DEF Next

\* The requisition, its participants and their histories keep their types.
THEOREM TypeCorrect == Spec => []TypeOK
BY InitType, NextType, PTL DEF Spec

-----------------------------------------------------------------------------
(* The inductive invariant.                                                *)

\* The invariants of Requisition support each other: a round settles by a
\* positive decision (StageIsDecided), which is on the timeline and so makes an
\* approval follow a review; where a requisition is held is where it stood
\* (HeldIsSubmitted); and a requisition waiting for approval has no approver's
\* decision to settle it without a signature (WaitingIsUndecided).
IInv ==
  /\ TypeOK
  /\ HeldIsSubmitted
  /\ StageIsDecided
  /\ DecisionsAreOfThisRound
  /\ PositiveIsOnTimeline
  /\ NoApprovalWithoutReview
  /\ SubmittedIsStaffed
  /\ WaitingIsUndecided
  /\ ApprovedIsWhatWasSigned
  /\ LockedIsApproved
  /\ TimelineShowsStatus

\* create establishes the invariant.
LEMMA InitIInv == Init => IInv
<1> SUFFICES ASSUME Init, TypeOK
             PROVE  IInv
  BY InitType
<1>1. PICK header \in Headers, lns \in Lines, want \in [Roles -> SUBSET Assignable], submit \in BOOLEAN :
        /\ submit => Complete(header, lns) /\ \A role \in Roles : want[role] # {}
        /\ mr = IF submit THEN StartRound(Draft(header)) ELSE Draft(header)
        /\ participants = Assigned(Nobody, want)
        /\ lines = lns /\ timeline = {} /\ reopened = FALSE
        /\ shown = IF submit THEN "UNDER_REVIEW" ELSE "DRAFT"
  BY Zenon DEF Init
<1>2. /\ mr.status = (IF submit THEN "UNDER_REVIEW" ELSE "DRAFT")
      /\ mr.held = "NONE" /\ mr.locked = FALSE /\ mr.deleted = FALSE /\ mr.header = header
  BY <1>1 DEF StartRound, Draft
<1>3. Stage = mr.status
  BY <1>2 DEF Stage
<1>4. \A role \in Roles, u \in Users :
        participants[role][u] = IF u \in want[role] THEN "PENDING" ELSE "NONE"
  BY <1>1 DEF Assigned, Nobody
<1>5. submit => \A role \in Roles : Members(participants, role) # {}
  BY <1>1, <1>4, UsersAssumption DEF Members
<1>6. StageIsDecided /\ HeldIsSubmitted
  BY <1>2, <1>3 DEF StageIsDecided, HeldIsSubmitted
<1>7. DecisionsAreOfThisRound /\ PositiveIsOnTimeline
  BY <1>4 DEF DecisionsAreOfThisRound, PositiveIsOnTimeline, Decided
<1>8. NoApprovalWithoutReview /\ TimelineShowsStatus /\ LockedIsApproved
  BY <1>1, <1>2 DEF NoApprovalWithoutReview, TimelineShowsStatus, LockedIsApproved
<1>9. SubmittedIsStaffed
  BY <1>2, <1>3, <1>5 DEF SubmittedIsStaffed
<1>10. WaitingIsUndecided
  BY <1>4 DEF WaitingIsUndecided
<1>11. ApprovedIsWhatWasSigned
  BY <1>1, <1>2, <1>3 DEF ApprovedIsWhatWasSigned
<1> QED
  BY <1>6, <1>7, <1>8, <1>9, <1>10, <1>11 DEF IInv

\* Starting a round keeps the invariant.
LEMMA StartsIInv ==
  ASSUME IInv, TypeOK', Starts
  PROVE  IInv'
<1> USE DEF IInv, Starts
<1>1. Stage' = "UNDER_REVIEW" /\ mr.status # "ON_HOLD"
  BY DEF Stage, SubmittableStatuses
<1>2. HeldIsSubmitted' /\ StageIsDecided'
  BY <1>1 DEF HeldIsSubmitted, StageIsDecided
<1>3. DecisionsAreOfThisRound' /\ PositiveIsOnTimeline'
  BY DEF DecisionsAreOfThisRound, PositiveIsOnTimeline, Decided
<1>4. NoApprovalWithoutReview'
  BY DEF NoApprovalWithoutReview
<1>5. SubmittedIsStaffed'
  BY DEF SubmittedIsStaffed, Members
<1>6. WaitingIsUndecided'
  BY DEF WaitingIsUndecided
<1>7. ApprovedIsWhatWasSigned'
  BY <1>1 DEF ApprovedIsWhatWasSigned
<1>8. LockedIsApproved' /\ TimelineShowsStatus'
  BY DEF LockedIsApproved, TimelineShowsStatus
<1> QED
  BY <1>2, <1>3, <1>4, <1>5, <1>6, <1>7, <1>8

\* Revising within a round keeps the invariant.
LEMMA RevisesIInv ==
  ASSUME IInv, TypeOK', Revises
  PROVE  IInv'
<1> USE DEF IInv, Revises
<1>1. /\ mr.status \in {"DRAFT", "UNDER_REVIEW", "REVIEWED", "RETURNED"}
      /\ \/ mr'.status = mr.status
         \/ mr.status = "UNDER_REVIEW" /\ mr'.status = "REVIEWED" /\ DecidedPositively(participants', "REVIEWER")
         \/ mr.status = "REVIEWED" /\ mr'.status = "APPROVED" /\ DecidedPositively(participants', "APPROVER")
  BY DEF EditableStatuses, Roles, DecidesIn, Positive
<1>2. Stage = mr.status /\ Stage' = mr'.status
  BY <1>1 DEF Stage
<1>3. mr.status = "REVIEWED" =>
        DecidedPositively(participants, "REVIEWER") /\ DecidedPositively(participants', "REVIEWER")
  BY <1>2 DEF StageIsDecided, DecidedPositively, Roles, RoleEditable
<1>4. HeldIsSubmitted' /\ StageIsDecided'
  BY <1>1, <1>2, <1>3 DEF HeldIsSubmitted, StageIsDecided
<1>5. DecisionsAreOfThisRound' /\ PositiveIsOnTimeline'
  BY DEF DecisionsAreOfThisRound, PositiveIsOnTimeline, Decided
<1>6. NoApprovalWithoutReview'
  BY DEF NoApprovalWithoutReview
<1>7. SubmittedIsStaffed'
  BY <1>1, <1>2 DEF SubmittedIsStaffed
<1>8. WaitingIsUndecided'
  BY <1>1, <1>2 DEF WaitingIsUndecided, DecidesIn, Roles, DecidedPositively
<1>9. ApprovedIsWhatWasSigned'
  <2>1. reopened \/ mr'.status # "APPROVED"
    BY <1>1, <1>2 DEF WaitingIsUndecided, DecidesIn, Roles, DecidedPositively
  <2> QED
    BY <1>1, <1>2, <2>1 DEF ApprovedIsWhatWasSigned, UnderReview
<1>10. LockedIsApproved' /\ TimelineShowsStatus'
  BY <1>1 DEF LockedIsApproved, TimelineShowsStatus, Negative
<1> QED
  BY <1>4, <1>5, <1>6, <1>7, <1>8, <1>9, <1>10

\* A decision keeps the invariant.
LEMMA DecideIInv ==
  ASSUME IInv, TypeOK', NEW u \in Users, NEW role \in Roles, NEW explained \in BOOLEAN,
         NEW decision \in Decisions[role], Decide(u, role, decision, explained)
  PROVE  IInv'
<1> USE DEF IInv
<1> DEFINE mark == IF decision = Positive[role] THEN "POSITIVE" ELSE "NEGATIVE"
           step == [round |-> mr.round, role |-> role]
<1>1. /\ ~mr.deleted /\ ~mr.locked
      /\ mr.status = DecidesIn[role]
      /\ participants[role][u] = "PENDING"
      /\ participants' = [participants EXCEPT ![role][u] = mark]
      /\ mr' = [mr EXCEPT !.status = decision]
      /\ decidedIn' = [decidedIn EXCEPT ![role][u] = mr.round]
      /\ timeline' = IF decision = Positive[role] THEN timeline \cup {step} ELSE timeline
      /\ shown' = IF decision = Positive[role] THEN decision ELSE shown
      /\ signed' = IF decision = "APPROVED" THEN signed \cup {Content} ELSE signed
      /\ UNCHANGED <<lines, reopened>>
  BY DEF Decide, PendingMembers
<1>2. /\ mr'.status = decision
      /\ mr'.held = mr.held /\ mr'.round = mr.round /\ mr'.header = mr.header
      /\ mr'.locked = mr.locked /\ mr'.deleted = mr.deleted
  BY <1>1 DEF TypeOK, Row
<1>3. /\ decision \in {"RETURNED", "REJECTED", "CANCELLED", "REVIEWED", "APPROVED"}
      /\ decision = "REVIEWED" => role = "REVIEWER"
      /\ decision = "APPROVED" => role = "APPROVER"
      /\ decision = Positive[role] <=> decision \in {"REVIEWED", "APPROVED"}
      /\ mr.status = IF role = "REVIEWER" THEN "UNDER_REVIEW" ELSE "REVIEWED"
  BY <1>1 DEF Decisions, Negative, Positive, DecidesIn, Roles
<1>4. Stage = mr.status /\ Stage' = decision
  BY <1>1, <1>2, <1>3 DEF Stage
<1>5. \A r \in Roles, x \in Users :
        /\ participants'[r][x] = IF r = role /\ x = u THEN mark ELSE participants[r][x]
        /\ decidedIn'[r][x] = IF r = role /\ x = u THEN mr.round ELSE decidedIn[r][x]
  BY <1>1 DEF TypeOK
<1> HIDE DEF mark
<1>6. mark = (IF decision \in {"REVIEWED", "APPROVED"} THEN "POSITIVE" ELSE "NEGATIVE")
  BY <1>3 DEF mark
<1>7. HeldIsSubmitted'
  BY <1>2, <1>3 DEF HeldIsSubmitted
<1>8. StageIsDecided'
  <2>1. decision \in {"REVIEWED", "APPROVED"} => DecidedPositively(participants', role)
    BY <1>5, <1>6 DEF DecidedPositively
  <2>2. decision = "APPROVED" => DecidedPositively(participants', "REVIEWER")
    BY <1>3, <1>4, <1>5 DEF StageIsDecided, DecidedPositively, Roles
  <2> QED
    BY <1>3, <1>4, <2>1, <2>2 DEF StageIsDecided
<1>9. DecisionsAreOfThisRound'
  BY <1>2, <1>5 DEF DecisionsAreOfThisRound
<1>10. PositiveIsOnTimeline'
  BY <1>1, <1>2, <1>3, <1>5, <1>6 DEF PositiveIsOnTimeline
<1>11. NoApprovalWithoutReview'
  <2>1. role = "APPROVER" => [round |-> mr.round, role |-> "REVIEWER"] \in timeline
    BY <1>3, <1>4 DEF StageIsDecided, DecidedPositively, PositiveIsOnTimeline, Roles
  <2>2. [step EXCEPT !.role = "REVIEWER"] = [round |-> mr.round, role |-> "REVIEWER"]
    OBVIOUS
  <2>3. role = "REVIEWER" => [step EXCEPT !.role = "REVIEWER"] = step
    OBVIOUS
  <2>4. timeline \subseteq timeline' /\ timeline' \subseteq timeline \cup {step}
    BY <1>1
  <2>5. step \in timeline' => [step EXCEPT !.role = "REVIEWER"] \in timeline'
    BY <2>1, <2>2, <2>3, <2>4 DEF Roles
  <2>6. ASSUME NEW e \in timeline
        PROVE  [e EXCEPT !.role = "REVIEWER"] \in timeline'
    BY <2>4 DEF NoApprovalWithoutReview
  <2> HIDE DEF step
  <2> QED
    BY <2>4, <2>5, <2>6 DEF NoApprovalWithoutReview
<1>12. SubmittedIsStaffed'
  BY <1>3, <1>4, <1>5, <1>6 DEF SubmittedIsStaffed, Members
<1>13. WaitingIsUndecided'
  BY <1>1, <1>3, <1>4, <1>5 DEF WaitingIsUndecided, DecidesIn, Roles
<1>14. ApprovedIsWhatWasSigned'
  BY <1>1, <1>2, <1>3, <1>4 DEF ApprovedIsWhatWasSigned, Content
<1>15. LockedIsApproved' /\ TimelineShowsStatus'
  BY <1>1, <1>2, <1>3 DEF LockedIsApproved, TimelineShowsStatus, Negative
<1> QED
  BY <1>7, <1>8, <1>9, <1>10, <1>11, <1>12, <1>13, <1>14, <1>15

\* Moving the status by hand keeps the invariant.
LEMMA ChangeStatusIInv ==
  ASSUME IInv, TypeOK', NEW u \in Users, NEW to \in Statuses, ChangeStatus(u, to)
  PROVE  IInv'
<1> USE DEF IInv
<1>1. /\ ~mr.deleted /\ ~mr.locked
      /\ MoveAllowed(mr, to)
      /\ mr' = [mr EXCEPT !.status = to, !.held = IF to = "ON_HOLD" THEN mr.status ELSE "NONE"]
      /\ shown' = to
      /\ reopened' = (reopened \/ (mr.status = "DISABLED" /\ to = "UNDER_REVIEW"))
      /\ UNCHANGED <<participants, lines, decidedIn, timeline, signed>>
  BY DEF ChangeStatus, ChangeStatusReads, ChangeStatusWrites, MovedByHand
<1>2. /\ mr'.status = to /\ mr'.held = IF to = "ON_HOLD" THEN mr.status ELSE "NONE"
      /\ mr'.round = mr.round /\ mr'.header = mr.header
      /\ mr'.locked = mr.locked /\ mr'.deleted = mr.deleted
  BY <1>1 DEF TypeOK, Row
<1>3. mr.status \in Statuses
  BY DEF TypeOK, Row
\* Holding and releasing keep the stage; every other move leaves review and
\* approval, or re-enables a disabled requisition.
<1>4. \/ to = "ON_HOLD" /\ mr.status \in {"UNDER_REVIEW", "REVIEWED", "APPROVED"}
      \/ mr.status = "ON_HOLD" /\ to = mr.held /\ to \in {"UNDER_REVIEW", "REVIEWED", "APPROVED"}
      \/ mr.status \notin {"DRAFT", "OBSOLETE"} /\ to \in {"DISABLED", "OBSOLETE"}
      \/ mr.status = "DISABLED" /\ to = "UNDER_REVIEW"
  BY <1>1, <1>3 DEF MoveAllowed, StatusTransitions, Statuses, HeldIsSubmitted
<1>5. \/ Stage' = Stage
      \/ Stage' \in {"DISABLED", "OBSOLETE"} /\ Stage # "DRAFT"
      \/ Stage = "DISABLED" /\ Stage' = "UNDER_REVIEW" /\ reopened'
  BY <1>1, <1>2, <1>4 DEF Stage, HeldIsSubmitted
<1>6. HeldIsSubmitted'
  BY <1>2, <1>4 DEF HeldIsSubmitted
<1>7. StageIsDecided'
  BY <1>1, <1>5 DEF StageIsDecided
<1>8. DecisionsAreOfThisRound' /\ PositiveIsOnTimeline' /\ NoApprovalWithoutReview'
  BY <1>1, <1>2 DEF DecisionsAreOfThisRound, PositiveIsOnTimeline, NoApprovalWithoutReview
<1>9. SubmittedIsStaffed'
  BY <1>1, <1>5 DEF SubmittedIsStaffed
<1>10. WaitingIsUndecided'
  BY <1>1, <1>5 DEF WaitingIsUndecided, DecidesIn, Roles
<1>11. ApprovedIsWhatWasSigned'
  <2>1. /\ Content' = Content /\ signed' = signed
        /\ reopened => reopened'
        /\ Complete(mr'.header, lines') <=> Complete(mr.header, lines)
    BY <1>1, <1>2 DEF Content
  <2> QED
    BY <1>5, <2>1 DEF ApprovedIsWhatWasSigned
<1>12. LockedIsApproved' /\ TimelineShowsStatus'
  BY <1>1, <1>2 DEF LockedIsApproved, TimelineShowsStatus
<1> QED
  BY <1>6, <1>7, <1>8, <1>9, <1>10, <1>11, <1>12

\* lockForPurchaseOrder and remove only mark the row.
LEMMA MarkIInv ==
  ASSUME IInv, TypeOK', LockForPurchaseOrder \/ (\E u \in Users : Remove(u))
  PROVE  IInv'
<1> USE DEF IInv
<1>1. /\ mr'.status = mr.status /\ mr'.held = mr.held
      /\ mr'.round = mr.round /\ mr'.header = mr.header
      /\ mr'.locked => mr'.status = "APPROVED" /\ ~mr'.deleted
      /\ ~mr'.deleted => shown' = mr'.status
      /\ UNCHANGED <<participants, lines, decidedIn, timeline, signed, reopened>>
  BY DEF LockForPurchaseOrder, LockReads, LockWrites, Remove, RemoveReads, RemoveWrites,
         LockedIsApproved, TypeOK, Row
<1>2. Stage' = Stage
  BY <1>1 DEF Stage
<1>3. HeldIsSubmitted' /\ StageIsDecided' /\ SubmittedIsStaffed' /\ WaitingIsUndecided'
  BY <1>1, <1>2 DEF HeldIsSubmitted, StageIsDecided, SubmittedIsStaffed, WaitingIsUndecided
<1>4. DecisionsAreOfThisRound' /\ PositiveIsOnTimeline' /\ NoApprovalWithoutReview'
  BY <1>1 DEF DecisionsAreOfThisRound, PositiveIsOnTimeline, NoApprovalWithoutReview
<1>5. ApprovedIsWhatWasSigned' /\ LockedIsApproved' /\ TimelineShowsStatus'
  BY <1>1, <1>2 DEF ApprovedIsWhatWasSigned, Content, LockedIsApproved, TimelineShowsStatus
<1> QED
  BY <1>3, <1>4, <1>5

\* The kinds of steps are all there are.
LEMMA StepKinds ==
  ASSUME TypeOK, Next
  PROVE  \/ Starts \/ Revises
         \/ \E u \in Users, role \in Roles, explained \in BOOLEAN :
              \E decision \in Decisions[role] : Decide(u, role, decision, explained)
         \/ \E u \in Users, to \in Statuses : ChangeStatus(u, to)
         \/ LockForPurchaseOrder \/ (\E u \in Users : Remove(u))
BY SubmitKind, UpdateKind, UpdateParticipantsKind, Zenon DEF Next

\* Every step keeps the invariant.
LEMMA NextIInv == IInv /\ [Next]_vars => IInv'
<1> SUFFICES ASSUME IInv, [Next]_vars
             PROVE  IInv'
  OBVIOUS
<1>1. TypeOK /\ TypeOK'
  BY NextType DEF IInv
<1>2. CASE Next
  BY <1>1, <1>2, StepKinds, StartsIInv, RevisesIInv, DecideIInv, ChangeStatusIInv, MarkIInv, Zenon
<1>3. CASE UNCHANGED vars
  BY <1>3 DEF vars, IInv, TypeOK, HeldIsSubmitted, StageIsDecided, DecisionsAreOfThisRound,
              PositiveIsOnTimeline, NoApprovalWithoutReview, SubmittedIsStaffed, WaitingIsUndecided,
              ApprovedIsWhatWasSigned, LockedIsApproved, TimelineShowsStatus, Stage, Content
<1> QED
  BY <1>2, <1>3

\* The invariant holds throughout.
LEMMA Inductive == Spec => []IInv
BY InitIInv, NextIInv, PTL DEF Spec

-----------------------------------------------------------------------------
(* The theorems.                                                           *)

\* A reviewed or approved requisition has the decisions it needs from people
\* still assigned, whatever participants are replaced and statuses moved.
THEOREM StageIsAlwaysDecided == Spec => []StageIsDecided
BY Inductive, PTL DEF IInv

\* No decision outlives its round.
THEOREM DecisionsStayInTheirRound == Spec => []DecisionsAreOfThisRound
BY Inductive, PTL DEF IInv

\* No round is approved on the timeline that was not reviewed on it.
THEOREM ApprovalFollowsReview == Spec => [](PositiveIsOnTimeline /\ NoApprovalWithoutReview)
BY Inductive, PTL DEF IInv

\* A submitted requisition always has a reviewer and an approver, and, unless it
\* was re-enabled, all those it waits for can still decide.
THEOREM SubmittedCanBeDecided == Spec => [](SubmittedIsStaffed /\ WaitingIsUndecided)
BY Inductive, PTL DEF IInv

\* Unless it was re-enabled, an approved requisition is what an approver signed.
THEOREM ApprovedContentWasSigned == Spec => []ApprovedIsWhatWasSigned
BY Inductive, PTL DEF IInv

\* A hold remembers a status it can be released to, a purchase order stands
\* against an approved requisition, and the timeline agrees with the requisition.
THEOREM RowAgrees == Spec => [](HeldIsSubmitted /\ LockedIsApproved /\ TimelineShowsStatus)
BY Inductive, PTL DEF IInv

\* Nothing about a requisition under a purchase order changes.
THEOREM LockFreezes == Spec => LockIsForGood
<1>1. IInv /\ [Next]_vars => [mr.locked => UNCHANGED <<mr, participants, lines>>]_vars
  <2> SUFFICES ASSUME IInv, Next, mr.locked
               PROVE  UNCHANGED <<mr, participants, lines>>
    OBVIOUS
  <2>1. mr.status = "APPROVED"
    BY DEF IInv, LockedIsApproved
  <2>2. ~Starts /\ ~Revises /\ ~LockForPurchaseOrder
    BY DEF Starts, Revises, LockForPurchaseOrder, LockReads
  <2>3. ASSUME NEW u \in Users PROVE ~Remove(u)
    BY <2>1 DEF Remove, RemoveReads
  <2>4. ASSUME NEW u \in Users, NEW role \in Roles, NEW explained, NEW decision
        PROVE  ~Decide(u, role, decision, explained)
    BY DEF Decide
  <2>5. ASSUME NEW u \in Users, NEW to PROVE ~ChangeStatus(u, to)
    BY DEF ChangeStatus, ChangeStatusReads
  <2> QED
    BY <2>2, <2>3, <2>4, <2>5, StepKinds, Zenon DEF IInv
<1> QED
  BY <1>1, Inductive, PTL DEF Spec, LockIsForGood

\* Rounds go up one at a time and only the start of one clears the decision of
\* somebody who stays.
THEOREM OnlyRoundsClear == Spec => DecisionsClearOnlyByRound
<1> DEFINE A == /\ mr'.round \in {mr.round, mr.round + 1}
                /\ \A role \in Roles, u \in Users :
                     participants[role][u] \in Decided =>
                       \/ participants'[role][u] \in {participants[role][u], "NONE"}
                       \/ mr'.round = mr.round + 1
<1>1. IInv /\ [Next]_vars => [A]_vars
  <2> SUFFICES ASSUME IInv, Next
               PROVE  A
    OBVIOUS
  <2> USE DEF IInv, TypeOK, Row
  <2>1. CASE Starts
    BY <2>1 DEF Starts
  <2>2. CASE Revises
    BY <2>2 DEF Revises, Decided
  <2>3. ASSUME NEW u \in Users, NEW role \in Roles, NEW explained, NEW decision \in Decisions[role],
               Decide(u, role, decision, explained)
        PROVE  A
    <3>1. mr'.round = mr.round
      BY <2>3 DEF Decide
    <3>2. ASSUME NEW r \in Roles, NEW x \in Users, participants[r][x] \in Decided
          PROVE  participants'[r][x] = participants[r][x]
      BY <2>3, <3>2 DEF Decide, PendingMembers, Decided
    <3> QED
      BY <3>1, <3>2
  <2>4. ASSUME NEW u \in Users, NEW to \in Statuses, ChangeStatus(u, to)
        PROVE  A
    BY <2>4 DEF ChangeStatus, ChangeStatusWrites, MovedByHand
  <2>5. CASE LockForPurchaseOrder \/ (\E u \in Users : Remove(u))
    BY <2>5 DEF LockForPurchaseOrder, LockWrites, Remove, RemoveWrites
  <2> HIDE DEF A
  <2> QED
    BY <2>1, <2>2, <2>3, <2>4, <2>5, StepKinds, Zenon
<1> QED
  BY <1>1, Inductive, PTL DEF Spec, DecisionsClearOnlyByRound

\* While approved, neither the content nor the people of a requisition change, and
\* it leaves that status only by hand.
THEOREM ApprovalIsFinal == Spec => ApprovedIsFinal
<1> DEFINE A == mr.status = "APPROVED" =>
                  /\ mr'.status \in {"APPROVED", "ON_HOLD", "DISABLED", "OBSOLETE"}
                  /\ UNCHANGED <<mr.header, lines, participants>>
<1>1. IInv /\ [Next]_vars => [A]_vars
  <2> SUFFICES ASSUME IInv, Next, mr.status = "APPROVED"
               PROVE  A
    OBVIOUS
  <2> USE DEF IInv, TypeOK, Row
  <2>1. ~Starts /\ ~Revises
    BY DEF Starts, Revises, SubmittableStatuses, EditableStatuses
  <2>2. ASSUME NEW u \in Users PROVE ~Remove(u)
    BY DEF Remove, RemoveReads
  <2>3. ASSUME NEW u \in Users, NEW role \in Roles, NEW explained, NEW decision
        PROVE  ~Decide(u, role, decision, explained)
    BY DEF Decide, DecidesIn
  <2>4. ASSUME NEW u \in Users, NEW to \in Statuses, ChangeStatus(u, to)
        PROVE  A
    <3>1. to \in {"ON_HOLD", "DISABLED", "OBSOLETE"}
      BY <2>4 DEF ChangeStatus, ChangeStatusReads, MoveAllowed, StatusTransitions, Statuses
    <3>2. /\ mr'.status = to /\ mr'.header = mr.header
          /\ UNCHANGED <<lines, participants>>
      BY <2>4 DEF ChangeStatus, ChangeStatusWrites, MovedByHand
    <3> QED
      BY <3>1, <3>2
  <2>5. CASE LockForPurchaseOrder
    BY <2>5 DEF LockForPurchaseOrder, LockWrites
  <2> HIDE DEF A
  <2> QED
    BY <2>1, <2>2, <2>3, <2>4, <2>5, StepKinds, Zenon
<1> QED
  BY <1>1, Inductive, PTL DEF Spec, ApprovedIsFinal

\* Nothing brings back a deleted or an obsolete requisition.
THEOREM EndIsFinal == Spec => EndIsForGood
<1> DEFINE A == /\ mr.deleted => mr'.deleted
                /\ mr.status = "OBSOLETE" => mr'.status = "OBSOLETE"
<1>1. IInv /\ [Next]_vars => [A]_vars
  <2> SUFFICES ASSUME IInv, Next
               PROVE  A
    OBVIOUS
  <2> USE DEF IInv, TypeOK, Row
  <2>1. CASE Starts \/ Revises
    BY <2>1 DEF Starts, Revises, SubmittableStatuses, EditableStatuses
  <2>2. ASSUME NEW u \in Users, NEW role \in Roles, NEW explained, NEW decision \in Decisions[role],
               Decide(u, role, decision, explained)
        PROVE  A
    BY <2>2 DEF Decide, DecidesIn
  <2>3. ASSUME NEW u \in Users, NEW to \in Statuses, ChangeStatus(u, to)
        PROVE  A
    <3>1. mr.status # "OBSOLETE" /\ ~mr.deleted
      BY <2>3 DEF ChangeStatus, ChangeStatusReads, MoveAllowed, StatusTransitions, Statuses
    <3> QED
      BY <3>1
  <2>4. CASE LockForPurchaseOrder \/ (\E u \in Users : Remove(u))
    BY <2>4 DEF LockForPurchaseOrder, LockWrites, Remove, RemoveWrites
  <2> HIDE DEF A
  <2> QED
    BY <2>1, <2>2, <2>3, <2>4, StepKinds, Zenon
<1> QED
  BY <1>1, Inductive, PTL DEF Spec, EndIsForGood

-----------------------------------------------------------------------------
(* RequisitionRaces. A transaction that saves the row a request read is    *)
(* shown to keep what is true of that row (HeldRowWrites); so all rows, the*)
(* one in the table and those in flight, stay earned together.             *)

\* Where a row stands was passed once, and so was what a participant row shows.
Earned(row, events) ==
  \A role \in Roles :
    (IF row.status = "ON_HOLD" THEN row.held ELSE row.status) = Positive[role] =>
      \E e \in events : e.role = role
Backed(ps, events) ==
  \A role \in Roles : DecidedPositively(ps, role) => \E e \in events : e.role = role

\* A request in flight has read a row its checks let through. Whoever locks or deletes
\* does not touch that row, only the one in the table.
FlightIsChecked ==
  \A q \in DOMAIN flight :
    /\ q \in Requests /\ flight[q] \in Row
    /\ ~flight[q].locked /\ ~flight[q].deleted
    /\ q.op = "changeStatus" => MoveAllowed(flight[q], q.to)
    /\ q.op = "lock" => flight[q].status = "APPROVED"
    /\ q.op = "remove" => flight[q].status = "DRAFT"

RaceIInv ==
  /\ TypeOK
  /\ Backed(participants, timeline)
  /\ FlightIsChecked
  /\ StatusIsEarned
  /\ LockedAndDeletedAgree

\* What a step leaves of the row in the table.
Sound == Earned(mr, timeline) /\ Backed(participants, timeline) /\ LockedAndDeletedAgree

\* A row stays earned while events are only added.
LEMMA EarnedStays ==
  ASSUME NEW row, NEW events, NEW more, events \subseteq more, Earned(row, events)
  PROVE  Earned(row, more)
BY DEF Earned

\* Assigning and clearing make nobody positive.
LEMMA BackedStays ==
  ASSUME NEW ps, NEW events, NEW want, Backed(ps, events)
  PROVE  Backed(Assigned(ps, want), events) /\ Backed(Cleared(ps), events)
<1>1. ASSUME NEW role \in Roles, DecidedPositively(Assigned(ps, want), role)
      PROVE  DecidedPositively(ps, role)
  BY <1>1 DEF DecidedPositively, Assigned
<1>2. ASSUME NEW role \in Roles
      PROVE  ~DecidedPositively(Cleared(ps), role)
  BY DEF DecidedPositively, Cleared
<1> QED
  BY <1>1, <1>2 DEF Backed

\* A round settles to a status that a decision of this round has earned.
LEMMA SettledEarned ==
  ASSUME NEW row \in Row, NEW ps, NEW events, Earned(row, events), Backed(ps, events)
  PROVE  Earned(Settled(row, ps), events)
<1>1. CASE Settled(row, ps) = row
  BY <1>1
<1>2. ASSUME NEW role \in Roles, Settled(row, ps).status = Positive[role], DecidedPositively(ps, role)
      PROVE  Earned(Settled(row, ps), events)
  BY <1>2 DEF Earned, Backed, Positive, Roles
<1> QED
  BY <1>1, <1>2, SettledFacts

\* A move by hand in the table goes to what was earned, or to what needs no decision.
LEMMA MovedEarned ==
  ASSUME NEW row \in Row, NEW events, NEW to \in Statuses, Earned(row, events), MoveAllowed(row, to)
  PROVE  Earned(MovedByHand(row, to), events)
<1>1. /\ row.status # "ON_HOLD" => to \in {"ON_HOLD", "DISABLED", "OBSOLETE", "UNDER_REVIEW"}
      /\ row.status = "ON_HOLD" => to \in {"DISABLED", "OBSOLETE", "UNDER_REVIEW", row.held}
      /\ row.status = "ON_HOLD" => to # "ON_HOLD"
  BY DEF MoveAllowed, StatusTransitions, Statuses, Row
<1>2. MovedByHand(row, to).status = to /\ MovedByHand(row, to).held = IF to = "ON_HOLD" THEN row.status ELSE "NONE"
  BY DEF MovedByHand, Row
<1> QED
  BY <1>1, <1>2 DEF Earned, Positive, Roles

\* The transaction of update on the row it holds.
LEMMA UpdateWritesSound ==
  ASSUME TypeOK, Backed(participants, timeline), NEW row \in Row, Earned(row, timeline), ~row.locked, ~row.deleted,
         NEW u \in Users, NEW header \in Headers, NEW lns \in Lines,
         NEW want \in [Roles -> SUBSET Users], NEW moved, NEW submit \in BOOLEAN,
         UpdateWrites(row, u, header, lns, want, moved, submit)
  PROVE  Sound' /\ timeline' = timeline
<1> DEFINE ps      == Assigned(participants, want)
           saved   == [row EXCEPT !.header = header]
           settled == IF Changed(participants, want, moved) # {} /\ ~submit
                      THEN Settled(saved, ps) ELSE saved
<1>1. /\ saved \in Row
      /\ \A f \in {"status", "held", "locked", "deleted"} : saved[f] = row[f]
  BY DEF Row
<1>2. Earned(saved, timeline) /\ Backed(ps, timeline)
  BY <1>1, BackedStays DEF Earned
<1>3. /\ \/ submit /\ BeginRound(saved, ps)
         \/ mr' = settled /\ participants' = ps
      /\ timeline' = timeline
  BY Zenon DEF UpdateWrites
<1> HIDE DEF ps, saved
<1>4. CASE mr' = settled /\ participants' = ps
  <2>1. Earned(mr', timeline)
    BY <1>1, <1>2, <1>4, SettledEarned
  <2>2. ~mr'.locked /\ ~mr'.deleted
    BY <1>1, <1>4, SettledFacts
  <2> QED
    BY <1>2, <1>3, <1>4, <2>1, <2>2 DEF Sound, LockedAndDeletedAgree, LockedIsApproved
<1>5. CASE BeginRound(saved, ps)
  <2>1. mr' = StartRound(saved) /\ participants' = Cleared(ps)
    BY <1>5 DEF BeginRound
  <2>2. mr'.status = "UNDER_REVIEW" /\ ~mr'.locked /\ ~mr'.deleted
    BY <1>1, <2>1 DEF StartRound, Row
  <2>3. Backed(participants', timeline)
    BY <1>2, <2>1, BackedStays
  <2> QED
    BY <1>3, <2>2, <2>3 DEF Sound, Earned, Positive, Roles, LockedAndDeletedAgree, LockedIsApproved
<1> QED
  BY <1>3, <1>4, <1>5

\* The other transactions on the row they hold.
LEMMA RowWritesSound ==
  ASSUME TypeOK, Backed(participants, timeline), NEW row \in Row, Earned(row, timeline), ~row.locked, ~row.deleted,
         \/ SubmitWrites(row)
         \/ \E to \in Statuses : MoveAllowed(row, to) /\ ChangeStatusWrites(row, to)
         \/ row.status = "APPROVED" /\ LockWrites(row)
         \/ row.status = "DRAFT" /\ RemoveWrites(row)
  PROVE  Sound' /\ timeline' = timeline
<1> USE DEF Sound, LockedAndDeletedAgree, LockedIsApproved
<1>1. CASE SubmitWrites(row)
  <2>1. mr' = StartRound(row) /\ participants' = Cleared(participants) /\ timeline' = timeline
    BY <1>1 DEF SubmitWrites, BeginRound
  <2>2. mr'.status = "UNDER_REVIEW" /\ ~mr'.locked /\ ~mr'.deleted
    BY <2>1 DEF StartRound, Row
  <2>3. Backed(participants', timeline)
    BY <2>1, BackedStays
  <2> QED
    BY <2>1, <2>2, <2>3 DEF Earned, Positive, Roles
<1>2. ASSUME NEW to \in Statuses, MoveAllowed(row, to), ChangeStatusWrites(row, to)
      PROVE  Sound' /\ timeline' = timeline
  <2>1. mr' = MovedByHand(row, to) /\ participants' = participants /\ timeline' = timeline
    BY <1>2 DEF ChangeStatusWrites
  <2>2. ~mr'.locked /\ ~mr'.deleted
    BY <2>1 DEF MovedByHand, Row
  <2> QED
    BY <1>2, <2>1, <2>2, MovedEarned
<1>3. CASE row.status = "APPROVED" /\ LockWrites(row)
  <2>1. /\ mr'.status = row.status /\ mr'.held = row.held /\ mr'.deleted = row.deleted
        /\ participants' = participants /\ timeline' = timeline
    BY <1>3 DEF LockWrites, Row
  <2> QED
    BY <1>3, <2>1 DEF Earned
<1>4. CASE row.status = "DRAFT" /\ RemoveWrites(row)
  <2>1. /\ mr'.status = row.status /\ mr'.held = row.held /\ mr'.locked = row.locked
        /\ participants' = participants /\ timeline' = timeline
    BY <1>4 DEF RemoveWrites, Row
  <2> QED
    BY <1>4, <2>1 DEF Earned
<1> QED
  BY <1>1, <1>2, <1>3, <1>4

\* A request nobody overtakes: it holds the row of the table, or locked it.
LEMMA NextSound ==
  ASSUME RaceIInv, Next
  PROVE  Sound' /\ timeline \subseteq timeline'
<1>1. /\ TypeOK /\ mr \in Row /\ Backed(participants, timeline) /\ Earned(mr, timeline)
      /\ participants \in [Roles -> [Users -> Marks]]
  BY DEF RaceIInv, TypeOK, StatusIsEarned, Earned
<1>2. ASSUME NEW u \in Users, Update(u)
      PROVE  Sound' /\ timeline \subseteq timeline'
  <2>1. PICK header \in Headers, lns \in Lines, submit \in BOOLEAN,
             want \in [Roles -> SUBSET Users], moved \in SUBSET Roles :
          /\ UpdateReads(u, header, lns, submit)
          /\ UpdateWrites(mr, u, header, lns, want, moved, submit)
    BY <1>2 DEF Update, Reorderable
  <2>2. ~mr.locked /\ ~mr.deleted
    BY <2>1 DEF UpdateReads, MayEdit
  <2> QED
    BY <1>1, <2>1, <2>2, UpdateWritesSound
<1>3. ASSUME NEW u \in Users, Submit(u)
      PROVE  Sound' /\ timeline \subseteq timeline'
  BY <1>1, <1>3, RowWritesSound DEF Submit, SubmitReads, CanSubmit
<1>4. ASSUME NEW u \in Users, UpdateParticipants(u)
      PROVE  Sound' /\ timeline \subseteq timeline'
  <2>1. PICK want \in [Roles -> SUBSET Users], moved \in SUBSET Roles :
          /\ ~mr.deleted
          /\ Changed(participants, want, moved) # {}
          /\ ReplaceAllowed(mr, participants, u, want, Changed(participants, want, moved))
          /\ participants' = Assigned(participants, want)
          /\ mr' = Settled(mr, Assigned(participants, want))
          /\ timeline' = timeline
    BY <1>4, Zenon DEF UpdateParticipants, Reorderable
  <2>2. ~mr'.locked /\ ~mr'.deleted
    BY <1>1, <2>1, SettledFacts DEF ReplaceAllowed
  <2>3. Backed(participants', timeline')
    BY <1>1, <2>1, BackedStays
  <2>4. Earned(mr', timeline')
    BY <1>1, <2>1, <2>3, SettledEarned
  <2> QED
    BY <2>1, <2>2, <2>3, <2>4 DEF Sound, LockedAndDeletedAgree, LockedIsApproved
<1>5. ASSUME NEW u \in Users, NEW role \in Roles, NEW explained \in BOOLEAN, NEW decision \in Decisions[role],
             Decide(u, role, decision, explained)
      PROVE  Sound' /\ timeline \subseteq timeline'
  <2>1. /\ ~mr.locked /\ ~mr.deleted
        /\ participants' = [participants EXCEPT ![role][u] = IF decision = Positive[role] THEN "POSITIVE" ELSE "NEGATIVE"]
        /\ mr' = [mr EXCEPT !.status = decision]
        /\ timeline' = IF decision = Positive[role]
                       THEN timeline \cup {[round |-> mr.round, role |-> role]} ELSE timeline
    BY <1>5 DEF Decide
  <2>2. /\ timeline \subseteq timeline'
        /\ decision = Positive[role] => \E e \in timeline' : e.role = role
    <3>1. [round |-> mr.round, role |-> role].role = role
      OBVIOUS
    <3> QED
      BY <2>1, <3>1, Zenon
  <2>3. ASSUME NEW r \in Roles, DecidedPositively(participants', r)
        PROVE  \/ DecidedPositively(participants, r)
               \/ r = role /\ decision = Positive[role]
    BY <1>1, <2>1, <2>3 DEF DecidedPositively
  <2>4. Backed(participants', timeline')
    BY <1>1, <2>1, <2>2, <2>3 DEF Backed
  <2>5. mr'.status = decision /\ ~mr'.locked /\ ~mr'.deleted
    BY <1>1, <2>1 DEF Row
  <2>6. Earned(mr', timeline')
    BY <2>1, <2>2, <2>5 DEF Earned, Decisions, Negative, Positive, Roles
  <2> QED
    BY <2>1, <2>4, <2>5, <2>6 DEF Sound, LockedAndDeletedAgree, LockedIsApproved
<1>6. ASSUME NEW u \in Users, NEW to \in Statuses, ChangeStatus(u, to)
      PROVE  Sound' /\ timeline \subseteq timeline'
  BY <1>1, <1>6, RowWritesSound DEF ChangeStatus, ChangeStatusReads
<1>7. ASSUME NEW u \in Users, Remove(u)
      PROVE  Sound' /\ timeline \subseteq timeline'
  <2>1. ~mr.locked
    BY <1>7 DEF Remove, RemoveReads, RaceIInv, LockedAndDeletedAgree, LockedIsApproved
  <2> QED
    BY <1>1, <1>7, <2>1, RowWritesSound DEF Remove, RemoveReads
<1>8. CASE LockForPurchaseOrder
  BY <1>1, <1>8, RowWritesSound DEF LockForPurchaseOrder, LockReads
<1> QED
  BY <1>2, <1>3, <1>4, <1>5, <1>6, <1>7, <1>8 DEF Next

\* A request reads a row its checks let through.
LEMMA ReadChecked ==
  ASSUME RaceIInv, NEW q \in Requests, Read(q)
  PROVE  RaceIInv'
<1> USE DEF RaceIInv
<1>1. /\ \A p \in DOMAIN flight \cup {q} : flight'[p] = IF p = q THEN mr ELSE flight[p]
      /\ DOMAIN flight' = DOMAIN flight \cup {q}
      /\ q \notin DOMAIN flight /\ Check(q) /\ UNCHANGED vars
  BY DEF Read
<1>2. TypeOK'
  BY <1>1 DEF vars, TypeOK
<1>3. /\ ~mr.locked /\ ~mr.deleted
      /\ q.op = "changeStatus" => MoveAllowed(mr, q.to)
      /\ q.op = "lock" => mr.status = "APPROVED"
      /\ q.op = "remove" => mr.status = "DRAFT"
  BY <1>1, RequestsAssumption DEF Check, UpdateReads, MayEdit, SubmitReads, CanSubmit, ChangeStatusReads,
     LockReads, RemoveReads, LockedAndDeletedAgree, LockedIsApproved
<1>4. FlightIsChecked'
  BY <1>1, <1>3 DEF FlightIsChecked, TypeOK
<1>5. StatusIsEarned'
  BY <1>1 DEF StatusIsEarned, vars
<1>6. Backed(participants, timeline)' /\ LockedAndDeletedAgree'
  BY <1>1 DEF vars, LockedAndDeletedAgree, LockedIsApproved
<1> QED
  BY <1>2, <1>4, <1>5, <1>6

\* A transaction commits on the row its request has read.
LEMMA CommitSound ==
  ASSUME RaceIInv, NEW q \in DOMAIN flight,
         \/ CommitUpdate(q) \/ CommitSubmit(q) \/ CommitChangeStatus(q) \/ CommitLock(q) \/ CommitRemove(q)
  PROVE  TypeOK' /\ Sound' /\ timeline' = timeline
<1>1. /\ TypeOK /\ Backed(participants, timeline)
      /\ flight[q] \in Row /\ ~flight[q].locked /\ ~flight[q].deleted /\ q \in Requests
      /\ Earned(flight[q], timeline)
  BY DEF RaceIInv, FlightIsChecked, StatusIsEarned, Earned
<1>2. CASE CommitUpdate(q)
  <2> DEFINE want == IF q.people THEN q.want ELSE [role \in Roles |-> Members(participants, role)]
  <2>1. q.op = "update" /\ UpdateWrites(flight[q], q.by, q.header, q.lines, want, {}, q.submit)
    BY <1>2 DEF CommitUpdate, Committing
  <2>2. /\ q.by \in Users /\ q.header \in Headers /\ q.lines \in Lines /\ q.submit \in BOOLEAN
        /\ want \in [Roles -> SUBSET Users]
    BY <1>1, <2>1, RequestsAssumption DEF Members
  <2> HIDE DEF want
  <2> QED
    BY <1>1, <2>1, <2>2, UpdateWritesType, UpdateWritesSound
<1>3. CASE CommitSubmit(q)
  BY <1>1, <1>3, RowWritesType, RowWritesSound DEF CommitSubmit
<1>4. CASE CommitChangeStatus(q)
  <2>1. q.to \in Statuses /\ MoveAllowed(flight[q], q.to) /\ ChangeStatusWrites(flight[q], q.to)
    BY <1>1, <1>4, RequestsAssumption DEF CommitChangeStatus, Committing, RaceIInv, FlightIsChecked
  <2> QED
    BY <1>1, <2>1, RowWritesType, RowWritesSound
<1>5. CASE CommitLock(q)
  <2>1. flight[q].status = "APPROVED" /\ LockWrites(flight[q])
    BY <1>5 DEF CommitLock, Committing, RaceIInv, FlightIsChecked
  <2> QED
    BY <1>1, <2>1, RowWritesType, RowWritesSound
<1>6. CASE CommitRemove(q)
  <2>1. flight[q].status = "DRAFT" /\ RemoveWrites(flight[q])
    BY <1>6 DEF CommitRemove, Committing, RaceIInv, FlightIsChecked
  <2> QED
    BY <1>1, <2>1, RowWritesType, RowWritesSound
<1> QED
  BY <1>2, <1>3, <1>4, <1>5, <1>6

\* Rows that stay in flight stay as they are, and the timeline only grows.
LEMMA FlightStays ==
  ASSUME RaceIInv, TypeOK', Sound', timeline \subseteq timeline',
         DOMAIN flight' \subseteq DOMAIN flight, \A q \in DOMAIN flight' : flight'[q] = flight[q]
  PROVE  RaceIInv'
<1>1. FlightIsChecked'
  BY DEF RaceIInv, FlightIsChecked
<1>2. \A q \in DOMAIN flight' : Earned(flight'[q], timeline')
  <2>1. \A q \in DOMAIN flight : Earned(flight[q], timeline)
    BY DEF RaceIInv, StatusIsEarned, Earned
  <2> QED
    BY <2>1, EarnedStays
<1>3. StatusIsEarned'
  BY <1>2 DEF StatusIsEarned, Sound, Earned
<1> QED
  BY <1>1, <1>3 DEF RaceIInv, Sound

LEMMA RaceInductive == RaceIInv /\ [RaceNext]_raceVars => RaceIInv'
<1> SUFFICES ASSUME RaceIInv, [RaceNext]_raceVars
             PROVE  RaceIInv'
  OBVIOUS
<1>1. CASE Next /\ UNCHANGED flight
  BY <1>1, NextType, NextSound, FlightStays DEF RaceIInv
<1>2. ASSUME NEW q \in Requests, Read(q)
      PROVE  RaceIInv'
  BY <1>2, ReadChecked
<1>3. ASSUME NEW q \in DOMAIN flight,
             CommitUpdate(q) \/ CommitSubmit(q) \/ CommitChangeStatus(q) \/ CommitLock(q) \/ CommitRemove(q)
      PROVE  RaceIInv'
  <2>1. flight' = [p \in DOMAIN flight \ {q} |-> flight[p]]
    BY <1>3 DEF CommitUpdate, CommitSubmit, CommitChangeStatus, CommitLock, CommitRemove, Committing
  <2> QED
    BY <1>3, <2>1, CommitSound, FlightStays
<1>4. CASE UNCHANGED raceVars
  BY <1>4 DEF raceVars, vars, RaceIInv, TypeOK, Backed, DecidedPositively, FlightIsChecked, StatusIsEarned,
     LockedAndDeletedAgree, LockedIsApproved
<1> QED
  BY <1>1, <1>2, <1>3, <1>4 DEF RaceNext

LEMMA RaceStart == RaceInit => RaceIInv
<1> SUFFICES ASSUME RaceInit
             PROVE  RaceIInv
  OBVIOUS
<1>1. TypeOK /\ IInv /\ flight = <<>> /\ DOMAIN flight = {}
  BY InitIInv DEF RaceInit, IInv
<1>2. Backed(participants, timeline)
  BY <1>1 DEF IInv, PositiveIsOnTimeline, Backed, DecidedPositively
<1>3. mr.status \in {"DRAFT", "UNDER_REVIEW"} /\ ~mr.deleted
  BY DEF RaceInit, Init, StartRound, Draft
<1>4. StatusIsEarned
  BY <1>1, <1>3 DEF StatusIsEarned, Positive, Roles
<1> QED
  BY <1>1, <1>2, <1>3, <1>4 DEF RaceIInv, FlightIsChecked, LockedAndDeletedAgree, IInv

\* However requests overtake one another, no row stands reviewed or approved that
\* nobody ever reviewed or approved (update, submit and changeStatus, which save
\* the entity they read).
THEOREM StatusStaysEarned == RaceSpec => []StatusIsEarned
BY RaceStart, RaceInductive, PTL DEF RaceSpec, RaceIInv

\* However requests overtake one another, a purchase order locks only an approved
\* requisition and only a draft is deleted (lockForPurchaseOrder, remove).
THEOREM LockAndDeletionAgree == RaceSpec => []LockedAndDeletedAgree
BY RaceStart, RaceInductive, PTL DEF RaceSpec, RaceIInv

=============================================================================
