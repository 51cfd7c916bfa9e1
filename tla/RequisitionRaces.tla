-------------------------- MODULE RequisitionRaces --------------------------
(***************************************************************************)
(* The requisition under concurrent requests.                              *)
(*                                                                         *)
(* update, submit, changeStatus, lockForPurchaseOrder and remove read the  *)
(* row outside any transaction, check it, and later open a transaction that*)
(* saves the entity they read. save() writes every column of that entity   *)
(* which differs from the row, so what others wrote in between is written  *)
(* back to what it was. decide and updateParticipants lock the row first   *)
(* and are one step.                                                       *)
(*                                                                         *)
(* Requests names those that others may overtake: each can be in flight, at*)
(* most once at a time, with any steps of Requisition (requests nobody     *)
(* overtakes) around it. A request refused by its checks, or rolled back,  *)
(* changes nothing and is not represented. A transaction is one step: what *)
(* it reads inside, participants and lines, is current.                    *)
(***************************************************************************)
EXTENDS Requisition

CONSTANT Requests  \* records with the handler `op`, who calls it and with what

\* What the DTOs of the routes let through.
ASSUME RequestsAssumption ==
  \A q \in Requests :
    /\ q.op \in {"update", "submit", "changeStatus", "lock", "remove"}
    /\ q.op = "update" => /\ q.by \in Users /\ q.header \in Headers /\ q.lines \in Lines
                          /\ q.submit \in BOOLEAN /\ q.people \in BOOLEAN
                          /\ q.people => q.want \in [Roles -> SUBSET Users]
    /\ q.op = "changeStatus" => q.to \in Statuses

VARIABLE flight  \* flight[q]: the row the request q in flight has read

raceVars == <<vars, flight>>

RaceInit == Init /\ flight = <<>>

Check(q) ==
  CASE q.op = "update" -> UpdateReads(q.by, q.header, q.lines, q.submit)
    [] q.op = "submit" -> SubmitReads(q.by)
    [] q.op = "changeStatus" -> ChangeStatusReads(q.by, q.to)
    [] q.op = "lock" -> LockReads
    [] q.op = "remove" -> RemoveReads(q.by)

Read(q) ==
  /\ q \notin DOMAIN flight
  /\ Check(q)
  /\ flight' = [p \in DOMAIN flight \cup {q} |-> IF p = q THEN mr ELSE flight[p]]
  /\ UNCHANGED vars

\* The transaction of q ends and the request with it.
Committing(q, op) ==
  /\ q.op = op
  /\ flight' = [p \in DOMAIN flight \ {q} |-> flight[p]]

\* The list of participants is sent when q.people is TRUE, else left alone.
CommitUpdate(q) ==
  /\ Committing(q, "update")
  /\ LET want == IF q.people THEN q.want ELSE [role \in Roles |-> Members(participants, role)]
     IN UpdateWrites(flight[q], q.by, q.header, q.lines, want, {}, q.submit)

CommitSubmit(q) == Committing(q, "submit") /\ SubmitWrites(flight[q])
CommitChangeStatus(q) == Committing(q, "changeStatus") /\ ChangeStatusWrites(flight[q], q.to)
CommitLock(q) == Committing(q, "lock") /\ LockWrites(flight[q])
CommitRemove(q) == Committing(q, "remove") /\ RemoveWrites(flight[q])

RaceNext ==
  \/ Next /\ UNCHANGED flight
  \/ \E q \in Requests : Read(q)
  \/ \E q \in DOMAIN flight : \/ CommitUpdate(q)
                             \/ CommitSubmit(q)
                             \/ CommitChangeStatus(q)
                             \/ CommitLock(q)
                             \/ CommitRemove(q)

RaceSpec == RaceInit /\ [][RaceNext]_raceVars

-----------------------------------------------------------------------------
(* What survives any interleaving.                                         *)

\* Whatever requests overtake each other, nothing stands reviewed or approved
\* that no reviewer or approver ever passed, and no request in flight carries
\* such a row: a stale save repeats a status that was earned.
StatusIsEarned ==
  \A row \in {mr} \cup {flight[q] : q \in DOMAIN flight} :
    \A role \in Roles :
      (IF row.status = "ON_HOLD" THEN row.held ELSE row.status) = Positive[role] =>
        \E e \in timeline : e.role = role

\* A purchase order only ever stands against an approved requisition, and only
\* a draft is ever deleted.
LockedAndDeletedAgree ==
  /\ LockedIsApproved
  /\ mr.deleted => mr.status = "DRAFT"

-----------------------------------------------------------------------------
(* What a comment promises and a race breaks.                              *)

\* "from then on the requisition ... cannot be edited"
\* (material-requisition.service.ts:512): the lock of a purchase order stays.
LockStays == [][mr.locked => mr'.locked]_raceVars

=============================================================================
