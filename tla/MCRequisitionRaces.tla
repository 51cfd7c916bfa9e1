------------------------- MODULE MCRequisitionRaces -------------------------
(***************************************************************************)
(* One requisition, one round. Its requester o is the only writer, a is the*)
(* only user who can be assigned, to either role. The requests that others *)
(* may overtake, all made by o: an edit that assigns a, a submission, a    *)
(* hold, a purchase order lock and a deletion.                             *)
(***************************************************************************)
EXTENDS RequisitionRaces

CONSTANTS o, a, h, l

TwoUsers == {o, a}
RequesterOnly == {o}
OtherUser == {a}
OneHeader == {h}
OneVersion == {l}

Assign == [op |-> "update", by |-> o, header |-> h, lines |-> l, submit |-> FALSE, people |-> TRUE,
           want |-> [role \in Roles |-> {a}]]
SubmitIt == [op |-> "submit", by |-> o]
Move(to) == [op |-> "changeStatus", by |-> o, to |-> to]
LockIt == [op |-> "lock", by |-> o]
RemoveIt == [op |-> "remove", by |-> o]

AllRequests == {Assign, SubmitIt, Move("ON_HOLD"), LockIt, RemoveIt}
JustMove == {Move("ON_HOLD")}

=============================================================================
