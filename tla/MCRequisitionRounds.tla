------------------------ MODULE MCRequisitionRounds ------------------------
(***************************************************************************)
(* One requisition through its rounds, and beside it the emails of one:    *)
(* they share the rules and no variable, so one of the two moves in each   *)
(* behavior and the other rests. Its requester o, who may write, and an    *)
(* internal user a; both can be assigned to either role. One content, which*)
(* is complete.                                                            *)
(***************************************************************************)
EXTENDS Requisition, RequisitionMail

CONSTANTS o, a, full, l1

TwoUsers == {o, a}
RequesterOnly == {o}
FullHeader == {full}
OneVersion == {l1}

VARIABLE moving

roundsVars == <<moving, vars, mailVars>>

RoundsInit ==
  /\ moving \in {"requisition", "emails"}
  /\ Init /\ MailInit
  /\ moving = "emails" => participants = Nobody

RoundsNext ==
  \/ moving = "requisition" /\ Next /\ UNCHANGED <<moving, mailVars>>
  \/ moving = "emails" /\ MailNext /\ UNCHANGED <<moving, vars>>

RoundsSpec == RoundsInit /\ [][RoundsNext]_roundsVars

=============================================================================
