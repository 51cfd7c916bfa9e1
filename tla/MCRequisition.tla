---------------------------- MODULE MCRequisition ----------------------------
(***************************************************************************)
(* One requisition for TLC. Its requester o, a writer w (o is a writer too *)
(* where w is not used) and an internal user a. Two headers of which bare  *)
(* lacks what submitting needs, and lines that are missing or in one of two*)
(* versions. Requisition.cfg gives the content its variety and lets a alone*)
(* be assigned; the claim about approvals needs one content and two people.*)
(***************************************************************************)
EXTENDS Requisition, TLC

CONSTANTS o, w, a, bare, full, none, l1, l2

AllUsers == {o, w, a}
WriterOnly == {w}
OtherUser == {a}
TwoUsers == {o, a}
RequesterOnly == {o}

AllHeaders == {bare, full}
FullHeader == {full}
AllLines == {none, l1, l2}
SomeLines == {l1, l2}
OneVersion == {l1}

\* The two complete versions of the lines are interchangeable.
Symmetry == Permutations({l1, l2})

=============================================================================
