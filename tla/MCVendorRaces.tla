---------------------------- MODULE MCVendorRaces ----------------------------
(***************************************************************************)
(* One vendor, an administrator a and a procurement manager p. The calls   *)
(* that others may overtake: an edit and an evaluation by p, enabling and  *)
(* a request to blacklist by a, p's approval of the first request and a's  *)
(* withdrawal of it.                                                       *)
(***************************************************************************)
EXTENDS VendorRaces

CONSTANTS a, p, d

TwoUsers == {a, p}
AdminOnly == {a}
OneVersion == {d}

Edit == [op |-> "update", by |-> p, details |-> d]
Call(op) == [op |-> op, by |-> a]
RaiseIt(kind) == [op |-> "raise", by |-> a, kind |-> kind]
OnFirst(op, u) == [op |-> op, by |-> u, request |-> 1]

Evaluation == {[op |-> "evaluate", by |-> p], [op |-> "activate", by |-> p]}
AllCalls == {Edit, Call("enable"), RaiseIt("BLACKLIST"), OnFirst("approve", p), OnFirst("cancel", a)}
            \cup Evaluation
JustEdit == {Edit}

=============================================================================
