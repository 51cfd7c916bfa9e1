----------------------------- MODULE DualControl -----------------------------
(***************************************************************************)
(* What the maker-checker of vendor.service.ts promises: whether a subject *)
(* is barred changes only when one person proposes it and another one      *)
(* countersigns. At most one proposal is open, it always proposes the      *)
(* opposite of what stands, dropping it leaves everything as it was, and   *)
(* what was agreed, by whom and with whom, stays on record.                *)
(***************************************************************************)
CONSTANT People

VARIABLES
  barred,    \* whether the subject is barred
  gone,      \* whether the subject has left
  proposal,  \* the open proposal, a set of at most one
  agreed     \* what two people agreed on so far

vars == <<barred, gone, proposal, agreed>>

Init == barred \in BOOLEAN /\ gone = FALSE /\ proposal = {} /\ agreed = {}

Propose(u) ==
  /\ ~gone
  /\ proposal = {}
  /\ proposal' = {[bar |-> ~barred, by |-> u]}
  /\ UNCHANGED <<barred, gone, agreed>>

Countersign(u) ==
  \E p \in proposal :
    /\ u # p.by
    /\ barred' = p.bar
    /\ proposal' = {}
    /\ agreed' = agreed \cup {[bar |-> p.bar, by |-> p.by, with |-> u]}
    /\ UNCHANGED gone

\* Rejected by another, withdrawn by its maker, or expired.
Drop ==
  /\ proposal # {}
  /\ proposal' = {}
  /\ UNCHANGED <<barred, gone, agreed>>

\* The subject leaves for good, which no open proposal may be waiting for.
Retire ==
  /\ ~gone
  /\ proposal = {}
  /\ barred' = FALSE
  /\ gone' = TRUE
  /\ UNCHANGED <<proposal, agreed>>

Next ==
  \/ \E u \in People : Propose(u) \/ Countersign(u)
  \/ Drop
  \/ Retire

Spec == Init /\ [][Next]_vars

=============================================================================
