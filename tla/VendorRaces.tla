----------------------------- MODULE VendorRaces -----------------------------
(***************************************************************************)
(* The vendor under concurrent requests.                                   *)
(*                                                                         *)
(* Every handler reads the vendor (approve, reject and cancel first their  *)
(* request) outside any transaction, checks it, and later saves the entity *)
(* it read: every column that differs from the row is written back.        *)
(* Status change requests are updated field by field. addEvaluation saves  *)
(* the vendor and then calls enable, which reads it again and saves it     *)
(* again. expireStaleStatusChangeRequests updates what it found stale.     *)
(*                                                                         *)
(* Calls names the requests that others may overtake: each can be in       *)
(* flight, at most once at a time, with any steps of Vendor (requests      *)
(* nobody overtakes) around it. A call refused by its checks changes       *)
(* nothing and is not represented. A transaction is one step.              *)
(*                                                                         *)
(* Bounds: those of Vendor, and MaxFlight.                                 *)
(***************************************************************************)
EXTENDS Vendor, FiniteSets

CONSTANTS
  Calls,      \* records with the handler `op`, its caller `by` and its arguments
  MaxFlight   \* how many of them may have read the vendor and not yet saved it

Decisive == {"approve", "reject", "cancel"}

\* The roles of the routes, and what their DTOs let through.
ASSUME CallsAssumption ==
  \A c \in Calls :
    \/ c.op \in Decisive \cup {"activate"} /\ c.by \in Deciders
    \/ c.op = "raise" /\ c.by \in Deciders /\ c.kind \in Kinds
    \/ c.op = "evaluate" /\ c.by \in Deciders /\ [op |-> "activate", by |-> c.by] \in Calls
    \/ c.op \in {"enable", "disable"} /\ c.by \in Admins
    \/ c.op = "remove" /\ c.by \in Removers
    \/ c.op = "update" /\ c.by \in Users /\ c.details \in Details

VARIABLES
  begun,   \* the calls that still have to read the vendor: decisive ones have
           \* checked their request, activate ones follow an evaluation
  flight,  \* flight[c]: the vendor row the call c has read
  found,   \* the stale requests a running expiry has found
  signed   \* history: the approvals committed, [kind, by, decidedBy]

raceVars == <<vars, begun, flight, found, signed>>

RaceInit == Init /\ begun = {} /\ flight = <<>> /\ found = {} /\ signed = {}

RequestCheck(c) ==
  /\ c.request \in DOMAIN requests
  /\ IF c.op = "cancel" THEN CancelReads(c.by, c.request) ELSE DecideReads(c.by, c.request)

Begin(c) ==
  /\ c.op \in Decisive
  /\ c \notin begun \cup DOMAIN flight
  /\ RequestCheck(c)
  /\ begun' = begun \cup {c}
  /\ UNCHANGED <<vars, flight, found, signed>>

VendorCheck(c) ==
  CASE c.op \in Decisive \cup {"update", "evaluate"} -> ~vendor.deleted
    [] c.op \in {"enable", "activate"} -> CanEnable(vendor)
    [] c.op = "disable" -> CanDisable(vendor)
    [] c.op = "remove" -> CanRemove(vendor)
    [] c.op = "raise" -> RaiseReads(c.by, c.kind)

Read(c) ==
  /\ c \notin DOMAIN flight
  /\ Cardinality(DOMAIN flight) < MaxFlight
  /\ c.op \in Decisive \cup {"activate"} => c \in begun
  /\ VendorCheck(c)
  /\ begun' = begun \ {c}
  /\ flight' = [x \in DOMAIN flight \cup {c} |-> IF x = c THEN vendor ELSE flight[x]]
  /\ UNCHANGED <<vars, found, signed>>

\* The save of c; its call ends, or goes on to enable the vendor.
Committing(c) ==
  /\ flight' = [x \in DOMAIN flight \ {c} |-> flight[x]]
  /\ begun' = IF c.op = "evaluate" THEN begun \cup {[op |-> "activate", by |-> c.by]} ELSE begun
  /\ signed' = IF c.op = "approve"
               THEN signed \cup {[kind |-> requests[c.request].kind, by |-> requests[c.request].by,
                                  decidedBy |-> c.by]}
               ELSE signed
  /\ UNCHANGED found

Saved(c, row) == vendor' = row /\ UNCHANGED <<requests, origin>>

Commit(c) ==
  /\ Committing(c)
  /\ CASE c.op = "update" -> Saved(c, [flight[c] EXCEPT !.details = c.details])
       [] c.op = "evaluate" -> Saved(c, RolledUp(flight[c]))
       [] c.op \in {"enable", "activate"} -> Saved(c, Enabled(flight[c]))
       [] c.op = "disable" -> Saved(c, Disabled(flight[c]))
       [] c.op = "remove" -> Saved(c, Removed(flight[c]))
       [] c.op = "raise" -> RaiseWrites(flight[c], c.by, c.kind)
       [] c.op = "cancel" -> CancelWrites(flight[c], c.by, c.request)
       [] c.op = "approve" -> ApproveWrites(flight[c], c.by, c.request)
       [] c.op = "reject" -> RejectWrites(flight[c], c.by, c.request)

FindStale ==
  /\ found = {} /\ Stale # {}
  /\ found' = Stale
  /\ UNCHANGED <<vars, begun, flight, signed>>

ExpireFound ==
  /\ found # {}
  /\ ExpireWrites(found)
  /\ found' = {}
  /\ UNCHANGED <<begun, flight, signed>>

\* A request nobody overtakes; an approval among them is signed too.
Undisturbed ==
  /\ Next
  /\ signed' = signed \cup {[kind |-> requests[i].kind, by |-> requests[i].by, decidedBy |-> requests'[i].decidedBy] :
                              i \in {j \in DOMAIN requests : requests'[j].status = "APPROVED" /\ requests[j].status # "APPROVED"}}
  /\ UNCHANGED <<begun, flight, found>>

RaceNext ==
  \/ Undisturbed
  \/ \E c \in Calls : Begin(c) \/ Read(c)
  \/ \E c \in DOMAIN flight : Commit(c)
  \/ FindStale
  \/ ExpireFound

RaceSpec == RaceInit /\ [][RaceNext]_raceVars

-----------------------------------------------------------------------------
(* What survives any interleaving.                                         *)

Rows == {vendor} \cup {flight[c] : c \in DOMAIN flight}

\* A stale save writes a whole row that some handler once read: status and
\* availability never come from two different moments.
WholeRows == \A row \in Rows : row.active <=> row.status = "ACTIVE"

\* However requests overtake each other, a vendor that was not created
\* blacklisted is blacklisted, in the row or in any call in flight, only if at
\* some time one user raised that and another approved it.
BlacklistWasOnceCountersigned ==
  /\ \A s \in signed : s.by # s.decidedBy
  /\ origin # "BLACKLISTED" =>
       \A row \in Rows : row.status = "BLACKLISTED" => \E s \in signed : s.kind = "BLACKLIST"

-----------------------------------------------------------------------------
(* What a comment promises and a race breaks.                              *)

\* "a single person can never blacklist a vendor on their own"
\* (vendor.service.ts:2141): a vendor becomes blacklisted only as a request
\* to blacklist it is approved.
NobodyBlacklistsAlone ==
  [][~vendor.deleted /\ vendor.status # "BLACKLISTED" /\ vendor'.status = "BLACKLISTED" =>
       \E i \in DOMAIN requests : /\ requests[i].kind = "BLACKLIST"
                                  /\ requests[i].status # "APPROVED" /\ requests'[i].status = "APPROVED"]_raceVars

=============================================================================
