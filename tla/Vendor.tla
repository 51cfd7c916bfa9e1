-------------------------------- MODULE Vendor --------------------------------
(***************************************************************************)
(* The lifecycle of one vendor under the handlers of VendorService, and the*)
(* requests to blacklist it or to lift its blacklisting, which one user    *)
(* raises and another decides (maker-checker). Here a request runs by      *)
(* itself: what a handler read is still current when it saves.             *)
(* VendorRaces drops that assumption.                                      *)
(*                                                                         *)
(* A handler is written in two parts, as the code is: what it checks on the*)
(* vendor it read (`Can...`, `...Reads`) and what it saves, computed from  *)
(* the vendor row it holds.                                                *)
(*                                                                         *)
(* Abstracted: the vendor's own columns and its contacts, addresses and    *)
(* documents are one opaque value; emails, reasons and comments are left   *)
(* out; a decider always holds the emailed token until it is burnt; that   *)
(* remove finds the vendor referenced by other records, and refuses, is    *)
(* one of its refusals and not a step.                                     *)
(*                                                                         *)
(* Bound: MaxRequests, the number of status change requests ever raised.   *)
(***************************************************************************)
EXTENDS Naturals, Sequences

CONSTANTS
  Users,        \* users who may edit the vendor
  Deciders,     \* those with a role that raises, decides and withdraws requests
  Admins,       \* OrganizationAdmin and SuperAdmin: enable, disable, remove
  Removers,     \* Admins and the external user who created it, if one did
  Approvers,    \* active users resolveApprovers finds
  Details,      \* values of everything about the vendor that is not its status
  MaxRequests

ASSUME UsersAssumption ==
  /\ Deciders \subseteq Users
  /\ Admins \subseteq Deciders
  /\ Removers \subseteq Users
  /\ Approvers \subseteq Users
  /\ "NONE" \notin Users

ASSUME MaxRequestsAssumption == MaxRequests \in Nat

VARIABLES
  vendor,    \* the vendors row
  requests,  \* the vendor_status_change_requests rows, in the order raised
  origin     \* history: the status the vendor was created with

vars == <<vendor, requests, origin>>

Statuses == {"UNDER_EVALUATION", "ACTIVE", "INACTIVE", "BLACKLISTED"}
Kinds == {"BLACKLIST", "UNBLACKLIST"}
Outcomes == {"APPROVED", "REJECTED", "CANCELLED", "EXPIRED"}

\* `pending` is pendingStatusChange (PENDING_ before the kind), `request` the
\* index of pendingStatusChangeRequestId or 0, `approved` whether approvalDate
\* is set by an approving evaluation.
Row == [status: Statuses, active: BOOLEAN, pending: Kinds \cup {"NONE"}, request: Nat,
        approved: BOOLEAN, deleted: BOOLEAN, details: Details]

\* `was` and `wasActive` are previousVendorStatus and previousIsActive, `stale`
\* whether tokenExpiresAt has passed.
Request == [kind: Kinds, status: Outcomes \cup {"PENDING"}, by: Users,
            decidedBy: Users \cup {"NONE"}, was: Statuses, wasActive: BOOLEAN, stale: BOOLEAN]

TypeOK ==
  /\ vendor \in Row
  /\ requests \in Seq(Request)
  /\ origin \in Statuses

-----------------------------------------------------------------------------
(* create and clone.                                                       *)

Created(details) ==
  [status |-> "UNDER_EVALUATION", active |-> FALSE, pending |-> "NONE", request |-> 0,
   approved |-> FALSE, deleted |-> FALSE, details |-> details]

\* Mutant: the copy keeps the pointer to a request against its source.
Cloned_Pending(source) == [source EXCEPT !.deleted = FALSE]

\* A clone keeps the standing of its source, not its pending request.
Cloned(source) == [source EXCEPT !.pending = "NONE", !.request = 0, !.deleted = FALSE]

\* A vendor another vendor may be cloned from.
Source == {row \in [status: Statuses, active: BOOLEAN, pending: Kinds \cup {"NONE"}, request: {0, 1},
                    approved: BOOLEAN, deleted: {FALSE}, details: Details] :
             /\ row.active <=> row.status = "ACTIVE"
             /\ row.pending = "NONE" <=> row.request = 0}

Init ==
  /\ vendor \in {Created(d) : d \in Details} \cup {Cloned(s) : s \in Source}
  /\ requests = <<>>
  /\ origin = vendor.status

-----------------------------------------------------------------------------
(* update, addEvaluation, enable, disable and remove.                      *)

Update(u) ==
  /\ ~vendor.deleted
  /\ \E details \in Details : vendor' = [vendor EXCEPT !.details = details]
  /\ UNCHANGED <<requests, origin>>

CanEnable(row) ==
  /\ ~row.deleted
  /\ row.status # "BLACKLISTED"
  /\ row.pending = "NONE"
  /\ ~(row.active /\ row.status = "ACTIVE")

Enabled(row) == [row EXCEPT !.status = "ACTIVE", !.active = TRUE]

Enable(u) ==
  /\ u \in Admins
  /\ CanEnable(vendor)
  /\ vendor' = Enabled(vendor)
  /\ UNCHANGED <<requests, origin>>

\* Mutant: a blacklisted vendor can be disabled.
CanDisable_Blacklisted(row) ==
  /\ ~row.deleted
  /\ row.active \/ row.status # "INACTIVE"
  /\ row.pending = "NONE"

CanDisable(row) ==
  /\ ~row.deleted
  /\ row.active \/ row.status # "INACTIVE"
  /\ row.status # "BLACKLISTED"
  /\ row.pending = "NONE"

\* Mutant: disabling leaves the vendor available.
Disabled_Available(row) == [row EXCEPT !.status = "INACTIVE"]

Disabled(row) == [row EXCEPT !.status = "INACTIVE", !.active = FALSE]

Disable(u) ==
  /\ u \in Admins
  /\ CanDisable(vendor)
  /\ vendor' = Disabled(vendor)
  /\ UNCHANGED <<requests, origin>>

\* What an approving evaluation saves before it enables the vendor.
RolledUp(row) == [row EXCEPT !.approved = TRUE]

\* An approving evaluation is saved first; enable then applies or throws, and
\* what was saved stays. The other decisions change nothing here.
Evaluate(u) ==
  /\ u \in Deciders
  /\ ~vendor.deleted
  /\ vendor' = IF CanEnable(vendor) THEN Enabled(RolledUp(vendor)) ELSE RolledUp(vendor)
  /\ UNCHANGED <<requests, origin>>

CanRemove(row) == ~row.deleted /\ row.pending = "NONE"

Removed(row) == [row EXCEPT !.deleted = TRUE, !.active = FALSE, !.status = "INACTIVE"]

Remove(u) ==
  /\ u \in Removers
  /\ CanRemove(vendor)
  /\ vendor' = Removed(vendor)
  /\ UNCHANGED <<requests, origin>>

-----------------------------------------------------------------------------
(* The maker: raiseStatusChangeRequest behind requestBlacklist and         *)
(* requestRemoveBlacklist, and cancelStatusChange.                         *)

\* Mutant: what is requested is not compared with the vendor's status.
RaiseReads_AnyKind(u, kind) ==
  /\ u \in Deciders
  /\ ~vendor.deleted
  /\ vendor.pending = "NONE"
  /\ Approvers # {}

RaiseReads(u, kind) ==
  /\ u \in Deciders
  /\ ~vendor.deleted
  /\ (kind = "UNBLACKLIST") = (vendor.status = "BLACKLISTED")
  /\ vendor.pending = "NONE"
  /\ Approvers # {}

RaiseWrites(row, u, kind) ==
  /\ Len(requests) < MaxRequests
  /\ requests' = Append(requests, [kind |-> kind, status |-> "PENDING", by |-> u, decidedBy |-> "NONE",
                                   was |-> row.status, wasActive |-> row.active, stale |-> FALSE])
  /\ vendor' = [row EXCEPT !.pending = kind, !.request = Len(requests) + 1]
  /\ UNCHANGED origin

Raise(u, kind) == RaiseReads(u, kind) /\ RaiseWrites(vendor, u, kind)

Released(row) == [row EXCEPT !.pending = "NONE", !.request = 0]

\* The decision fields of request i; the row keeps the rest.
Closed(i, outcome, u) ==
  requests' = [requests EXCEPT ![i].status = outcome, ![i].decidedBy = u]

CancelReads(u, i) ==
  /\ u \in Deciders
  /\ requests[i].status = "PENDING"
  /\ u = requests[i].by

CancelWrites(row, u, i) ==
  /\ vendor' = Released(row)
  /\ Closed(i, "CANCELLED", u)
  /\ UNCHANGED origin

Cancel(u, i) == CancelReads(u, i) /\ ~vendor.deleted /\ CancelWrites(vendor, u, i)

-----------------------------------------------------------------------------
(* The checker: approveStatusChange, rejectStatusChange.                   *)

\* Mutant: the maker may decide.
DecideReads_Maker(u, i) ==
  /\ u \in Deciders
  /\ requests[i].status = "PENDING"
  /\ ~requests[i].stale

\* loadPendingRequestOrThrow, and the maker is not the checker.
DecideReads(u, i) ==
  /\ u \in Deciders
  /\ requests[i].status = "PENDING"
  /\ ~requests[i].stale
  /\ u # requests[i].by

Standing(row, kind) ==
  [row EXCEPT !.status = IF kind = "BLACKLIST" THEN "BLACKLISTED" ELSE "UNDER_EVALUATION",
              !.active = FALSE]

ApproveWrites(row, u, i) ==
  /\ vendor' = Released(Standing(row, requests[i].kind))
  /\ Closed(i, "APPROVED", u)
  /\ UNCHANGED origin

RejectWrites(row, u, i) ==
  /\ vendor' = Released(row)
  /\ Closed(i, "REJECTED", u)
  /\ UNCHANGED origin

Approve(u, i) == DecideReads(u, i) /\ ~vendor.deleted /\ ApproveWrites(vendor, u, i)
Reject(u, i) == DecideReads(u, i) /\ ~vendor.deleted /\ RejectWrites(vendor, u, i)

-----------------------------------------------------------------------------
(* Time.                                                                   *)

\* tokenExpiresAt passes.
Elapse(i) ==
  /\ requests[i].status = "PENDING"
  /\ ~requests[i].stale
  /\ requests' = [requests EXCEPT ![i].stale = TRUE]
  /\ UNCHANGED <<vendor, origin>>

Stale == {i \in DOMAIN requests : requests[i].status = "PENDING" /\ requests[i].stale}

\* The update of expireStaleStatusChangeRequests for the requests it found.
ExpireWrites(found) ==
  /\ requests' = [i \in DOMAIN requests |->
                    IF i \in found THEN [requests[i] EXCEPT !.status = "EXPIRED"] ELSE requests[i]]
  /\ vendor' = IF vendor.request \in found THEN Released(vendor) ELSE vendor
  /\ UNCHANGED origin

\* No module of the repository schedules it; a host may.
ExpireStaleStatusChangeRequests == Stale # {} /\ ExpireWrites(Stale)

-----------------------------------------------------------------------------

Next ==
  \/ \E u \in Users :
       \/ Update(u)
       \/ Enable(u)
       \/ Disable(u)
       \/ Evaluate(u)
       \/ Remove(u)
       \/ \E kind \in Kinds : Raise(u, kind)
       \/ \E i \in DOMAIN requests : Cancel(u, i) \/ Approve(u, i) \/ Reject(u, i)
  \/ \E i \in DOMAIN requests : Elapse(i)
  \/ ExpireStaleStatusChangeRequests

Spec == Init /\ [][Next]_vars

-----------------------------------------------------------------------------
(* Properties that hold.                                                   *)

\* The pending mark and the request it points at agree, and no other request is
\* pending: never two requests at once, never a mark without a request.
MarkIsTheRequest ==
  /\ vendor.pending = "NONE" <=> vendor.request = 0
  /\ \A i \in DOMAIN requests : requests[i].status = "PENDING" <=> i = vendor.request
  /\ vendor.request # 0 => /\ vendor.request \in DOMAIN requests
                           /\ requests[vendor.request].kind = vendor.pending

\* While a request is pending the vendor keeps the standing it had when the
\* request was raised, so a rejection has nothing to restore.
FrozenWhilePending ==
  vendor.request # 0 =>
    /\ vendor.status = requests[vendor.request].was
    /\ vendor.active = requests[vendor.request].wasActive
    /\ ~vendor.deleted

\* Only an active vendor is available to transactions.
ActiveIsAvailable == vendor.active <=> vendor.status = "ACTIVE"

Approvals == {i \in DOMAIN requests : requests[i].status = "APPROVED"}

\* Whether a vendor is blacklisted is what the last approved request says, or
\* what its source was if there is none; and whoever approved one did not raise it.
BlacklistIsCountersigned ==
  /\ ~vendor.deleted =>
       (vendor.status = "BLACKLISTED" <=>
          IF Approvals = {} THEN origin = "BLACKLISTED"
          ELSE \E i \in Approvals : requests[i].kind = "BLACKLIST" /\ \A j \in Approvals : j <= i)
  /\ \A i \in Approvals : requests[i].decidedBy # requests[i].by

\* Approved requests alternate: nobody blacklists what is blacklisted or lifts
\* what is not, however the requests were rejected, withdrawn or left to expire.
ApprovalsAlternate ==
  \A i, j \in Approvals :
    i < j /\ (\A k \in Approvals : k <= i \/ j <= k) => requests[i].kind # requests[j].kind

\* A decided request keeps its outcome and its decider.
DecidedIsFinal ==
  [][\A i \in DOMAIN requests :
       requests[i].status # "PENDING" => i \in DOMAIN requests' /\ requests'[i] = requests[i]]_vars

\* A blacklisted vendor leaves that status only back to evaluation, by the
\* approval of a request, or by being deleted.
BlacklistIsLiftedByDecision ==
  [][vendor.status = "BLACKLISTED" /\ vendor'.status # "BLACKLISTED" =>
       \/ vendor'.deleted
       \/ /\ vendor'.status = "UNDER_EVALUATION"
          /\ requests[vendor.request].kind = "UNBLACKLIST"
          /\ requests'[vendor.request].status = "APPROVED"]_vars

\* What the approved requests put on record.
Agreed == {[bar |-> requests[i].kind = "BLACKLIST", by |-> requests[i].by, with |-> requests[i].decidedBy] :
             i \in Approvals}

\* The vendor and its requests implement the control by two people.
Control == INSTANCE DualControl WITH
  People <- Deciders,
  barred <- vendor.status = "BLACKLISTED",
  gone <- vendor.deleted,
  proposal <- IF vendor.request = 0 THEN {}
              ELSE {[bar |-> requests[vendor.request].kind = "BLACKLIST", by |-> requests[vendor.request].by]},
  agreed <- Agreed

DualControlled == Control!Spec

=============================================================================
