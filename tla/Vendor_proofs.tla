---------------------------- MODULE Vendor_proofs ----------------------------
(***************************************************************************)
(* Proofs about Vendor, for any users, details and number of requests.     *)
(*                                                                         *)
(* Under the inductive invariant IInv every step is of one of four kinds:  *)
(* it keeps the requests and perhaps moves an unfrozen vendor (Keeps), it  *)
(* raises a request (Raises), it closes the pending one (Closes), or the   *)
(* pending one goes stale (Elapses). IInv is carried over each kind, and   *)
(* the action properties and the refinement of DualControl follow from the *)
(* kinds too.                                                              *)
(***************************************************************************)
EXTENDS VendorRaces, SequenceTheorems, TLAPS

\* The pending request, if any, is the last one raised.
PointsAtLast == vendor.request \in {0, Len(requests)}

\* A pending request asks for the opposite of what stands.
AsksForTheOpposite ==
  vendor.request # 0 =>
    (requests[vendor.request].kind = "UNBLACKLIST" <=> vendor.status = "BLACKLISTED")

\* The inductive invariant: BlacklistIsCountersigned needs AsksForTheOpposite
\* when a request is approved, and all need that only the last is pending.
IInv ==
  /\ TypeOK
  /\ PointsAtLast
  /\ MarkIsTheRequest
  /\ FrozenWhilePending
  /\ ActiveIsAvailable
  /\ AsksForTheOpposite
  /\ BlacklistIsCountersigned
  /\ ApprovalsAlternate

-----------------------------------------------------------------------------
(* The kinds of steps.                                                     *)

SameStanding ==
  vendor'.status = vendor.status /\ vendor'.active = vendor.active /\ vendor'.deleted = vendor.deleted

\* update, addEvaluation, enable, disable and remove.
Keeps ==
  /\ ~vendor.deleted
  /\ requests' = requests /\ origin' = origin
  /\ vendor'.pending = vendor.pending /\ vendor'.request = vendor.request
  /\ \/ SameStanding
     \/ /\ vendor.pending = "NONE"
        /\ vendor'.active <=> vendor'.status = "ACTIVE"
        /\ vendor'.status # "BLACKLISTED"
        /\ vendor.status = "BLACKLISTED" => vendor'.deleted

\* raiseStatusChangeRequest.
Raises(u, kind) ==
  /\ ~vendor.deleted
  /\ vendor.pending = "NONE"
  /\ kind = "UNBLACKLIST" <=> vendor.status = "BLACKLISTED"
  /\ SameStanding /\ origin' = origin
  /\ vendor'.pending = kind /\ vendor'.request = Len(requests) + 1
  /\ requests' = Append(requests, [kind |-> kind, status |-> "PENDING", by |-> u, decidedBy |-> "NONE",
                                   was |-> vendor.status, wasActive |-> vendor.active, stale |-> FALSE])

\* A decision, a withdrawal or an expiry.
Closes(i) ==
  /\ i = vendor.request
  /\ origin' = origin
  /\ Len(requests') = Len(requests)
  /\ \A j \in 1..Len(requests) \ {i} : requests'[j] = requests[j]
  /\ requests'[i].kind = requests[i].kind /\ requests'[i].by = requests[i].by
  /\ vendor'.pending = "NONE" /\ vendor'.request = 0
  /\ \/ requests'[i].status \in {"REJECTED", "CANCELLED", "EXPIRED"} /\ SameStanding
     \/ /\ requests'[i].status = "APPROVED"
        /\ requests'[i].decidedBy \in Deciders /\ requests'[i].decidedBy # requests[i].by
        /\ vendor'.status = IF requests[i].kind = "BLACKLIST" THEN "BLACKLISTED" ELSE "UNDER_EVALUATION"
        /\ ~vendor'.active /\ vendor'.deleted = vendor.deleted

\* The token of the pending request expires.
Elapses(i) ==
  /\ i = vendor.request
  /\ vendor' = vendor /\ origin' = origin
  /\ Len(requests') = Len(requests)
  /\ \A j \in 1..Len(requests) : /\ requests'[j].status = requests[j].status
                                 /\ requests'[j].kind = requests[j].kind
                                 /\ requests'[j].by = requests[j].by
                                 /\ requests'[j].decidedBy = requests[j].decidedBy
                                 /\ requests'[j].was = requests[j].was
                                 /\ requests'[j].wasActive = requests[j].wasActive
                                 /\ j # i => requests'[j] = requests[j]

\* Positions and elements of the list of requests.
LEMMA RequestsAreASequence ==
  ASSUME TypeOK
  PROVE  /\ Len(requests) \in Nat
         /\ DOMAIN requests = 1..Len(requests)
         /\ \A i \in 1..Len(requests) : requests[i] \in Request
BY LenProperties, ElementOfSeq DEF TypeOK

\* What a decision, a withdrawal or a release writes to request i.
LEMMA ClosedRequest ==
  ASSUME TypeOK, NEW u \in Users, NEW i \in DOMAIN requests, NEW outcome \in Outcomes, Closed(i, outcome, u)
  PROVE  /\ requests' \in Seq(Request) /\ Len(requests') = Len(requests)
         /\ \A j \in 1..Len(requests) \ {i} : requests'[j] = requests[j]
         /\ requests'[i].kind = requests[i].kind /\ requests'[i].by = requests[i].by
         /\ requests'[i].status = outcome /\ requests'[i].decidedBy = u
<1>1. /\ Len(requests) \in Nat /\ DOMAIN requests = 1..Len(requests)
      /\ \A k \in 1..Len(requests) : requests[k] \in Request
      /\ requests \in Seq(Request)
  BY RequestsAreASequence DEF TypeOK
<1> DEFINE r == [requests[i] EXCEPT !.status = outcome, !.decidedBy = u]
<1>2. r \in Request
  BY <1>1 DEF Request
<1>3. r.kind = requests[i].kind /\ r.by = requests[i].by /\ r.status = outcome /\ r.decidedBy = u
  BY <1>1 DEF Request
<1>4. requests' = [requests EXCEPT ![i] = r]
  BY <1>1, LenProperties DEF Closed, Request
<1> HIDE DEF r
<1>5. /\ requests' \in Seq(Request) /\ Len(requests') = Len(requests)
      /\ \A j \in 1..Len(requests) : requests'[j] = IF j = i THEN r ELSE requests[j]
  BY <1>1, <1>2, <1>4, ExceptSeq
<1> QED
  BY <1>1, <1>3, <1>5

\* Every step is of one of the kinds.
LEMMA StepKinds ==
  ASSUME IInv, Next
  PROVE  /\ TypeOK'
         /\ \/ Keeps
            \/ \E u \in Deciders, kind \in Kinds : Raises(u, kind)
            \/ \E i \in 1..Len(requests) : requests[i].status = "PENDING" /\ (Closes(i) \/ Elapses(i))
<1> USE DEF IInv
<1>1. /\ Len(requests) \in Nat
      /\ DOMAIN requests = 1..Len(requests)
      /\ \A i \in 1..Len(requests) : requests[i] \in Request
  BY RequestsAreASequence
<1>2. vendor \in Row /\ requests \in Seq(Request) /\ origin \in Statuses
  BY DEF TypeOK
<1>3. ASSUME NEW u \in Users, Update(u)
      PROVE  TypeOK' /\ Keeps
  BY <1>2, <1>3 DEF Update, TypeOK, Row, Keeps, SameStanding
<1>4. ASSUME NEW u \in Users, Enable(u)
      PROVE  TypeOK' /\ Keeps
  BY <1>2, <1>4 DEF Enable, CanEnable, Enabled, TypeOK, Row, Statuses, Keeps
<1>5. ASSUME NEW u \in Users, Disable(u)
      PROVE  TypeOK' /\ Keeps
  BY <1>2, <1>5 DEF Disable, CanDisable, Disabled, TypeOK, Row, Statuses, Keeps
<1>6. ASSUME NEW u \in Users, Evaluate(u)
      PROVE  TypeOK' /\ Keeps
  BY <1>2, <1>6 DEF Evaluate, CanEnable, Enabled, RolledUp, TypeOK, Row, Statuses, Keeps, SameStanding
<1>7. ASSUME NEW u \in Users, Remove(u)
      PROVE  TypeOK' /\ Keeps
  BY <1>2, <1>7 DEF Remove, CanRemove, Removed, TypeOK, Row, Statuses, Keeps
<1>8. ASSUME NEW u \in Users, NEW kind \in Kinds, Raise(u, kind)
      PROVE  TypeOK' /\ u \in Deciders /\ Raises(u, kind)
  <2> DEFINE r == [kind |-> kind, status |-> "PENDING", by |-> u, decidedBy |-> "NONE",
                   was |-> vendor.status, wasActive |-> vendor.active, stale |-> FALSE]
  <2>1. r \in Request
    BY <1>2 DEF Request, Row
  <2>2. requests' = Append(requests, r) /\ requests' \in Seq(Request)
    BY <1>2, <1>8, <2>1, AppendProperties DEF Raise, RaiseWrites
  <2>3. vendor' \in Row /\ origin' \in Statuses
    <3>1. vendor' = [vendor EXCEPT !.pending = kind, !.request = Len(requests) + 1] /\ origin' = origin
      BY <1>8 DEF Raise, RaiseWrites
    <3>2. kind \in Kinds \cup {"NONE"} /\ Len(requests) + 1 \in Nat
      BY <1>1
    <3> QED
      BY <1>2, <3>1, <3>2 DEF Row
  <2>4. u \in Deciders /\ Raises(u, kind)
    BY <1>2, <1>8, <2>2 DEF Raise, RaiseReads, RaiseWrites, Row, Kinds, Raises, SameStanding
  <2> QED
    BY <2>2, <2>3, <2>4 DEF TypeOK
<1>9. ASSUME NEW u \in Users, NEW i \in DOMAIN requests, NEW outcome \in Outcomes, Closed(i, outcome, u)
      PROVE  /\ requests' \in Seq(Request) /\ Len(requests') = Len(requests)
             /\ \A j \in 1..Len(requests) \ {i} : requests'[j] = requests[j]
             /\ requests'[i].kind = requests[i].kind /\ requests'[i].by = requests[i].by
             /\ requests'[i].status = outcome /\ requests'[i].decidedBy = u
  BY <1>9, ClosedRequest
<1>10. ASSUME NEW i \in DOMAIN requests, requests[i].status = "PENDING"
       PROVE  i = vendor.request
  BY <1>10 DEF MarkIsTheRequest
<1>11. ASSUME NEW u \in Users, NEW i \in DOMAIN requests, Cancel(u, i) \/ Reject(u, i)
       PROVE  TypeOK' /\ requests[i].status = "PENDING" /\ Closes(i)
  <2>1. /\ requests[i].status = "PENDING" /\ vendor' = Released(vendor) /\ origin' = origin
        /\ \E outcome \in {"CANCELLED", "REJECTED"} : Closed(i, outcome, u)
    BY <1>11 DEF Cancel, CancelReads, CancelWrites, Reject, DecideReads, RejectWrites
  <2>2. PICK outcome \in {"CANCELLED", "REJECTED"} : Closed(i, outcome, u)
    BY <2>1
  <2>3. /\ requests' \in Seq(Request) /\ Len(requests') = Len(requests)
        /\ \A j \in 1..Len(requests) \ {i} : requests'[j] = requests[j]
        /\ requests'[i].kind = requests[i].kind /\ requests'[i].by = requests[i].by
        /\ requests'[i].status = outcome
    BY <1>9, <2>2 DEF Outcomes
  <2>4. vendor' \in Row /\ vendor'.pending = "NONE" /\ vendor'.request = 0 /\ SameStanding
    BY <1>2, <2>1 DEF Released, Row, SameStanding
  <2> QED
    BY <1>2, <1>10, <2>1, <2>3, <2>4 DEF TypeOK, Closes
<1>12. ASSUME NEW u \in Users, NEW i \in DOMAIN requests, Approve(u, i)
       PROVE  TypeOK' /\ requests[i].status = "PENDING" /\ Closes(i)
  <2>1. /\ requests[i].status = "PENDING" /\ origin' = origin
        /\ vendor' = Released(Standing(vendor, requests[i].kind))
        /\ Closed(i, "APPROVED", u) /\ u \in Deciders /\ u # requests[i].by
    BY <1>12 DEF Approve, DecideReads, ApproveWrites
  <2>2. /\ requests' \in Seq(Request) /\ Len(requests') = Len(requests)
        /\ \A j \in 1..Len(requests) \ {i} : requests'[j] = requests[j]
        /\ requests'[i].kind = requests[i].kind /\ requests'[i].by = requests[i].by
        /\ requests'[i].status = "APPROVED" /\ requests'[i].decidedBy = u
    BY <1>9, <2>1 DEF Outcomes
  <2>3. /\ vendor' \in Row /\ vendor'.pending = "NONE" /\ vendor'.request = 0
        /\ vendor'.status = IF requests[i].kind = "BLACKLIST" THEN "BLACKLISTED" ELSE "UNDER_EVALUATION"
        /\ ~vendor'.active /\ vendor'.deleted = vendor.deleted
    BY <1>2, <2>1 DEF Released, Standing, Row, Statuses
  <2> QED
    BY <1>2, <1>10, <2>1, <2>2, <2>3 DEF TypeOK, Closes
<1>13. ASSUME NEW i \in DOMAIN requests, Elapse(i)
       PROVE  TypeOK' /\ requests[i].status = "PENDING" /\ Elapses(i)
  <2> DEFINE r == [requests[i] EXCEPT !.stale = TRUE]
  <2>1. r \in Request
    BY <1>1 DEF Request
  <2>2. requests' = [requests EXCEPT ![i] = r]
    BY <1>1, <1>2, <1>13, LenProperties DEF Elapse, Request
  <2>3. /\ r.status = requests[i].status /\ r.kind = requests[i].kind /\ r.by = requests[i].by
        /\ r.decidedBy = requests[i].decidedBy /\ r.was = requests[i].was
        /\ r.wasActive = requests[i].wasActive
    BY <1>1 DEF Request
  <2> HIDE DEF r
  <2>4. /\ requests' \in Seq(Request) /\ Len(requests') = Len(requests)
        /\ \A j \in 1..Len(requests) : requests'[j] = IF j = i THEN r ELSE requests[j]
    BY <1>1, <1>2, <2>1, <2>2, ExceptSeq
  <2>5. requests[i].status = "PENDING" /\ vendor' = vendor /\ origin' = origin
    BY <1>13 DEF Elapse
  <2> QED
    BY <1>2, <1>10, <2>3, <2>4, <2>5 DEF TypeOK, Elapses
<1>14. ASSUME ExpireStaleStatusChangeRequests
       PROVE  /\ TypeOK'
              /\ \E i \in 1..Len(requests) : requests[i].status = "PENDING" /\ Closes(i)
  <2>1. PICK i \in DOMAIN requests : i \in Stale
    BY <1>14 DEF ExpireStaleStatusChangeRequests, Stale
  <2>2. requests[i].status = "PENDING" /\ i = vendor.request /\ Stale = {i}
    BY <1>10, <2>1 DEF Stale
  <2> DEFINE r == [requests[i] EXCEPT !.status = "EXPIRED"]
  <2>3. r \in Request /\ r.status = "EXPIRED" /\ r.kind = requests[i].kind /\ r.by = requests[i].by
    BY <1>1 DEF Request, Outcomes
  <2>4. /\ requests' = [requests EXCEPT ![i] = r]
        /\ vendor' = Released(vendor) /\ origin' = origin
    BY <1>1, <1>2, <1>14, <2>2, LenProperties DEF ExpireStaleStatusChangeRequests, ExpireWrites
  <2> HIDE DEF r
  <2>5. /\ requests' \in Seq(Request) /\ Len(requests') = Len(requests)
        /\ \A j \in 1..Len(requests) : requests'[j] = IF j = i THEN r ELSE requests[j]
    BY <1>1, <1>2, <2>3, <2>4, ExceptSeq
  <2>6. vendor' \in Row /\ vendor'.pending = "NONE" /\ vendor'.request = 0 /\ SameStanding
    BY <1>2, <2>4 DEF Released, Row, SameStanding
  <2> QED
    BY <1>1, <1>2, <2>2, <2>3, <2>4, <2>5, <2>6 DEF TypeOK, Closes
<1> QED
  BY <1>1, <1>3, <1>4, <1>5, <1>6, <1>7, <1>8, <1>11, <1>12, <1>13, <1>14 DEF Next

-----------------------------------------------------------------------------
(* The invariant is inductive.                                             *)

\* A created or cloned vendor satisfies it.
LEMMA InitIInv == Init => IInv
<1> SUFFICES ASSUME Init PROVE IInv
  OBVIOUS
<1>1. /\ vendor \in Row /\ vendor.pending = "NONE" /\ vendor.request = 0
      /\ vendor.active <=> vendor.status = "ACTIVE"
      /\ requests = <<>> /\ origin = vendor.status
  <2>1. CASE \E d \in Details : vendor = Created(d)
    BY <2>1 DEF Init, Created, Row, Statuses
  <2>2. CASE \E s \in Source : vendor = Cloned(s)
    <3>1. PICK s \in Source : vendor = Cloned(s)
      BY <2>2
    <3>2. /\ s \in [status: Statuses, active: BOOLEAN, pending: Kinds \cup {"NONE"}, request: {0, 1},
                    approved: BOOLEAN, deleted: {FALSE}, details: Details]
          /\ s.active <=> s.status = "ACTIVE"
      BY ZenonT(30) DEF Source
    <3>3. requests = <<>> /\ origin = vendor.status
      BY DEF Init
    <3> QED
      BY <3>1, <3>2, <3>3 DEF Cloned, Row
  <2> QED
    BY <2>1, <2>2 DEF Init
<1>2. requests \in Seq(Request) /\ Len(requests) = 0 /\ DOMAIN requests = {}
  BY <1>1
<1>3. origin \in Statuses
  BY <1>1 DEF Row
<1>4. Approvals = {}
  BY <1>2 DEF Approvals
<1> QED
  BY <1>1, <1>2, <1>3, <1>4
  DEF IInv, TypeOK, PointsAtLast, MarkIsTheRequest, FrozenWhilePending, ActiveIsAvailable,
      AsksForTheOpposite, BlacklistIsCountersigned, ApprovalsAlternate

\* What MarkIsTheRequest and PointsAtLast say position by position.
LEMMA PendingIsLast ==
  ASSUME IInv
  PROVE  /\ \A i \in 1..Len(requests) : requests[i].status = "PENDING" <=> i = vendor.request
         /\ vendor.request \in {0, Len(requests)}
         /\ vendor.pending = "NONE" <=> vendor.request = 0
         /\ vendor.request # 0 => vendor.request = Len(requests) /\ Len(requests) # 0
BY RequestsAreASequence DEF IInv, PointsAtLast, MarkIsTheRequest

\* update, evaluation, enabling, disabling and removal keep the invariant.
LEMMA KeepsIInv ==
  ASSUME IInv, TypeOK', Keeps
  PROVE  IInv'
<1>1. Approvals' = Approvals
  BY DEF Keeps, Approvals
<1>2. PointsAtLast' /\ MarkIsTheRequest' /\ ApprovalsAlternate'
  BY <1>1 DEF IInv, Keeps, PointsAtLast, MarkIsTheRequest, ApprovalsAlternate
<1>3. ActiveIsAvailable'
  BY DEF IInv, Keeps, SameStanding, ActiveIsAvailable
<1>4. FrozenWhilePending' /\ AsksForTheOpposite'
  BY DEF IInv, Keeps, SameStanding, MarkIsTheRequest, FrozenWhilePending, AsksForTheOpposite
<1>5. BlacklistIsCountersigned'
  <2>1. ~vendor'.deleted => (vendor'.status = "BLACKLISTED" <=> vendor.status = "BLACKLISTED")
    BY DEF Keeps, SameStanding
  <2> QED
    BY <1>1, <2>1 DEF IInv, Keeps, BlacklistIsCountersigned
<1> QED
  BY <1>2, <1>3, <1>4, <1>5 DEF IInv

\* Raising a request keeps the invariant.
LEMMA RaisesIInv ==
  ASSUME IInv, TypeOK', NEW u \in Deciders, NEW kind \in Kinds, Raises(u, kind)
  PROVE  IInv'
<1> DEFINE n == Len(requests) + 1
           r == [kind |-> kind, status |-> "PENDING", by |-> u, decidedBy |-> "NONE",
                 was |-> vendor.status, wasActive |-> vendor.active, stale |-> FALSE]
<1>1. /\ Len(requests) \in Nat /\ DOMAIN requests = 1..Len(requests)
      /\ \A i \in 1..Len(requests) : requests[i] \in Request
  BY RequestsAreASequence DEF IInv
<1>2. /\ Len(requests') = n /\ DOMAIN requests' = 1..n
      /\ requests'[n] = r /\ \A i \in 1..Len(requests) : requests'[i] = requests[i]
  <2>1. requests \in Seq(Request) /\ r \in Request
    BY DEF IInv, TypeOK, Request, Row, Raises, UsersAssumption
  <2>2. requests' = Append(requests, r)
    BY DEF Raises
  <2> HIDE DEF r
  <2> QED
    BY <1>1, <2>1, <2>2, AppendProperties
<1>3. vendor.request = 0 /\ \A i \in 1..Len(requests) : requests[i].status # "PENDING"
  BY <1>1, PendingIsLast DEF Raises
<1>4. vendor'.request = n /\ vendor'.pending = kind /\ kind # "NONE"
  BY DEF Raises, Kinds
<1>5. PointsAtLast' /\ MarkIsTheRequest'
  BY <1>1, <1>2, <1>3, <1>4 DEF PointsAtLast, MarkIsTheRequest
<1>6. FrozenWhilePending' /\ ActiveIsAvailable' /\ AsksForTheOpposite'
  BY <1>2, <1>4 DEF IInv, Raises, SameStanding, FrozenWhilePending, ActiveIsAvailable, AsksForTheOpposite, Kinds
<1>7. Approvals' = Approvals
  BY <1>1, <1>2 DEF Approvals
<1>8. \A i \in Approvals : i \in 1..Len(requests) /\ requests'[i] = requests[i]
  BY <1>1, <1>2 DEF Approvals
<1>9. BlacklistIsCountersigned'
  BY <1>7, <1>8 DEF IInv, Raises, SameStanding, BlacklistIsCountersigned
<1>10. ApprovalsAlternate'
  BY <1>7, <1>8 DEF IInv, ApprovalsAlternate
<1> QED
  BY <1>5, <1>6, <1>9, <1>10 DEF IInv

\* Closing the pending request keeps the invariant.
LEMMA ClosesIInv ==
  ASSUME IInv, TypeOK', NEW i \in 1..Len(requests), requests[i].status = "PENDING", Closes(i)
  PROVE  IInv'
<1>1. Len(requests) \in Nat /\ DOMAIN requests = 1..Len(requests)
  BY RequestsAreASequence DEF IInv
<1>2. DOMAIN requests' = 1..Len(requests) /\ Len(requests') = Len(requests)
  BY RequestsAreASequence, LenProperties DEF TypeOK, Closes
<1>3. i = Len(requests) /\ i = vendor.request
  BY PendingIsLast DEF Closes
<1>4. \A j \in 1..Len(requests) : requests[j].status = "PENDING" <=> j = i
  BY <1>3, PendingIsLast
<1>5. \A j \in 1..Len(requests) \ {i} : requests'[j] = requests[j]
  BY DEF Closes
<1>6. requests'[i].status # "PENDING" /\ vendor'.request = 0 /\ vendor'.pending = "NONE"
  BY DEF Closes
<1>7. PointsAtLast' /\ MarkIsTheRequest' /\ FrozenWhilePending' /\ AsksForTheOpposite'
  BY <1>1, <1>2, <1>4, <1>5, <1>6
  DEF PointsAtLast, MarkIsTheRequest, FrozenWhilePending, AsksForTheOpposite
<1>8. ActiveIsAvailable'
  BY DEF IInv, Closes, SameStanding, ActiveIsAvailable
<1>9. \A j \in Approvals : j \in 1..Len(requests) /\ j < i /\ requests'[j] = requests[j]
  BY <1>1, <1>3, <1>4, <1>5 DEF Approvals
<1>10. CASE requests'[i].status # "APPROVED" /\ SameStanding
  <2>1. Approvals' = Approvals
    BY <1>1, <1>2, <1>4, <1>5, <1>10 DEF Approvals
  <2>2. BlacklistIsCountersigned'
    BY <1>9, <1>10, <2>1 DEF IInv, Closes, SameStanding, BlacklistIsCountersigned
  <2>3. ApprovalsAlternate'
    BY <1>9, <2>1 DEF IInv, ApprovalsAlternate
  <2> QED
    BY <1>7, <1>8, <2>2, <2>3 DEF IInv
<1>11. CASE requests'[i].status = "APPROVED"
  <2>1. Approvals' = Approvals \cup {i}
    BY <1>1, <1>2, <1>3, <1>4, <1>5, <1>11 DEF Approvals
  <2>2. /\ requests'[i].kind = requests[i].kind /\ requests'[i].by = requests[i].by
        /\ requests'[i].decidedBy # requests[i].by
        /\ vendor'.status = IF requests[i].kind = "BLACKLIST" THEN "BLACKLISTED" ELSE "UNDER_EVALUATION"
    BY <1>11 DEF Closes
  <2>3. \A j \in Approvals' : j <= i /\ (j # i => j \in Approvals /\ j < i)
    BY <1>3, <1>9, <2>1
  <2>4. requests[i].kind \in Kinds
    BY <1>1, RequestsAreASequence DEF IInv, Request
  <2>5. BlacklistIsCountersigned'
    <3>1. (\E k \in Approvals' : requests'[k].kind = "BLACKLIST" /\ \A j \in Approvals' : j <= k)
            <=> requests[i].kind = "BLACKLIST"
      <4>1. i \in Approvals' /\ \A j \in Approvals' : j <= i
        BY <2>1, <2>3
      <4>2. ASSUME NEW k \in Approvals', \A j \in Approvals' : j <= k
            PROVE  k = i
        <5>1. i <= k /\ k <= i /\ k \in Nat /\ i \in Nat
          BY <1>1, <1>3, <1>9, <2>1, <4>1, <4>2
        <5> QED
          BY <5>1
      <4> QED
        BY <2>2, <4>1, <4>2
    <3>2. \A j \in Approvals' : requests'[j].decidedBy # requests'[j].by
      BY <1>9, <2>1, <2>2 DEF IInv, BlacklistIsCountersigned
    <3> QED
      BY <2>1, <2>2, <3>1, <3>2 DEF BlacklistIsCountersigned
  <2>6. ~vendor.deleted
    BY <1>3 DEF IInv, FrozenWhilePending
  <2>7. requests[i].kind = "UNBLACKLIST" <=> vendor.status = "BLACKLISTED"
    BY <1>3 DEF IInv, AsksForTheOpposite
  <2>8. ApprovalsAlternate'
    <3> SUFFICES ASSUME NEW j \in Approvals', NEW k \in Approvals', j < k,
                        \A l \in Approvals' : l <= j \/ k <= l
                 PROVE  requests'[j].kind # requests'[k].kind
      BY DEF ApprovalsAlternate
    <3>1. j \in Approvals /\ j < i /\ requests'[j] = requests[j]
      BY <1>3, <1>9, <2>1, <2>3
    <3>2. CASE k # i
      BY <1>9, <2>1, <2>3, <3>1, <3>2 DEF IInv, ApprovalsAlternate
    <3>3. CASE k = i
      <4>1. \A l \in Approvals : l <= j
        BY <1>9, <2>1, <3>3
      <4>2. vendor.status = "BLACKLISTED" <=>
              \E l \in Approvals : requests[l].kind = "BLACKLIST" /\ \A m \in Approvals : m <= l
        BY <2>6, <3>1 DEF IInv, BlacklistIsCountersigned
      <4>3. vendor.status = "BLACKLISTED" <=> requests[j].kind = "BLACKLIST"
        BY <1>3, <1>9, <3>1, <4>1, <4>2
      <4> QED
        BY <2>2, <2>4, <2>7, <3>1, <3>3, <4>3 DEF Kinds
    <3> QED
      BY <3>2, <3>3
  <2> QED
    BY <1>7, <1>8, <2>5, <2>8 DEF IInv
<1> QED
  BY <1>10, <1>11 DEF Closes

\* A token that expires keeps the invariant.
LEMMA ElapsesIInv ==
  ASSUME IInv, TypeOK', NEW i \in 1..Len(requests), Elapses(i)
  PROVE  IInv'
<1>1. DOMAIN requests = 1..Len(requests) /\ DOMAIN requests' = 1..Len(requests) /\ Len(requests') = Len(requests)
  BY RequestsAreASequence, LenProperties DEF IInv, TypeOK, Elapses
<1>2. Approvals' = Approvals
  BY <1>1 DEF Elapses, Approvals
<1>3. \A j \in Approvals : j \in 1..Len(requests)
  BY <1>1 DEF Approvals
<1>4. PointsAtLast' /\ MarkIsTheRequest' /\ FrozenWhilePending' /\ ActiveIsAvailable' /\ AsksForTheOpposite'
  BY <1>1 DEF IInv, Elapses, PointsAtLast, MarkIsTheRequest, FrozenWhilePending, ActiveIsAvailable, AsksForTheOpposite
<1>5. BlacklistIsCountersigned' /\ ApprovalsAlternate'
  BY <1>2, <1>3 DEF IInv, Elapses, BlacklistIsCountersigned, ApprovalsAlternate
<1> QED
  BY <1>4, <1>5 DEF IInv

\* Every step keeps the invariant.
LEMMA NextIInv == IInv /\ [Next]_vars => IInv'
<1> SUFFICES ASSUME IInv, [Next]_vars PROVE IInv'
  OBVIOUS
<1>1. CASE Next
  BY <1>1, StepKinds, KeepsIInv, RaisesIInv, ClosesIInv, ElapsesIInv
<1>2. CASE UNCHANGED vars
  BY <1>2 DEF vars, IInv, TypeOK, PointsAtLast, MarkIsTheRequest, FrozenWhilePending, ActiveIsAvailable,
     AsksForTheOpposite, BlacklistIsCountersigned, ApprovalsAlternate, Approvals
<1> QED
  BY <1>1, <1>2

\* IInv holds throughout.
LEMMA Inductive == Spec => []IInv
BY InitIInv, NextIInv, PTL DEF Spec

-----------------------------------------------------------------------------
(* The invariants.                                                         *)

\* The vendor row and the list of its requests keep their types, whatever the
\* order in which requests are raised, decided, withdrawn and left to expire.
THEOREM TypeCorrect == Spec => []TypeOK
<1>1. IInv => TypeOK
  BY DEF IInv
<1> QED
  BY <1>1, Inductive, PTL

\* The mark on the vendor and the pending request agree: at most one request is
\* pending, and the vendor points at it (raiseStatusChangeRequest, the decisions,
\* cancelStatusChange and expireStaleStatusChangeRequests).
THEOREM MarkIsAlwaysTheRequest == Spec => []MarkIsTheRequest
<1>1. IInv => MarkIsTheRequest
  BY DEF IInv
<1> QED
  BY <1>1, Inductive, PTL

\* No handler moves a vendor whose status change is pending, so a rejection
\* needs no compensating update.
THEOREM PendingFreezes == Spec => []FrozenWhilePending
<1>1. IInv => FrozenWhilePending
  BY DEF IInv
<1> QED
  BY <1>1, Inductive, PTL

\* Every handler that sets the status sets the availability flag with it.
THEOREM AvailabilityFollowsStatus == Spec => []ActiveIsAvailable
<1>1. IInv => ActiveIsAvailable
  BY DEF IInv
<1> QED
  BY <1>1, Inductive, PTL

\* The vendor is blacklisted exactly if the last approved request, or its
\* source, says so, and no approval is by the user who raised the request.
THEOREM BlacklistIsAlwaysCountersigned == Spec => []BlacklistIsCountersigned
<1>1. IInv => BlacklistIsCountersigned
  BY DEF IInv
<1> QED
  BY <1>1, Inductive, PTL

\* Approvals to blacklist and to lift the blacklisting alternate.
THEOREM ApprovalsAlwaysAlternate == Spec => []ApprovalsAlternate
<1>1. IInv => ApprovalsAlternate
  BY DEF IInv
<1> QED
  BY <1>1, Inductive, PTL

-----------------------------------------------------------------------------
(* What a step may not do.                                                 *)

\* No step changes a request that was decided, withdrawn or expired.
THEOREM DecidedStays == Spec => DecidedIsFinal
<1> DEFINE A == \A i \in DOMAIN requests :
       requests[i].status # "PENDING" => i \in DOMAIN requests' /\ requests'[i] = requests[i]
<1>1. ASSUME IInv, [Next]_vars
      PROVE  A
  <2> SUFFICES ASSUME NEW i \in DOMAIN requests, requests[i].status # "PENDING"
               PROVE  i \in DOMAIN requests' /\ requests'[i] = requests[i]
    OBVIOUS
  <2>1. Len(requests) \in Nat /\ DOMAIN requests = 1..Len(requests) /\ requests \in Seq(Request)
    BY <1>1, RequestsAreASequence DEF IInv, TypeOK
  <2>2. CASE Keeps \/ UNCHANGED vars
    BY <1>1, <2>2 DEF Keeps, vars
  <2>3. ASSUME NEW u \in Deciders, NEW kind \in Kinds, Raises(u, kind)
        PROVE  i \in DOMAIN requests' /\ requests'[i] = requests[i]
    BY <1>1, <2>1, <2>3 DEF Raises
  <2>4. ASSUME NEW j \in 1..Len(requests), requests[j].status = "PENDING", Closes(j) \/ Elapses(j), TypeOK'
        PROVE  i \in DOMAIN requests' /\ requests'[i] = requests[i]
    <3>1. DOMAIN requests' = 1..Len(requests)
      BY <2>4, LenProperties DEF Closes, Elapses, TypeOK
    <3> QED
      BY <1>1, <2>1, <2>4, <3>1 DEF Closes, Elapses
  <2> QED
    BY <1>1, <2>2, <2>3, <2>4, StepKinds
<1> QED
  BY <1>1, Inductive, PTL DEF Spec, DecidedIsFinal

\* Only an approved request to lift it, or deletion, ends a blacklisting.
THEOREM BlacklistStaysUntilLifted == Spec => BlacklistIsLiftedByDecision
<1> DEFINE A == vendor.status = "BLACKLISTED" /\ vendor'.status # "BLACKLISTED" =>
       \/ vendor'.deleted
       \/ /\ vendor'.status = "UNDER_EVALUATION"
          /\ requests[vendor.request].kind = "UNBLACKLIST"
          /\ requests'[vendor.request].status = "APPROVED"
<1>1. ASSUME IInv, [Next]_vars
      PROVE  A
  <2>1. CASE Keeps \/ UNCHANGED vars
    BY <2>1 DEF Keeps, SameStanding, vars
  <2>2. ASSUME NEW u \in Deciders, NEW kind \in Kinds, Raises(u, kind)
        PROVE  A
    BY <2>2 DEF Raises, SameStanding
  <2>3. ASSUME NEW i \in 1..Len(requests), Closes(i) \/ Elapses(i)
        PROVE  A
    <3>1. requests[i].kind \in Kinds
      BY <1>1, RequestsAreASequence DEF IInv, Request
    <3> QED
      BY <2>3, <3>1 DEF Closes, Elapses, SameStanding, Kinds
  <2> QED
    BY <1>1, <2>1, <2>2, <2>3, StepKinds
<1> QED
  BY <1>1, Inductive, PTL DEF Spec, BlacklistIsLiftedByDecision

-----------------------------------------------------------------------------
(* The refinement.                                                         *)

\* The record stays as it is while no request is approved.
LEMMA AgreedStays ==
  ASSUME Approvals' = Approvals,
         \A i \in Approvals : /\ requests'[i].kind = requests[i].kind
                              /\ requests'[i].by = requests[i].by
                              /\ requests'[i].decidedBy = requests[i].decidedBy
  PROVE  Agreed' = Agreed
BY DEF Agreed

\* An approval adds itself to the record.
LEMMA AgreedGrows ==
  ASSUME NEW i, i \notin Approvals, Approvals' = Approvals \cup {i},
         \A j \in Approvals : requests'[j] = requests[j],
         requests'[i].kind = requests[i].kind, requests'[i].by = requests[i].by
  PROVE  Agreed' = Agreed \cup {[bar |-> requests[i].kind = "BLACKLIST", by |-> requests[i].by,
                                 with |-> requests'[i].decidedBy]}
<1>1. Agreed' = {[bar |-> requests'[j].kind = "BLACKLIST", by |-> requests'[j].by,
                  with |-> requests'[j].decidedBy] : j \in Approvals \cup {i}}
  BY DEF Agreed
<1>2. \A j \in Approvals \cup {i} : /\ requests'[j].kind = requests[j].kind
                                    /\ requests'[j].by = requests[j].by
                                    /\ j # i => requests'[j].decidedBy = requests[j].decidedBy
  OBVIOUS
<1> QED
  BY <1>1, <1>2 DEF Agreed

\* Whatever the sequence of calls, the vendor and its requests implement the
\* control by two people: blacklisting, and lifting it, takes two of them.
THEOREM ControlImplemented == Spec => DualControlled
<1> USE DEF Control!Init, Control!Next, Control!Propose, Control!Countersign, Control!Drop, Control!Retire,
            Control!vars
<1>1. Init => Control!Init
  <2>1. Init => vendor.deleted = FALSE /\ vendor.request = 0
    <3>1. ASSUME NEW d \in Details, vendor = Created(d)
          PROVE  vendor.deleted = FALSE /\ vendor.request = 0
      BY <3>1 DEF Created
    <3>2. ASSUME NEW s \in Source, vendor = Cloned(s)
          PROVE  vendor.deleted = FALSE /\ vendor.request = 0
      <4>1. s \in [status: Statuses, active: BOOLEAN, pending: Kinds \cup {"NONE"}, request: {0, 1},
                   approved: BOOLEAN, deleted: {FALSE}, details: Details]
        BY ZenonT(30) DEF Source
      <4> QED
        BY <3>2, <4>1 DEF Cloned
    <3> QED
      BY <3>1, <3>2 DEF Init
  <2>2. Init => Agreed = {}
    BY DEF Init, Agreed, Approvals
  <2> QED
    BY <2>1, <2>2
<1>2. ASSUME IInv, [Next]_vars
      PROVE  [Control!Next]_Control!vars
  <2>1. CASE UNCHANGED vars
    BY <2>1 DEF vars, Agreed, Approvals
  <2>2. CASE Keeps
    <3>0. Agreed' = Agreed
      BY <2>2 DEF Keeps, Agreed, Approvals
    <3>1. CASE SameStanding
      BY <2>2, <3>0, <3>1 DEF Keeps, SameStanding
    <3>2. CASE ~SameStanding
      <4>1. vendor.request = 0 /\ vendor'.request = 0 /\ ~vendor.deleted /\ vendor'.status # "BLACKLISTED"
        BY <1>2, <2>2, <3>2, PendingIsLast DEF Keeps
      <4>2. vendor.deleted = FALSE /\ vendor'.deleted \in BOOLEAN
        <5>1. Next
          BY <1>2, <3>2 DEF SameStanding, vars
        <5> QED
          BY <1>2, <4>1, <5>1, StepKinds DEF IInv, TypeOK, Row
      <4>3. CASE vendor'.deleted = TRUE
        BY <3>0, <4>1, <4>2, <4>3
      <4>4. CASE vendor'.deleted = FALSE
        <5>1. vendor.status # "BLACKLISTED"
          BY <2>2, <3>2, <4>4 DEF Keeps
        <5> QED
          BY <3>0, <4>1, <4>2, <4>4, <5>1
      <4> QED
        BY <4>2, <4>3, <4>4
    <3> QED
      BY <3>1, <3>2
  <2>3. ASSUME NEW u \in Deciders, NEW kind \in Kinds, Raises(u, kind)
        PROVE  Control!Propose(u)
    <3>1. vendor.request = 0 /\ vendor'.request = Len(requests) + 1 /\ Len(requests) \in Nat
      BY <1>2, <2>3, PendingIsLast, RequestsAreASequence DEF Raises, IInv
    <3>2. requests'[Len(requests) + 1].kind = kind /\ requests'[Len(requests) + 1].by = u
      BY <1>2, <2>3, AppendProperties, RequestsAreASequence DEF Raises, IInv, TypeOK
    <3>3. (kind = "BLACKLIST") = ~(vendor.status = "BLACKLISTED")
      BY <2>3 DEF Raises, Kinds
    <3>4. Agreed' = Agreed
      <4>1. requests'[Len(requests) + 1].status = "PENDING" /\ Len(requests') = Len(requests) + 1
        BY <1>2, <2>3, <3>1, AppendProperties DEF Raises, IInv, TypeOK, Request
      <4>2. DOMAIN requests = 1..Len(requests) /\ DOMAIN requests' = 1..(Len(requests) + 1)
        BY <1>2, <2>3, <3>1, RequestsAreASequence, AppendProperties DEF Raises, IInv, TypeOK, Request
      <4>3. \A i \in 1..Len(requests) : requests'[i] = requests[i]
        BY <1>2, <2>3, AppendProperties DEF Raises, IInv, TypeOK, Request
      <4>4. Approvals' = Approvals
        BY <3>1, <4>1, <4>2, <4>3 DEF Approvals
      <4> QED
        BY <4>2, <4>3, <4>4, AgreedStays DEF Approvals
    <3> QED
      BY <2>3, <3>1, <3>2, <3>3, <3>4 DEF Raises, SameStanding
  <2>4. ASSUME NEW i \in 1..Len(requests), requests[i].status = "PENDING", Closes(i)
        PROVE  Control!Drop \/ \E u \in Deciders : Control!Countersign(u)
    <3>1. vendor.request = i /\ i # 0 /\ vendor'.request = 0
      BY <1>2, <2>4, RequestsAreASequence DEF Closes, IInv
    <3>2. DOMAIN requests = 1..Len(requests) /\ DOMAIN requests' = 1..Len(requests)
      BY <1>2, <2>4, StepKinds, RequestsAreASequence DEF Closes, IInv, TypeOK, Request, vars
    <3>3. CASE requests'[i].status # "APPROVED"
      <4>1. Approvals' = Approvals /\ \A j \in Approvals : requests'[j] = requests[j]
        BY <2>4, <3>2, <3>3 DEF Closes, Approvals
      <4>2. Agreed' = Agreed
        BY <4>1, AgreedStays
      <4> QED
        BY <2>4, <3>1, <3>3, <4>2 DEF Closes, SameStanding
    <3>4. CASE requests'[i].status = "APPROVED"
      <4>1. /\ requests'[i].decidedBy \in Deciders /\ requests'[i].decidedBy # requests[i].by
            /\ requests[i].kind \in Kinds
            /\ (vendor'.status = "BLACKLISTED") = (requests[i].kind = "BLACKLIST")
            /\ vendor'.deleted = vendor.deleted
        BY <1>2, <2>4, <3>4, RequestsAreASequence DEF Closes, IInv, Request
      <4>2. i \notin Approvals /\ Approvals' = Approvals \cup {i} /\ \A j \in Approvals : requests'[j] = requests[j]
        BY <2>4, <3>2, <3>4 DEF Closes, Approvals
      <4>3. Agreed' = Agreed \cup {[bar |-> requests[i].kind = "BLACKLIST", by |-> requests[i].by,
                                    with |-> requests'[i].decidedBy]}
        BY <2>4, <4>2, AgreedGrows DEF Closes
      <4> QED
        BY <3>1, <4>1, <4>3
    <3> QED
      BY <3>3, <3>4
  <2>5. ASSUME NEW i \in 1..Len(requests), Elapses(i)
        PROVE  UNCHANGED Control!vars
    <3>1. vendor.request = i /\ vendor' = vendor
      BY <2>5 DEF Elapses
    <3>2. requests'[i].kind = requests[i].kind /\ requests'[i].by = requests[i].by
      BY <2>5 DEF Elapses
    <3>3. DOMAIN requests = 1..Len(requests) /\ DOMAIN requests' = 1..Len(requests)
      BY <1>2, <2>5, StepKinds, RequestsAreASequence DEF Elapses, IInv, TypeOK, Request, vars
    <3>4. Agreed' = Agreed
      <4>1. Approvals' = Approvals
        BY <2>5, <3>3 DEF Elapses, Approvals
      <4> QED
        BY <2>5, <3>3, <4>1, AgreedStays DEF Elapses, Approvals
    <3> QED
      BY <3>1, <3>2, <3>4
  <2> QED
    BY <1>2, <2>1, <2>2, <2>3, <2>4, <2>5, StepKinds
<1> QED
  BY <1>1, <1>2, Inductive, PTL DEF Spec, DualControlled, Control!Spec

-----------------------------------------------------------------------------
(* The vendor under concurrent requests (VendorRaces).                     *)

Whole(row) == row.active <=> row.status = "ACTIVE"

\* A decision in flight is of a request somebody else raised, a withdrawal of one raised.
DecisionsAreChecked ==
  \A c \in begun \cup DOMAIN flight :
    c.op \in Decisive => /\ c.request \in DOMAIN requests
                         /\ c.op # "cancel" => c.by # requests[c.request].by

\* Nothing that Vendor's invariant says of the pending request survives a race;
\* this does, and it is inductive.
RaceIInv ==
  /\ TypeOK
  /\ DOMAIN flight \subseteq Calls /\ begun \subseteq Calls
  /\ \A c \in DOMAIN flight : flight[c] \in Row
  /\ DecisionsAreChecked
  /\ WholeRows
  /\ BlacklistWasOnceCountersigned

\* Requests are never dropped, and keep their kind and their maker.
RequestsGrow ==
  /\ requests' \in Seq(Request)
  /\ \A i \in DOMAIN requests : /\ i \in DOMAIN requests'
                                /\ requests'[i].kind = requests[i].kind
                                /\ requests'[i].by = requests[i].by

NewlyApproved == {j \in DOMAIN requests : requests'[j].status = "APPROVED" /\ requests[j].status # "APPROVED"}

\* What a step that saves a vendor computed from `row` leaves.
Leaves(row) ==
  /\ vendor' \in Row /\ origin' = origin
  /\ Whole(row) => Whole(vendor')

LEMMA RaceRequests ==
  ASSUME TypeOK
  PROVE  /\ Len(requests) \in Nat
         /\ DOMAIN requests = 1..Len(requests)
         /\ \A i \in DOMAIN requests : requests[i] \in Request
BY RequestsAreASequence

\* A step that does not touch the requests.
LEMMA SameRequests ==
  ASSUME TypeOK, requests' = requests
  PROVE  RequestsGrow /\ NewlyApproved = {}
BY DEF TypeOK, RequestsGrow, NewlyApproved

\* What the handlers without a request save of the row they hold.
LEMMA PlainSaves ==
  ASSUME NEW row \in Row
  PROVE  \A new \in {Enabled(row), Disabled(row), Removed(row), RolledUp(row), Released(row),
                     Enabled(RolledUp(row))} \cup {[row EXCEPT !.details = d] : d \in Details} :
           /\ new \in Row
           /\ Whole(row) => Whole(new)
           /\ new.status = "BLACKLISTED" => row.status = "BLACKLISTED"
<1> DEFINE Good(new) == /\ new \in Row
                        /\ Whole(row) => Whole(new)
                        /\ new.status = "BLACKLISTED" => row.status = "BLACKLISTED"
<1> USE DEF Row, Statuses, Whole
<1>1. Good(Enabled(row)) /\ Good(Enabled(RolledUp(row)))
  BY DEF Enabled, RolledUp
<1>2. Good(Disabled(row)) /\ Good(Removed(row))
  BY DEF Disabled, Removed
<1>3. Good(RolledUp(row)) /\ Good(Released(row))
  BY DEF RolledUp, Released
<1>4. ASSUME NEW d \in Details PROVE Good([row EXCEPT !.details = d])
  OBVIOUS
<1> HIDE DEF Good
<1>5. \A new \in {Enabled(row), Disabled(row), Removed(row), RolledUp(row), Released(row),
                  Enabled(RolledUp(row))} \cup {[row EXCEPT !.details = d] : d \in Details} : Good(new)
  BY <1>1, <1>2, <1>3, <1>4
<1> QED
  BY <1>5 DEF Good

\* A request is raised on whatever row the maker has read.
LEMMA RaceRaise ==
  ASSUME TypeOK, NEW row \in Row, NEW u \in Deciders, NEW kind \in Kinds, RaiseWrites(row, u, kind)
  PROVE  /\ RequestsGrow /\ NewlyApproved = {}
         /\ Leaves(row) /\ vendor'.status = row.status
<1> DEFINE r == [kind |-> kind, status |-> "PENDING", by |-> u, decidedBy |-> "NONE",
                 was |-> row.status, wasActive |-> row.active, stale |-> FALSE]
<1>1. r \in Request
  BY UsersAssumption DEF Request, Row
<1>2. requests' = Append(requests, r) /\ requests \in Seq(Request)
  BY DEF RaiseWrites, TypeOK
<1> HIDE DEF r
<1>3. /\ requests' \in Seq(Request)
      /\ \A i \in DOMAIN requests : i \in DOMAIN requests' /\ requests'[i] = requests[i]
  <2>1. /\ Append(requests, r) \in Seq(Request) /\ Len(Append(requests, r)) = Len(requests) + 1
        /\ \A i \in 1..Len(requests) : Append(requests, r)[i] = requests[i]
    BY <1>1, <1>2, AppendProperties
  <2>2. DOMAIN Append(requests, r) = 1..(Len(requests) + 1)
    BY <2>1, LenProperties
  <2> QED
    BY <1>2, <2>1, <2>2, RaceRequests
<1>4. Len(requests) + 1 \in Nat /\ kind \in Kinds \cup {"NONE"}
  BY RaceRequests
<1>5. vendor' = [row EXCEPT !.pending = kind, !.request = Len(requests) + 1] /\ origin' = origin
  BY DEF RaiseWrites
<1>6. Leaves(row) /\ vendor'.status = row.status
  BY <1>4, <1>5 DEF Leaves, Row, Whole
<1> QED
  BY <1>3, <1>6 DEF RequestsGrow, NewlyApproved

\* A decision or a withdrawal on whatever row its caller has read.
LEMMA RaceDecision ==
  ASSUME TypeOK, NEW row \in Row, NEW u \in Users, NEW i \in DOMAIN requests,
         CancelWrites(row, u, i) \/ ApproveWrites(row, u, i) \/ RejectWrites(row, u, i)
  PROVE  /\ RequestsGrow
         /\ NewlyApproved \subseteq {i} /\ requests'[i].decidedBy = u
         /\ Leaves(row)
         /\ vendor'.status = "BLACKLISTED" => \/ row.status = "BLACKLISTED"
                                              \/ ApproveWrites(row, u, i) /\ requests[i].kind = "BLACKLIST"
<1>1. ASSUME NEW outcome \in Outcomes, Closed(i, outcome, u)
      PROVE  RequestsGrow /\ NewlyApproved \subseteq {i} /\ requests'[i].decidedBy = u
  <2>1. /\ requests' \in Seq(Request) /\ Len(requests') = Len(requests)
        /\ \A j \in 1..Len(requests) \ {i} : requests'[j] = requests[j]
        /\ requests'[i].kind = requests[i].kind /\ requests'[i].by = requests[i].by
        /\ requests'[i].decidedBy = u
    BY <1>1, ClosedRequest
  <2>2. DOMAIN requests' = 1..Len(requests) /\ DOMAIN requests = 1..Len(requests)
    BY <2>1, RaceRequests, LenProperties
  <2> QED
    BY <2>1, <2>2 DEF RequestsGrow, NewlyApproved
<1>2. ASSUME CancelWrites(row, u, i) \/ RejectWrites(row, u, i)
      PROVE  Leaves(row) /\ (vendor'.status = "BLACKLISTED" => row.status = "BLACKLISTED")
  BY <1>2, PlainSaves DEF CancelWrites, RejectWrites, Leaves
<1>3. ASSUME ApproveWrites(row, u, i)
      PROVE  /\ Leaves(row)
             /\ vendor'.status = "BLACKLISTED" => requests[i].kind = "BLACKLIST"
  <2>1. vendor' = Released(Standing(row, requests[i].kind)) /\ origin' = origin
    BY <1>3 DEF ApproveWrites
  <2>2. requests[i].kind \in Kinds
    BY RaceRequests DEF Request
  <2> QED
    BY <2>1, <2>2 DEF Leaves, Released, Standing, Row, Statuses, Whole, Kinds
<1>4. \E outcome \in Outcomes : Closed(i, outcome, u)
  BY DEF CancelWrites, ApproveWrites, RejectWrites, Outcomes
<1> QED
  BY <1>1, <1>2, <1>3, <1>4

\* The update of the expiry, for whatever it had found.
LEMMA RaceExpiry ==
  ASSUME TypeOK, NEW stale, ExpireWrites(stale)
  PROVE  /\ RequestsGrow /\ NewlyApproved = {}
         /\ Leaves(vendor)
         /\ vendor'.status = "BLACKLISTED" => vendor.status = "BLACKLISTED"
<1>1. vendor \in Row /\ requests \in Seq(Request) /\ Len(requests) \in Nat /\ DOMAIN requests = 1..Len(requests)
  BY RaceRequests DEF TypeOK
<1>2. \A i \in DOMAIN requests :
        LET r == [requests[i] EXCEPT !.status = "EXPIRED"]
        IN  /\ r \in Request /\ r.kind = requests[i].kind /\ r.by = requests[i].by
            /\ r.status = "EXPIRED"
  BY RaceRequests DEF Request, Outcomes
<1>3. /\ DOMAIN requests' = 1..Len(requests)
      /\ \A i \in 1..Len(requests) :
           requests'[i] = IF i \in stale THEN [requests[i] EXCEPT !.status = "EXPIRED"] ELSE requests[i]
      /\ requests' = [i \in 1..Len(requests) |-> requests'[i]]
  BY <1>1 DEF ExpireWrites
<1>4. \A i \in 1..Len(requests) : /\ requests'[i] \in Request
                                  /\ requests'[i].kind = requests[i].kind
                                  /\ requests'[i].by = requests[i].by
                                  /\ requests'[i] = requests[i] \/ requests'[i].status = "EXPIRED"
  BY <1>1, <1>2, <1>3, RaceRequests
<1>5. requests' \in Seq(Request)
  BY <1>1, <1>3, <1>4
<1>6. RequestsGrow /\ NewlyApproved = {}
  BY <1>1, <1>3, <1>4, <1>5 DEF RequestsGrow, NewlyApproved
<1>7. Leaves(vendor) /\ (vendor'.status = "BLACKLISTED" => vendor.status = "BLACKLISTED")
  BY <1>1, PlainSaves DEF ExpireWrites, Leaves
<1> QED
  BY <1>6, <1>7

\* A request nobody overtakes: whoever it shows approving did not raise it, and
\* only an approval to blacklist blacklists.
LEMMA RaceUndisturbed ==
  ASSUME TypeOK, Next
  PROVE  /\ RequestsGrow /\ Leaves(vendor)
         /\ \A j \in NewlyApproved : requests'[j].decidedBy # requests[j].by
         /\ vendor'.status = "BLACKLISTED" => \/ vendor.status = "BLACKLISTED"
                                              \/ \E j \in NewlyApproved : requests[j].kind = "BLACKLIST"
<1>1. vendor \in Row /\ Deciders \subseteq Users
  BY UsersAssumption DEF TypeOK
<1>2. ASSUME NEW u \in Users, Update(u) \/ Enable(u) \/ Disable(u) \/ Evaluate(u) \/ Remove(u)
      PROVE  /\ requests' = requests /\ Leaves(vendor)
             /\ vendor'.status = "BLACKLISTED" => vendor.status = "BLACKLISTED"
  <2>1. /\ requests' = requests /\ origin' = origin
        /\ vendor' \in {Enabled(vendor), Disabled(vendor), Removed(vendor), RolledUp(vendor), Released(vendor),
                        Enabled(RolledUp(vendor))} \cup {[vendor EXCEPT !.details = d] : d \in Details}
    BY <1>2 DEF Update, Enable, Disable, Evaluate, Remove
  <2> QED
    BY <1>1, <2>1, PlainSaves DEF Leaves
<1>3. ASSUME NEW u \in Users, NEW kind \in Kinds, Raise(u, kind)
      PROVE  RequestsGrow /\ NewlyApproved = {} /\ Leaves(vendor) /\ vendor'.status = vendor.status
  BY <1>1, <1>3, RaceRaise DEF Raise, RaiseReads
<1>4. ASSUME NEW u \in Users, NEW i \in DOMAIN requests, Cancel(u, i) \/ Reject(u, i)
      PROVE  /\ RequestsGrow /\ NewlyApproved = {} /\ Leaves(vendor)
             /\ vendor'.status = "BLACKLISTED" => vendor.status = "BLACKLISTED"
  <2>1. CancelWrites(vendor, u, i) \/ RejectWrites(vendor, u, i)
    BY <1>4 DEF Cancel, Reject
  <2>2. RequestsGrow /\ NewlyApproved \subseteq {i} /\ Leaves(vendor)
    BY <1>1, <2>1, RaceDecision
  <2>3. \E outcome \in {"CANCELLED", "REJECTED"} : Closed(i, outcome, u)
    BY <2>1 DEF CancelWrites, RejectWrites
  <2>4. requests'[i].status # "APPROVED"
    BY <2>3, ClosedRequest DEF Outcomes
  <2>5. vendor'.status = "BLACKLISTED" => vendor.status = "BLACKLISTED"
    BY <1>1, <2>1, PlainSaves DEF CancelWrites, RejectWrites
  <2> QED
    BY <2>2, <2>4, <2>5 DEF NewlyApproved
<1>5. ASSUME NEW u \in Users, NEW i \in DOMAIN requests, Approve(u, i)
      PROVE  /\ RequestsGrow /\ NewlyApproved = {i} /\ Leaves(vendor)
             /\ requests'[i].decidedBy # requests[i].by
             /\ vendor'.status = "BLACKLISTED" => vendor.status = "BLACKLISTED" \/ requests[i].kind = "BLACKLIST"
  <2>1. /\ u # requests[i].by /\ requests[i].status = "PENDING"
        /\ ApproveWrites(vendor, u, i) /\ Closed(i, "APPROVED", u)
    BY <1>5 DEF Approve, DecideReads, ApproveWrites
  <2>2. requests'[i].status = "APPROVED"
    BY <2>1, ClosedRequest DEF Outcomes
  <2> QED
    BY <1>1, <2>1, <2>2, RaceDecision DEF NewlyApproved
<1>6. ASSUME NEW i \in DOMAIN requests, Elapse(i)
      PROVE  RequestsGrow /\ NewlyApproved = {} /\ vendor' = vendor /\ origin' = origin
  <2> DEFINE r == [requests[i] EXCEPT !.stale = TRUE]
  <2>1. /\ r \in Request /\ r.kind = requests[i].kind /\ r.by = requests[i].by
        /\ r.status = requests[i].status
    BY RaceRequests DEF Request
  <2>2. requests' = [requests EXCEPT ![i] = r] /\ vendor' = vendor /\ origin' = origin
    BY <1>6, RaceRequests, LenProperties DEF Elapse, Request, TypeOK
  <2> HIDE DEF r
  <2>3. /\ requests' \in Seq(Request) /\ Len(requests') = Len(requests)
        /\ \A j \in 1..Len(requests) : requests'[j] = IF j = i THEN r ELSE requests[j]
    BY <2>1, <2>2, RaceRequests, ExceptSeq DEF TypeOK
  <2>4. DOMAIN requests' = 1..Len(requests) /\ DOMAIN requests = 1..Len(requests)
    BY <2>3, RaceRequests, LenProperties
  <2> QED
    BY <2>1, <2>2, <2>3, <2>4 DEF RequestsGrow, NewlyApproved
<1>7. ASSUME ExpireStaleStatusChangeRequests
      PROVE  /\ RequestsGrow /\ NewlyApproved = {} /\ Leaves(vendor)
             /\ vendor'.status = "BLACKLISTED" => vendor.status = "BLACKLISTED"
  BY <1>7, RaceExpiry DEF ExpireStaleStatusChangeRequests
<1>8. CASE \E u \in Users : Update(u) \/ Enable(u) \/ Disable(u) \/ Evaluate(u) \/ Remove(u)
  BY <1>2, <1>8, SameRequests
<1>9. CASE \E u \in Users, kind \in Kinds : Raise(u, kind)
  BY <1>3, <1>9
<1>10. CASE \E u \in Users, i \in DOMAIN requests : Cancel(u, i) \/ Reject(u, i)
  BY <1>4, <1>10
<1>11. CASE \E u \in Users, i \in DOMAIN requests : Approve(u, i)
  BY <1>5, <1>11
<1>12. CASE \E i \in DOMAIN requests : Elapse(i)
  BY <1>1, <1>6, <1>12 DEF Leaves
<1>13. CASE ExpireStaleStatusChangeRequests
  BY <1>7, <1>13
<1> QED
  BY <1>8, <1>9, <1>10, <1>11, <1>12, <1>13 DEF Next

Countersigned == \E s \in signed : s.kind = "BLACKLIST"

\* The three named parts of the invariant that speak of rows and calls follow
\* from these facts about a step.
LEMMA RaceCarries ==
  ASSUME RaceIInv, RequestsGrow, vendor' \in Row, origin' = origin,
         signed \subseteq signed', \A s \in signed' \ signed : s.by # s.decidedBy,
         Whole(vendor'),
         vendor'.status = "BLACKLISTED" => \/ \E row \in Rows : row.status = "BLACKLISTED"
                                           \/ Countersigned',
         DOMAIN flight' \subseteq Calls, begun' \subseteq Calls,
         \A c \in DOMAIN flight' : flight'[c] \in Rows,
         \A c \in begun' \cup DOMAIN flight' :
           c.op \in Decisive => \/ c \in begun \cup DOMAIN flight
                                \/ /\ c.request \in DOMAIN requests
                                   /\ c.op # "cancel" => c.by # requests[c.request].by
  PROVE  RaceIInv'
<1>1. TypeOK'
  BY DEF RaceIInv, TypeOK, RequestsGrow
<1>2. \A c \in DOMAIN flight' : flight'[c] \in Row
  BY DEF RaceIInv, Rows, TypeOK
<1>3. DecisionsAreChecked'
  BY DEF RaceIInv, DecisionsAreChecked, RequestsGrow
<1>4. \A row \in Rows' : row = vendor' \/ row \in Rows
  BY DEF Rows
<1>5. WholeRows'
  BY <1>4 DEF RaceIInv, WholeRows, Whole
<1>6. BlacklistWasOnceCountersigned'
  BY <1>4 DEF RaceIInv, BlacklistWasOnceCountersigned, Countersigned
<1> QED
  BY <1>1, <1>2, <1>3, <1>5, <1>6 DEF RaceIInv

\* Nothing is in flight at first.
LEMMA RaceInit_IInv == RaceInit => RaceIInv
<1> SUFFICES ASSUME RaceInit PROVE RaceIInv
  OBVIOUS
<1>1. IInv /\ origin = vendor.status /\ begun = {} /\ flight = <<>> /\ signed = {}
  BY InitIInv DEF RaceInit, Init
<1>2. DOMAIN flight = {} /\ Rows = {vendor}
  BY <1>1 DEF Rows
<1> QED
  BY <1>1, <1>2 DEF IInv, RaceIInv, DecisionsAreChecked, WholeRows, ActiveIsAvailable, BlacklistWasOnceCountersigned

\* Saving what a call read keeps the invariant, whatever happened since.
LEMMA CommitRaceIInv ==
  ASSUME RaceIInv, NEW c \in DOMAIN flight, Commit(c)
  PROVE  RaceIInv'
<1> DEFINE row == flight[c]
<1>1. c \in Calls /\ row \in Row /\ row \in Rows /\ TypeOK /\ Whole(row)
  BY DEF RaceIInv, Rows, WholeRows, Whole
<1>2. /\ DOMAIN flight' = DOMAIN flight \ {c}
      /\ \A x \in DOMAIN flight' : flight'[x] \in Rows
      /\ begun' \subseteq begun \cup {[op |-> "activate", by |-> c.by]}
      /\ c.op # "evaluate" => begun' = begun
  BY DEF Commit, Committing, Rows
<1>3. DOMAIN flight' \subseteq Calls /\ begun' \subseteq Calls
  BY <1>1, <1>2, CallsAssumption DEF RaceIInv, Decisive
<1>4. \A x \in begun' \cup DOMAIN flight' : x.op \in Decisive => x \in begun \cup DOMAIN flight
  BY <1>2 DEF Decisive
<1>5. c.by \in Users /\ (c.op = "raise" => c.by \in Deciders /\ c.kind \in Kinds) /\ (c.op = "update" => c.details \in Details)
  BY <1>1, CallsAssumption, UsersAssumption DEF Decisive
<1>6. c.op \in {"update", "evaluate", "enable", "activate", "disable", "remove", "raise", "cancel", "approve", "reject"}
  BY <1>1, CallsAssumption DEF Decisive
<1> SUFFICES /\ RequestsGrow /\ Leaves(row)
             /\ signed \subseteq signed' /\ \A s \in signed' \ signed : s.by # s.decidedBy
             /\ vendor'.status = "BLACKLISTED" => row.status = "BLACKLISTED" \/ Countersigned'
  BY <1>1, <1>2, <1>3, <1>4, RaceCarries DEF Leaves
<1>7. CASE c.op \in {"update", "evaluate", "enable", "activate", "disable", "remove"}
  <2>1. signed' = signed
    BY <1>7 DEF Commit, Committing
  <2>2. \E new : /\ Saved(c, new)
                 /\ new \in {Enabled(row), Disabled(row), Removed(row), RolledUp(row), Released(row),
                             Enabled(RolledUp(row))} \cup {[row EXCEPT !.details = d] : d \in Details}
    <3>1. CASE c.op = "update"
      BY <1>5, <3>1 DEF Commit
    <3>2. CASE c.op = "evaluate"
      BY <3>2 DEF Commit
    <3>3. CASE c.op \in {"enable", "activate"}
      BY <3>3 DEF Commit
    <3>4. CASE c.op = "disable"
      BY <3>4 DEF Commit
    <3>5. CASE c.op = "remove"
      BY <3>5 DEF Commit
    <3> QED
      BY <1>7, <3>1, <3>2, <3>3, <3>4, <3>5
  <2>3. requests' = requests /\ Leaves(row) /\ (vendor'.status = "BLACKLISTED" => row.status = "BLACKLISTED")
    BY <1>1, <2>2, PlainSaves DEF Saved, Leaves
  <2> QED
    BY <1>1, <2>1, <2>3, SameRequests
<1>8. CASE c.op = "raise"
  <2>1. signed' = signed /\ RaiseWrites(row, c.by, c.kind)
    BY <1>8 DEF Commit, Committing
  <2> QED
    BY <1>1, <1>5, <1>8, <2>1, RaceRaise
<1>9. CASE c.op \in Decisive
  <2>1. c.request \in DOMAIN requests /\ (c.op # "cancel" => c.by # requests[c.request].by)
    BY <1>9 DEF RaceIInv, DecisionsAreChecked
  <2>2. CASE c.op \in {"cancel", "reject"}
    <3>1. signed' = signed /\ (CancelWrites(row, c.by, c.request) \/ RejectWrites(row, c.by, c.request))
      BY <2>2 DEF Commit, Committing
    <3>2. vendor'.status = "BLACKLISTED" => row.status = "BLACKLISTED"
      BY <1>1, <3>1, PlainSaves DEF CancelWrites, RejectWrites
    <3> QED
      BY <1>1, <1>5, <2>1, <3>1, <3>2, RaceDecision
  <2>3. CASE c.op = "approve"
    <3>1. /\ ApproveWrites(row, c.by, c.request)
          /\ signed' = signed \cup {[kind |-> requests[c.request].kind, by |-> requests[c.request].by,
                                     decidedBy |-> c.by]}
      BY <2>3 DEF Commit, Committing
    <3>2. requests[c.request].kind = "BLACKLIST" => Countersigned'
      <4> DEFINE s == [kind |-> requests[c.request].kind, by |-> requests[c.request].by, decidedBy |-> c.by]
      <4>1. s \in signed' /\ s.kind = requests[c.request].kind
        BY <3>1
      <4> QED
        BY <4>1 DEF Countersigned
    <3>3. \A s \in signed' \ signed : s.by # s.decidedBy
      BY <2>1, <2>3, <3>1
    <3> QED
      BY <1>1, <1>5, <2>1, <3>1, <3>2, <3>3, RaceDecision
  <2> QED
    BY <1>9, <2>2, <2>3 DEF Decisive
<1> QED
  BY <1>6, <1>7, <1>8, <1>9 DEF Decisive

\* Every step of the race keeps the invariant.
LEMMA RaceNextIInv == RaceIInv /\ [RaceNext]_raceVars => RaceIInv'
<1> SUFFICES ASSUME RaceIInv, [RaceNext]_raceVars PROVE RaceIInv'
  OBVIOUS
<1>1. TypeOK /\ vendor \in Row /\ vendor \in Rows /\ Whole(vendor) /\ \A c \in DOMAIN flight : flight[c] \in Rows
  BY DEF RaceIInv, TypeOK, Rows, WholeRows, Whole
<1>2. requests' = requests => RequestsGrow
  BY <1>1, SameRequests
<1>3. CASE Undisturbed
  <2>1. /\ Next
        /\ signed' = signed \cup {[kind |-> requests[i].kind, by |-> requests[i].by, decidedBy |-> requests'[i].decidedBy] :
                                    i \in NewlyApproved}
        /\ begun' = begun /\ flight' = flight
    BY <1>3 DEF Undisturbed, NewlyApproved
  <2>2. /\ RequestsGrow /\ Leaves(vendor)
        /\ \A j \in NewlyApproved : requests'[j].decidedBy # requests[j].by
        /\ vendor'.status = "BLACKLISTED" => \/ vendor.status = "BLACKLISTED"
                                             \/ \E j \in NewlyApproved : requests[j].kind = "BLACKLIST"
    BY <1>1, <2>1, RaceUndisturbed
  <2>3. ASSUME NEW j \in NewlyApproved, requests[j].kind = "BLACKLIST"
        PROVE  Countersigned'
    <3> DEFINE s == [kind |-> requests[j].kind, by |-> requests[j].by, decidedBy |-> requests'[j].decidedBy]
    <3>1. s \in signed' /\ s.kind = "BLACKLIST"
      BY <2>1, <2>3
    <3> QED
      BY <3>1 DEF Countersigned
  <2>4. \A s \in signed' \ signed : s.by # s.decidedBy
    BY <2>1, <2>2
  <2> QED
    BY <1>1, <2>1, <2>2, <2>3, <2>4, RaceCarries DEF Leaves, RaceIInv
<1>4. ASSUME NEW c \in Calls, Begin(c)
      PROVE  RaceIInv'
  <2>1. begun' = begun \cup {c} /\ UNCHANGED <<vars, flight, found, signed>>
    BY <1>4 DEF Begin
  <2>2. c.request \in DOMAIN requests /\ (c.op # "cancel" => c.by # requests[c.request].by)
    BY <1>4 DEF Begin, RequestCheck, DecideReads
  <2> QED
    BY <1>1, <1>2, <2>1, <2>2, RaceCarries DEF RaceIInv, vars
<1>5. ASSUME NEW c \in Calls, Read(c)
      PROVE  RaceIInv'
  <2>1. /\ begun' \subseteq begun
        /\ flight' = [x \in DOMAIN flight \cup {c} |-> IF x = c THEN vendor ELSE flight[x]]
        /\ UNCHANGED <<vars, found, signed>>
        /\ c.op \in Decisive => c \in begun
    BY <1>5 DEF Read
  <2>2. DOMAIN flight' = DOMAIN flight \cup {c} /\ \A x \in DOMAIN flight' : flight'[x] \in Rows
    BY <1>1, <2>1
  <2> QED
    BY <1>1, <1>2, <2>1, <2>2, RaceCarries DEF RaceIInv, vars
<1>6. ASSUME NEW c \in DOMAIN flight, Commit(c)
      PROVE  RaceIInv'
  BY <1>6, CommitRaceIInv
<1>7. CASE FindStale \/ UNCHANGED raceVars
  <2>1. UNCHANGED <<vars, begun, flight, signed>>
    BY <1>7 DEF FindStale, raceVars
  <2> QED
    BY <1>1, <1>2, <2>1, RaceCarries DEF RaceIInv, vars
<1>8. CASE ExpireFound
  <2>1. ExpireWrites(found) /\ UNCHANGED <<begun, flight, signed>>
    BY <1>8 DEF ExpireFound
  <2> QED
    BY <1>1, <2>1, RaceExpiry, RaceCarries DEF RaceIInv, Leaves
<1> QED
  BY <1>3, <1>4, <1>5, <1>6, <1>7, <1>8 DEF RaceNext

\* RaceIInv holds throughout.
LEMMA RaceInductive == RaceSpec => []RaceIInv
BY RaceInit_IInv, RaceNextIInv, PTL DEF RaceSpec

\* However the requests of VendorService overtake each other, a row that is
\* saved, or still held by a handler, is one some handler made: available
\* exactly if it is active.
THEOREM RowsStayWhole == RaceSpec => []WholeRows
<1>1. RaceIInv => WholeRows
  BY DEF RaceIInv
<1> QED
  BY <1>1, RaceInductive, PTL

\* However they overtake each other, a vendor that was not created blacklisted is
\* blacklisted only after approveStatusChange committed a blacklisting that
\* another user had raised.
THEOREM NobodyWasBlacklistedAlone == RaceSpec => []BlacklistWasOnceCountersigned
<1>1. RaceIInv => BlacklistWasOnceCountersigned
  BY DEF RaceIInv
<1> QED
  BY <1>1, RaceInductive, PTL

=============================================================================
