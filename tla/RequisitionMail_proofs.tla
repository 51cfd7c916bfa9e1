----------------------- MODULE RequisitionMail_proofs -----------------------
(***************************************************************************)
(* Proofs about RequisitionMail, for any users, contents, number of rounds *)
(* and of emails under way.                                                *)
(*                                                                         *)
(* MailsKeepUp speaks of the moments at which no email is under way. The   *)
(* inductive invariant says of every moment who is still to be asked by an *)
(* email that is (Covered), and what each outcome email will find          *)
(* (OutcomesHold). Every step is one of three kinds: a transaction within  *)
(* its round (Within), one that starts a round, or an email that leaves.   *)
(***************************************************************************)
EXTENDS RequisitionMail, Integers, TLAPS

\* Some email under way will ask user u of the role, if the role still decides then.
WillAsk(role, u) ==
  \/ \E m \in mails : m.kind = "submitted" /\ role = "REVIEWER"
  \/ \E m \in mails : m.kind = "reviewed" /\ role = "APPROVER"
  \/ \E m \in mails : m.kind = "joined" /\ u \in m.joined[role]

\* Whoever is to decide now has been asked or is going to be.
Covered ==
  ~excused => \A role \in Roles : row.status = DecidesIn[role] =>
    \A u \in PendingMembers(people, role) : u \in asked[role] \/ WillAsk(role, u)

\* An outcome email is of this round or an earlier one, and in this round its
\* decision still stands where it was recorded.
OutcomesHold ==
  \A m \in mails : m.kind = "ended" =>
    /\ m.round <= row.round
    /\ m.round = row.round /\ m.same => people[m.role][m.by] = m.mark

\* A requisition that is held or disabled, or was in this round, is excused; one that
\* is deleted was a draft.
QuietIsExcused ==
  /\ row.status \in {"ON_HOLD", "DISABLED"} => excused
  /\ row.deleted => row.status = "DRAFT"

MailIInv == MailTypeOK /\ Covered /\ OutcomesHold /\ QuietIsExcused

-----------------------------------------------------------------------------
(* What the operators return.                                              *)

\* Only outcome emails carry a role, a person, a decision and a round.
LEMMA MailKinds ==
  ASSUME NEW m \in Mail
  PROVE  /\ m.kind \in {"submitted", "reviewed", "joined", "ended"}
         /\ m.kind = "joined" => m.joined \in [Roles -> SUBSET Users]
         /\ m.kind = "ended" =>
              /\ m \in [kind: {"ended"}, role: Roles, by: Users, mark: Decided, round: Nat, same: BOOLEAN]
              /\ m.role \in Roles /\ m.by \in Users /\ m.mark \in Decided /\ m.round \in Nat /\ m.same \in BOOLEAN
BY DEF Mail

\* Replacing the lists keeps every decision of those who stay, and a newcomer is pending.
LEMMA AssignedMarks ==
  ASSUME NEW ps \in [Roles -> [Users -> Marks]], NEW want
  PROVE  /\ Assigned(ps, want) \in [Roles -> [Users -> Marks]]
         /\ \A role \in Roles, u \in Users :
              Assigned(ps, want)[role][u] = IF u \notin want[role] THEN "NONE"
                                            ELSE IF ps[role][u] = "NONE" THEN "PENDING" ELSE ps[role][u]
BY DEF Assigned, Marks

\* A new round clears every decision.
LEMMA ClearedMarks ==
  ASSUME NEW ps
  PROVE  Cleared(ps) \in [Roles -> [Users -> Marks]]
BY DEF Cleared, Marks

\* Settling changes nothing but the status, which moves one stage or stays.
LEMMA SettledRow ==
  ASSUME NEW r \in Row, NEW ps
  PROVE  /\ Settled(r, ps) \in Row
         /\ Settled(r, ps).round = r.round /\ Settled(r, ps).deleted = r.deleted
         /\ \/ Settled(r, ps).status = r.status
            \/ r.status = "UNDER_REVIEW" /\ Settled(r, ps).status = "REVIEWED"
            \/ r.status = "REVIEWED" /\ Settled(r, ps).status = "APPROVED"
BY DEF Settled, Row, Roles, Statuses, DecidesIn

\* The two roles decide in different statuses, and in no other.
LEMMA OneDecides ==
  /\ DecidesIn["REVIEWER"] = "UNDER_REVIEW" /\ DecidesIn["APPROVER"] = "REVIEWED"
  /\ \A role \in Roles : role \in {"REVIEWER", "APPROVER"}
BY DEF DecidesIn, Roles

-----------------------------------------------------------------------------
(* What a transaction does to the emails under way.                        *)

\* Following an outcome email changes only whether its row is still there.
LEMMA FollowedMail ==
  ASSUME NEW m \in Mail, m.kind = "ended", NEW b \in BOOLEAN
  PROVE  /\ [m EXCEPT !.same = b] \in Mail
         /\ [m EXCEPT !.same = b].same = b
         /\ \A f \in {"kind", "role", "by", "mark", "round"} : [m EXCEPT !.same = b][f] = m[f]
<1>1. m \in [kind: {"ended"}, role: Roles, by: Users, mark: Decided, round: Nat, same: BOOLEAN]
  BY MailKinds
<1>2. [m EXCEPT !.same = b] \in [kind: {"ended"}, role: Roles, by: Users, mark: Decided, round: Nat, same: BOOLEAN]
  BY <1>1
<1> QED
  BY <1>1, <1>2 DEF Mail

\* Emails under way stay under way; an outcome email then knows whether its row does.
LEMMA PostedMails ==
  ASSUME MailTypeOK, people' \in [Roles -> [Users -> Marks]], NEW called \in SUBSET Mail, Post(called)
  PROVE  /\ mails' \subseteq Mail
         /\ called \subseteq mails'
         /\ \A m \in mails : m.kind # "ended" => m \in mails'
         /\ \A m \in mails' : m.kind = "ended" =>
              \/ m \in called
              \/ \E n \in mails : /\ n.kind = "ended" /\ n.round = m.round
                                  /\ n.role = m.role /\ n.by = m.by /\ n.mark = m.mark
                                  /\ m.same => n.same /\ people'[n.role][n.by] # "NONE"
<1> DEFINE Followed(m) == IF m.kind = "ended" THEN [m EXCEPT !.same = @ /\ people'[m.role][m.by] # "NONE"] ELSE m
<1>1. mails' = {Followed(m) : m \in mails} \cup called
  BY DEF Post
<1>2. ASSUME NEW m \in mails, m.kind = "ended"
      PROVE  /\ Followed(m) \in Mail
             /\ \A f \in {"kind", "role", "by", "mark", "round"} : Followed(m)[f] = m[f]
             /\ Followed(m).same => m.same /\ people'[m.role][m.by] # "NONE"
  <2>1. m \in Mail
    BY DEF MailTypeOK
  <2> DEFINE b == m.same /\ people'[m.role][m.by] # "NONE"
  <2>2. b \in BOOLEAN
    OBVIOUS
  <2>3. Followed(m) = [m EXCEPT !.same = b]
    BY <1>2
  <2> HIDE DEF b, Followed
  <2>4. Followed(m) \in Mail /\ Followed(m).same = b
        /\ \A f \in {"kind", "role", "by", "mark", "round"} : Followed(m)[f] = m[f]
    BY <1>2, <2>1, <2>2, <2>3, FollowedMail
  <2> QED
    BY <2>4 DEF b
<1>3. ASSUME NEW m \in mails, m.kind # "ended"
      PROVE  Followed(m) = m
  BY <1>3
<1>4. mails \subseteq Mail
  BY DEF MailTypeOK
<1> HIDE DEF Followed
<1>5. mails' \subseteq Mail
  BY <1>1, <1>2, <1>3, <1>4
<1>6. called \subseteq mails' /\ \A m \in mails : m.kind # "ended" => m \in mails'
  BY <1>1, <1>3
<1>7. ASSUME NEW m \in mails', m.kind = "ended", m \notin called
      PROVE  \E n \in mails : /\ n.kind = "ended" /\ n.round = m.round
                              /\ n.role = m.role /\ n.by = m.by /\ n.mark = m.mark
                              /\ m.same => n.same /\ people'[n.role][n.by] # "NONE"
  <2>1. PICK n \in mails : m = Followed(n)
    BY <1>1, <1>7
  <2>2. n.kind = "ended"
    BY <1>3, <1>7, <2>1
  <2> QED
    BY <1>2, <2>1, <2>2
<1> QED
  BY <1>5, <1>6, <1>7

-----------------------------------------------------------------------------
(* The kinds of steps.                                                     *)

\* A transaction within its round: somebody decides, the lists change, or the status
\* is moved by hand. A decision that is recorded stays or goes with its row; whoever
\* becomes pending, or enters the stage in which they decide, is asked by an email
\* unless the requisition comes back from a hold or from being disabled.
Within ==
  /\ ~row.deleted /\ row' \in Row /\ row'.round = row.round
  /\ row'.deleted => row'.status = "DRAFT"
  /\ people' \in [Roles -> [Users -> Marks]]
  /\ \A role \in Roles, u \in Users :
       people[role][u] \in Decided => people'[role][u] \in {"NONE", people[role][u]}
  /\ \E called \in SUBSET Mail :
       /\ Post(called)
       /\ \A m \in called : m.kind = "ended" => m.round = row.round /\ people'[m.role][m.by] = m.mark
       /\ \A role \in Roles : row'.status = DecidesIn[role] =>
            \/ row.status \in {"ON_HOLD", "DISABLED"}
            \/ row.status = "UNDER_REVIEW" /\ role = "APPROVER" /\ [kind |-> "reviewed"] \in called
            \/ /\ row.status = row'.status
               /\ \A u \in PendingMembers(people', role) :
                    \/ u \in PendingMembers(people, role)
                    \/ \E m \in called : m.kind = "joined" /\ u \in m.joined[role]

\* updateParticipants replaces the lists within the round.
LEMMA ChangeListsKind ==
  ASSUME MailTypeOK, QuietIsExcused, NEW want \in [Roles -> SUBSET Users], ChangeListsAndMail(want)
  PROVE  Within
<1> DEFINE joined == [role \in Roles |-> want[role] \ Members(people, role)]
           called == ChangeMails(joined)
<1>1. /\ row \in Row /\ ~row.deleted
      /\ people \in [Roles -> [Users -> Marks]]
      /\ people' = Assigned(people, want) /\ row' = Settled(row, people')
      /\ Post(called)
  BY DEF MailTypeOK, ChangeListsAndMail
<1>2. /\ people' \in [Roles -> [Users -> Marks]]
      /\ \A role \in Roles, u \in Users :
           people'[role][u] = IF u \notin want[role] THEN "NONE"
                              ELSE IF people[role][u] = "NONE" THEN "PENDING" ELSE people[role][u]
  BY <1>1, AssignedMarks
<1>3. /\ row' \in Row /\ row'.round = row.round /\ row'.deleted = row.deleted
      /\ \/ row'.status = row.status
         \/ row.status = "UNDER_REVIEW" /\ row'.status = "REVIEWED"
         \/ row.status = "REVIEWED" /\ row'.status = "APPROVED"
  BY <1>1, SettledRow
<1>4. ASSUME NEW role \in Roles, NEW u \in Users, people[role][u] \in Decided
      PROVE  people'[role][u] \in {"NONE", people[role][u]}
  BY <1>2, <1>4 DEF Decided
<1>5. joined \in [Roles -> SUBSET Users]
  OBVIOUS
<1> HIDE DEF joined
<1>6. called \in SUBSET Mail
  BY <1>5 DEF ChangeMails, Mail
<1>7. \A m \in called : m.kind # "ended"
  BY DEF ChangeMails
<1>8. ASSUME NEW role \in Roles, row'.status = DecidesIn[role]
      PROVE  \/ row.status = "UNDER_REVIEW" /\ role = "APPROVER" /\ [kind |-> "reviewed"] \in called
             \/ /\ row.status = row'.status
                /\ \A u \in PendingMembers(people', role) :
                     \/ u \in PendingMembers(people, role)
                     \/ \E m \in called : m.kind = "joined" /\ u \in m.joined[role]
  <2>1. CASE row'.status # row.status
    BY <1>3, <1>8, <2>1, OneDecides DEF ChangeMails
  <2>2. CASE row'.status = row.status
    <3> SUFFICES ASSUME NEW u \in PendingMembers(people', role), u \notin PendingMembers(people, role)
                 PROVE  \E m \in called : m.kind = "joined" /\ u \in m.joined[role]
      BY <2>2
    <3>1. u \in Users /\ people'[role][u] = "PENDING" /\ people[role][u] # "PENDING"
      BY DEF PendingMembers
    <3>2. u \in want[role] /\ people[role][u] = "NONE"
      BY <1>2, <3>1
    <3>3. u \in joined[role]
      BY <3>1, <3>2 DEF joined, Members
    <3>4. joined # NotAsked
      BY <3>3 DEF NotAsked
    <3>5. [kind |-> "joined", joined |-> joined] \in called
      BY <2>2, <3>4 DEF ChangeMails
    <3> QED
      BY <3>3, <3>5
  <2> QED
    BY <2>1, <2>2
<1>9. row'.deleted => row'.status = "DRAFT"
  BY <1>1, <1>3
<1> HIDE DEF called
<1> QED
  BY <1>1, <1>2, <1>3, <1>4, <1>6, <1>7, <1>8, <1>9 DEF Within

\* decide records one decision and moves the status to it.
LEMMA DecideKind ==
  ASSUME MailTypeOK, QuietIsExcused, NEW u \in Users, NEW role \in Roles, NEW decision \in Decisions[role],
         DecideAndMail(u, role, decision)
  PROVE  Within
<1> DEFINE mark == IF decision = Positive[role] THEN "POSITIVE" ELSE "NEGATIVE"
           ended == [kind |-> "ended", role |-> role, by |-> u, mark |-> mark, round |-> row.round, same |-> TRUE]
           mail == IF decision = "REVIEWED" THEN [kind |-> "reviewed"] ELSE ended
<1>1. /\ row \in Row /\ ~row.deleted
      /\ people \in [Roles -> [Users -> Marks]]
      /\ row.status = DecidesIn[role] /\ people[role][u] = "PENDING"
      /\ people' = [people EXCEPT ![role][u] = mark]
      /\ row' = [row EXCEPT !.status = decision]
      /\ Post({mail})
  BY DEF MailTypeOK, DecideAndMail, PendingMembers
<1>2. mark \in Decided /\ mark \in Marks
  BY DEF Decided, Marks
<1>3. decision \in Statuses
  BY DEF Decisions, Negative, Positive, Roles, Statuses
<1>4. /\ row' \in Row /\ row'.round = row.round /\ row'.deleted = row.deleted /\ row'.status = decision
  BY <1>1, <1>3 DEF Row
<1> HIDE DEF mark
<1>5. /\ people' \in [Roles -> [Users -> Marks]] /\ people'[role][u] = mark
      /\ \A r \in Roles, v \in Users : r # role \/ v # u => people'[r][v] = people[r][v]
  BY <1>1, <1>2
<1>6. ASSUME NEW r \in Roles, NEW v \in Users, people[r][v] \in Decided
      PROVE  people'[r][v] \in {"NONE", people[r][v]}
  BY <1>1, <1>5, <1>6 DEF Decided
<1>7. row.round \in Nat
  BY <1>1 DEF Row
<1>8. mail \in Mail /\ (mail.kind = "ended" => mail.round = row.round /\ people'[mail.role][mail.by] = mail.mark)
  BY <1>2, <1>5, <1>7 DEF Mail
<1>9. ASSUME NEW r \in Roles, row'.status = DecidesIn[r]
      PROVE  row.status = "UNDER_REVIEW" /\ r = "APPROVER" /\ mail = [kind |-> "reviewed"]
  BY <1>1, <1>4, <1>9, OneDecides DEF Decisions, Negative, Positive, Roles
<1>10. row'.deleted => row'.status = "DRAFT"
  BY <1>1, <1>4
<1> HIDE DEF mail
<1>11. {mail} \in SUBSET Mail
  BY <1>8
<1> QED
  BY <1>1, <1>4, <1>5, <1>6, <1>8, <1>9, <1>10, <1>11 DEF Within

\* changeStatus brings a requisition back to a stage only from a hold or from being
\* disabled.
LEMMA MoveKind ==
  ASSUME MailTypeOK, QuietIsExcused, MoveQuietly
  PROVE  Within
<1>1. /\ row \in Row /\ ~row.deleted
      /\ people' = people /\ people \in [Roles -> [Users -> Marks]]
      /\ Post({})
  BY DEF MailTypeOK, MoveQuietly
<1>2. /\ row' \in Row /\ row'.round = row.round
      /\ row'.deleted => row'.status = "DRAFT"
      /\ \/ row'.status = row.status
         \/ row'.status \in StatusTransitions[row.status]
  <2>1. CASE \E to \in Statuses : MoveAllowed(row, to) /\ row' = MovedByHand(row, to)
    <3>1. PICK to \in Statuses : MoveAllowed(row, to) /\ row' = MovedByHand(row, to)
      BY <2>1
    <3>2. row' = [row EXCEPT !.status = to, !.held = IF to = "ON_HOLD" THEN row.status ELSE "NONE"]
      BY <3>1 DEF MovedByHand
    <3>3. to \in StatusTransitions[row.status]
      BY <3>1 DEF MoveAllowed
    <3> QED
      BY <1>1, <3>2, <3>3 DEF Row
  <2>2. CASE row.status = "APPROVED" /\ row' = [row EXCEPT !.locked = TRUE]
    BY <1>1, <2>2 DEF Row
  <2>3. CASE row.status = "DRAFT" /\ row' = [row EXCEPT !.deleted = TRUE]
    BY <1>1, <2>3 DEF Row
  <2> QED
    BY <2>1, <2>2, <2>3 DEF MoveQuietly
<1>3. row.status \in Statuses
  BY <1>1 DEF Row
<1>4. ASSUME NEW role \in Roles, row'.status = DecidesIn[role]
      PROVE  row.status \in {"ON_HOLD", "DISABLED"} \/ row.status = row'.status
  BY <1>2, <1>3, <1>4, OneDecides DEF StatusTransitions, Statuses
<1> QED
  BY <1>1, <1>2, <1>4 DEF Within

-----------------------------------------------------------------------------
(* The invariant over each kind of step.                                   *)

LEMMA PostType ==
  ASSUME MailTypeOK, NEW called, Post(called)
  PROVE  /\ asked' \in [Roles -> SUBSET Users]
         /\ excused' \in BOOLEAN
BY DEF MailTypeOK, Post, NotAsked

LEMMA WithinInvariant ==
  ASSUME MailIInv, Within
  PROVE  MailIInv'
<1>1. /\ MailTypeOK /\ Covered /\ OutcomesHold /\ QuietIsExcused
      /\ row \in Row /\ people \in [Roles -> [Users -> Marks]]
      /\ mails \subseteq Mail /\ asked \in [Roles -> SUBSET Users] /\ excused \in BOOLEAN
  BY DEF MailIInv, MailTypeOK
<1>2. /\ row' \in Row /\ row'.round = row.round
      /\ row'.deleted => row'.status = "DRAFT"
      /\ people' \in [Roles -> [Users -> Marks]]
      /\ \A role \in Roles, u \in Users :
           people[role][u] \in Decided => people'[role][u] \in {"NONE", people[role][u]}
  BY DEF Within
<1>3. PICK called \in SUBSET Mail :
       /\ Post(called)
       /\ \A m \in called : m.kind = "ended" => m.round = row.round /\ people'[m.role][m.by] = m.mark
       /\ \A role \in Roles : row'.status = DecidesIn[role] =>
            \/ row.status \in {"ON_HOLD", "DISABLED"}
            \/ row.status = "UNDER_REVIEW" /\ role = "APPROVER" /\ [kind |-> "reviewed"] \in called
            \/ /\ row.status = row'.status
               /\ \A u \in PendingMembers(people', role) :
                    \/ u \in PendingMembers(people, role)
                    \/ \E m \in called : m.kind = "joined" /\ u \in m.joined[role]
  BY DEF Within
<1>4. /\ mails' \subseteq Mail
      /\ called \subseteq mails'
      /\ \A m \in mails : m.kind # "ended" => m \in mails'
      /\ \A m \in mails' : m.kind = "ended" =>
           \/ m \in called
           \/ \E n \in mails :
                /\ n.kind = "ended" /\ n.round = m.round
                /\ n.role = m.role /\ n.by = m.by /\ n.mark = m.mark
                /\ m.same => n.same /\ people'[n.role][n.by] # "NONE"
  BY <1>1, <1>2, <1>3, PostedMails
<1>5. asked' \in [Roles -> SUBSET Users] /\ excused' \in BOOLEAN
  BY <1>1, <1>3, PostType
<1>6. MailTypeOK'
  BY <1>2, <1>4, <1>5 DEF MailTypeOK
<1>7. /\ excused => excused'
      /\ row'.status # row.status /\ row'.status \in {"ON_HOLD", "DISABLED"} => excused'
      /\ ~excused' => \A role \in Roles : asked'[role] = asked[role] \cap Members(people', role)
  BY <1>2, <1>3 DEF Post
<1>8. QuietIsExcused'
  BY <1>1, <1>2, <1>7 DEF QuietIsExcused
<1>9. OutcomesHold'
  <2> SUFFICES ASSUME NEW m \in mails', m.kind = "ended"
               PROVE  /\ m.round <= row'.round
                      /\ m.round = row'.round /\ m.same => people'[m.role][m.by] = m.mark
    BY DEF OutcomesHold
  <2>0. row.round \in Nat
    BY <1>1 DEF Row
  <2>1. CASE m \in called
    BY <1>2, <1>3, <2>0, <2>1
  <2>2. CASE m \notin called
    <3>1. PICK n \in mails :
            /\ n.kind = "ended" /\ n.round = m.round
            /\ n.role = m.role /\ n.by = m.by /\ n.mark = m.mark
            /\ m.same => n.same /\ people'[n.role][n.by] # "NONE"
      BY <1>4, <2>2
    <3>2. n \in Mail
      BY <1>1
    <3>3. n.role \in Roles /\ n.by \in Users /\ n.mark \in Decided
      BY <3>1, <3>2, MailKinds
    <3>4. /\ n.round <= row.round
          /\ n.round = row.round /\ n.same => people[n.role][n.by] = n.mark
      BY <1>1, <3>1 DEF OutcomesHold
    <3> QED
      BY <1>2, <3>1, <3>3, <3>4
  <2> QED
    BY <2>1, <2>2
<1>10. Covered'
  <2> SUFFICES ASSUME ~excused', NEW role \in Roles, row'.status = DecidesIn[role],
                      NEW u \in PendingMembers(people', role), u \notin asked'[role]
               PROVE  WillAsk(role, u)'
    BY DEF Covered
  <2>1. ~excused /\ row.status \notin {"ON_HOLD", "DISABLED"}
    BY <1>1, <1>7 DEF QuietIsExcused
  <2>2. CASE row.status = "UNDER_REVIEW" /\ role = "APPROVER" /\ [kind |-> "reviewed"] \in called
    BY <1>4, <2>2 DEF WillAsk
  <2>3. CASE /\ row.status = row'.status
             /\ \/ u \in PendingMembers(people, role)
                \/ \E m \in called : m.kind = "joined" /\ u \in m.joined[role]
    <3>1. CASE \E m \in called : m.kind = "joined" /\ u \in m.joined[role]
      BY <1>4, <3>1 DEF WillAsk
    <3>2. CASE u \in PendingMembers(people, role)
      <4>1. u \in Members(people', role)
        BY DEF PendingMembers, Members
      <4>2. u \notin asked[role]
        BY <1>7, <4>1
      <4>3. WillAsk(role, u)
        BY <1>1, <2>1, <2>3, <3>2, <4>2 DEF Covered
      <4> QED
        BY <1>4, <4>3 DEF WillAsk
    <3> QED
      BY <2>3, <3>1, <3>2
  <2> QED
    BY <1>3, <2>1, <2>2, <2>3
<1> QED
  BY <1>6, <1>8, <1>9, <1>10 DEF MailIInv

\* submit starts a round, whose reviewers the submission email will ask.
LEMMA SubmitInvariant ==
  ASSUME MailIInv, SubmitAndMail
  PROVE  MailIInv'
<1>1. /\ MailTypeOK /\ OutcomesHold
      /\ row \in Row /\ mails \subseteq Mail
  BY DEF MailIInv, MailTypeOK
<1> DEFINE mail == [kind |-> "submitted"]
<1>2. /\ ~row.deleted /\ row' = StartRound(row)
      /\ people' = Cleared(people) /\ Post({mail})
  BY DEF SubmitAndMail
<1>3. /\ row' \in Row /\ row'.round = row.round + 1 /\ row'.status = "UNDER_REVIEW" /\ ~row'.deleted
      /\ row.round \in Nat /\ row'.round # row.round
  <2>0. row.round \in Nat /\ row.round + 1 \in Nat
    BY <1>1 DEF Row
  <2>1. row' = [row EXCEPT !.status = "UNDER_REVIEW", !.round = row.round + 1]
    BY <1>2 DEF StartRound
  <2>2. row'.round = row.round + 1 /\ row'.status = "UNDER_REVIEW" /\ row'.deleted = row.deleted
    BY <1>1, <2>0, <2>1 DEF Row
  <2>3. row' \in Row
    BY <1>1, <2>0, <2>1 DEF Row, Statuses
  <2>4. row'.round # row.round
    BY <2>0, <2>2
  <2> QED
    BY <1>2, <2>0, <2>2, <2>3, <2>4
<1>4. people' \in [Roles -> [Users -> Marks]]
  BY <1>2, ClearedMarks
<1>5. mail \in Mail
  BY DEF Mail
<1>6. /\ mails' \subseteq Mail
      /\ mail \in mails'
      /\ \A m \in mails' : m.kind = "ended" =>
           \/ m \in {mail}
           \/ \E n \in mails : n.kind = "ended" /\ n.round = m.round
  <2>1. {mail} \in SUBSET Mail
    BY <1>5
  <2> HIDE DEF mail
  <2> QED
    BY <1>1, <1>2, <1>4, <2>1, PostedMails
<1>7. MailTypeOK'
  BY <1>1, <1>2, <1>3, <1>4, <1>6, PostType DEF MailTypeOK
<1>8. QuietIsExcused'
  BY <1>3 DEF QuietIsExcused
<1>9. OutcomesHold'
  <2> SUFFICES ASSUME NEW m \in mails', m.kind = "ended"
               PROVE  m.round < row'.round
    BY <1>3, <1>6, MailKinds DEF OutcomesHold
  <2>1. PICK n \in mails : n.kind = "ended" /\ n.round = m.round
    BY <1>6
  <2>2. n.round <= row.round /\ n.round \in Nat
    BY <1>1, <2>1, MailKinds DEF OutcomesHold
  <2> QED
    BY <1>3, <2>1, <2>2
<1>10. Covered'
  BY <1>3, <1>6, OneDecides DEF Covered, WillAsk
<1> QED
  BY <1>7, <1>8, <1>9, <1>10 DEF MailIInv

\* An email that goes out asks whom it was counted on to ask.
LEMMA SendInvariant ==
  ASSUME MailIInv, NEW m \in mails, Send(m)
  PROVE  MailIInv'
<1>1. /\ MailTypeOK /\ Covered /\ OutcomesHold /\ QuietIsExcused
      /\ row \in Row /\ people \in [Roles -> [Users -> Marks]]
      /\ mails \subseteq Mail /\ asked \in [Roles -> SUBSET Users] /\ excused \in BOOLEAN
  BY DEF MailIInv, MailTypeOK
<1>2. m \in Mail /\ m.kind \in {"submitted", "reviewed", "joined", "ended"}
  BY <1>1, MailKinds
<1>3. mails' = mails \ {m} /\ row' = row /\ people' = people /\ excused' = excused
  BY DEF Send
<1>4. ASSUME NEW role \in Roles, NEW users \in SUBSET Users, Ask(role, users)
      PROVE  /\ asked' \in [Roles -> SUBSET Users]
             /\ ~excused => \A r \in Roles : /\ asked[r] \subseteq asked'[r]
                                             /\ r = role => users \cap Members(people, r) \subseteq asked'[r]
  BY <1>1, <1>4 DEF Ask
\* What each kind of email does to who has been asked.
<1>5. /\ asked' \in [Roles -> SUBSET Users]
      /\ ~excused => \A role \in Roles :
           /\ asked[role] \subseteq asked'[role]
           /\ ~row.deleted /\ m.kind = "submitted" /\ role = "REVIEWER" => Members(people, role) \subseteq asked'[role]
           /\ ~row.deleted /\ m.kind = "reviewed" /\ role = "APPROVER" => Members(people, role) \subseteq asked'[role]
           /\ ~row.deleted /\ m.kind = "joined" /\ row.status = DecidesIn[role] =>
                m.joined[role] \cap Members(people, role) \subseteq asked'[role]
  <2>1. CASE row.deleted \/ m.kind = "ended"
    BY <1>1, <2>1 DEF Send
  <2>2. CASE ~row.deleted /\ m.kind = "submitted"
    <3>1. Ask("REVIEWER", Users)
      BY <2>2 DEF Send
    <3>2. "REVIEWER" \in Roles /\ \A role \in Roles : Members(people, role) \subseteq Users
      BY DEF Roles, Members
    <3> QED
      BY <1>4, <2>2, <3>1, <3>2
  <2>3. CASE ~row.deleted /\ m.kind = "reviewed"
    <3>1. Ask("APPROVER", Users)
      BY <2>3 DEF Send
    <3>2. "APPROVER" \in Roles /\ \A role \in Roles : Members(people, role) \subseteq Users
      BY DEF Roles, Members
    <3> QED
      BY <1>4, <2>3, <3>1, <3>2
  <2>4. CASE ~row.deleted /\ m.kind = "joined"
    <3>1. SendJoined(m) /\ m.joined \in [Roles -> SUBSET Users]
      BY <1>2, <2>4, MailKinds DEF Send
    <3>2. CASE \E role \in Roles : row.status = DecidesIn[role]
      <4>1. PICK role \in Roles : row.status = DecidesIn[role] /\ Ask(role, m.joined[role])
        BY <3>1, <3>2 DEF SendJoined
      <4>2. \A r \in Roles : row.status = DecidesIn[r] => r = role
        BY <4>1, OneDecides
      <4>3. m.joined[role] \in SUBSET Users
        BY <3>1
      <4> QED
        BY <1>4, <2>4, <4>1, <4>2, <4>3
    <3>3. CASE ~ \E role \in Roles : row.status = DecidesIn[role]
      BY <1>1, <2>4, <3>1, <3>3 DEF SendJoined
    <3> QED
      BY <3>2, <3>3
  <2> QED
    BY <1>2, <2>1, <2>2, <2>3, <2>4
<1>6. MailTypeOK'
  BY <1>1, <1>3, <1>5 DEF MailTypeOK
<1>7. QuietIsExcused'
  BY <1>1, <1>3 DEF QuietIsExcused
<1>8. OutcomesHold'
  BY <1>1, <1>3 DEF OutcomesHold
<1>9. Covered'
  <2> SUFFICES ASSUME ~excused, NEW role \in Roles, row.status = DecidesIn[role],
                      NEW u \in PendingMembers(people, role), u \notin asked'[role]
               PROVE  WillAsk(role, u)'
    BY <1>3 DEF Covered
  <2>1. ~row.deleted
    BY <1>1, OneDecides DEF QuietIsExcused
  <2>2. u \in Members(people, role) /\ u \notin asked[role]
    BY <1>5 DEF PendingMembers, Members
  <2>3. WillAsk(role, u)
    BY <1>1, <2>2 DEF Covered
  <2>4. PICK n \in mails :
          \/ n.kind = "submitted" /\ role = "REVIEWER"
          \/ n.kind = "reviewed" /\ role = "APPROVER"
          \/ n.kind = "joined" /\ u \in n.joined[role]
    BY <2>3 DEF WillAsk
  <2>5. n # m
    BY <1>5, <2>1, <2>2, <2>4
  <2> QED
    BY <1>3, <2>4, <2>5 DEF WillAsk
<1> QED
  BY <1>6, <1>7, <1>8, <1>9 DEF MailIInv

\* A loss excuses the round.
LEMMA LoseInvariant ==
  ASSUME MailIInv, NEW m \in mails, Lose(m)
  PROVE  MailIInv'
BY DEF MailIInv, MailTypeOK, Covered, OutcomesHold, QuietIsExcused, Lose, NotAsked

LEMMA MailInvariantStep == MailIInv /\ [MailNext]_mailVars => MailIInv'
<1> SUFFICES ASSUME MailIInv, [MailNext]_mailVars
             PROVE  MailIInv'
  OBVIOUS
<1>0. MailTypeOK /\ QuietIsExcused
  BY DEF MailIInv
<1>1. CASE SubmitAndMail
  BY <1>1, SubmitInvariant
<1>2. CASE \E want \in [Roles -> SUBSET Users] : ChangeListsAndMail(want)
  BY <1>0, <1>2, ChangeListsKind, WithinInvariant
<1>3. CASE \E u \in Users, role \in Roles : \E decision \in Decisions[role] : DecideAndMail(u, role, decision)
  BY <1>0, <1>3, DecideKind, WithinInvariant
<1>4. CASE MoveQuietly
  BY <1>0, <1>4, MoveKind, WithinInvariant
<1>5. CASE \E m \in mails : Send(m) \/ Lose(m)
  BY <1>5, SendInvariant, LoseInvariant
<1>6. CASE UNCHANGED mailVars
  BY <1>6 DEF mailVars, MailIInv, MailTypeOK, Covered, WillAsk, OutcomesHold, QuietIsExcused
<1> QED
  BY <1>1, <1>2, <1>3, <1>4, <1>5, <1>6 DEF MailNext

LEMMA MailInitInvariant == MailInit => MailIInv
<1> SUFFICES ASSUME MailInit
             PROVE  MailIInv
  OBVIOUS
<1>1. row \in Row /\ row.status = "DRAFT" /\ ~row.deleted
  BY DEF MailInit, Row, Statuses
<1>2. MailTypeOK
  BY <1>1 DEF MailInit, MailTypeOK, Marks, NotAsked
<1>3. Covered
  BY <1>1, OneDecides DEF Covered
<1>4. OutcomesHold /\ QuietIsExcused
  BY <1>1 DEF MailInit, OutcomesHold, QuietIsExcused
<1> QED
  BY <1>2, <1>3, <1>4 DEF MailIInv

-----------------------------------------------------------------------------
(* The theorems.                                                           *)

\* Every state of the emails and of who was asked has its type.
THEOREM MailTypeCorrect == MailSpec => []MailTypeOK
<1>1. MailIInv => MailTypeOK
  BY DEF MailIInv
<1> QED
  BY <1>1, MailInitInvariant, MailInvariantStep, PTL DEF MailSpec

\* Nobody is waited for unasked once the emails are out, and an outcome email names
\* the decision it is about.
THEOREM MailsAlwaysKeepUp == MailSpec => []MailsKeepUp
<1>1. ASSUME MailIInv
      PROVE  MailsKeepUp
  <2>1. MailTypeOK /\ Covered /\ OutcomesHold
    BY <1>1 DEF MailIInv
  <2>2. mails = {} /\ ~excused => \A role \in Roles :
          row.status = DecidesIn[role] => PendingMembers(people, role) \subseteq asked[role]
    BY <2>1 DEF Covered, WillAsk
  <2>3. ASSUME NEW m \in mails, m.kind = "ended", row.round = m.round
        PROVE  Reported(m) = m.mark
    BY <2>1, <2>3 DEF OutcomesHold, Reported
  <2> QED
    BY <2>2, <2>3 DEF MailsKeepUp
<1> QED
  BY <1>1, MailInitInvariant, MailInvariantStep, PTL DEF MailSpec

=============================================================================
