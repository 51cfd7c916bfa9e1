--------------------------- MODULE RequisitionMail ---------------------------
(***************************************************************************)
(* The emails of one requisition. A handler that calls for one starts it   *)
(* after its transaction and does not wait (afterCommit): the email reads  *)
(* the requisition as it is by then, which other handlers may have moved on*)
(* or sent into another round, and one that fails is logged and gone.      *)
(* MaterialRequisitionNotificationService finds the recipients; nothing of *)
(* the requisition depends on them. A handler and its transaction are one  *)
(* step here; what it computes is said in RequisitionRules.                *)
(*                                                                         *)
(* Abstracted: the content, which is always complete; wording, links,      *)
(* copies and who is named as the sender. Of the emails to participants    *)
(* those that ask for a decision are kept, of those to the requester the   *)
(* decision they report, where somebody has just taken one.                *)
(*                                                                         *)
(* Bounds: MaxMailRound rounds; MaxMails emails under way at once.         *)
(***************************************************************************)
EXTENDS RequisitionRules

CONSTANTS MaxMailRound, MaxMails

ASSUME MailAssumption == MaxMailRound \in Nat \ {0} /\ MaxMails \in Nat \ {0}

VARIABLES
  row,       \* the material_requisitions row
  people,    \* people[role][user]: the participant row's decision
  mails,     \* the emails under way
  asked,     \* history: asked[role], those of its members who were asked in this round
  excused    \* history: in this round an email was lost, or the requisition held or disabled

mailVars == <<row, people, mails, asked, excused>>

\* What an email under way will look for: `joined` are the people a change of the
\* lists has added, `by` whose decision is reported, `mark` that decision and `same`
\* whether the row it was recorded in is still there.
Mail ==
  [kind: {"submitted", "reviewed"}]
    \cup [kind: {"joined"}, joined: [Roles -> SUBSET Users]]
    \cup [kind: {"ended"}, role: Roles, by: Users, mark: Decided, round: Nat, same: BOOLEAN]

NotAsked == [role \in Roles |-> {}]

MailTypeOK ==
  /\ row \in Row
  /\ people \in [Roles -> [Users -> Marks]]
  /\ mails \subseteq Mail
  /\ asked \in [Roles -> SUBSET Users]
  /\ excused \in BOOLEAN

\* A draft, with people who can be changed until it is submitted.
MailInit ==
  /\ \E header \in Headers :
       row = [status |-> "DRAFT", held |-> "NONE", round |-> 0, locked |-> FALSE, deleted |-> FALSE, header |-> header]
  /\ people = [role \in Roles |-> [u \in Users |-> "NONE"]]
  /\ mails = {}
  /\ asked = NotAsked
  /\ excused = FALSE

-----------------------------------------------------------------------------
(* Handlers, and the emails they call for.                                 *)

\* What becomes of the emails and of who was asked as a transaction commits.
Post(called) ==
  LET Followed(m) == IF m.kind = "ended" THEN [m EXCEPT !.same = @ /\ people'[m.role][m.by] # "NONE"] ELSE m
      interrupted == row'.status # row.status /\ row'.status \in {"ON_HOLD", "DISABLED"}
  IN  /\ mails' = {Followed(m) : m \in mails} \cup called
      /\ Cardinality(mails') <= MaxMails
      /\ excused' = (row'.round = row.round /\ (excused \/ interrupted))
      /\ asked' = IF row'.round # row.round \/ excused' THEN NotAsked
                  ELSE [role \in Roles |-> asked[role] \cap Members(people', role)]

\* submit, update with submit: startRound and notifySubmitted.
SubmitAndMail ==
  /\ ~row.deleted /\ ~row.locked
  /\ row.status \in SubmittableStatuses
  /\ \A role \in Roles : Members(people, role) # {}
  /\ row.round < MaxMailRound
  /\ row' = StartRound(row)
  /\ people' = Cleared(people)
  /\ Post({[kind |-> "submitted"]})

\* notifyParticipantChange, of what settleRound returned and of who has joined.
ChangeMails(joined) ==
  IF row'.status # row.status
  THEN IF row'.status = "REVIEWED" THEN {[kind |-> "reviewed"]} ELSE {}
  ELSE IF joined = NotAsked THEN {} ELSE {[kind |-> "joined", joined |-> joined]}

\* updateParticipants, and update with lists: replaceParticipants and settleRound.
ChangeListsAndMail(want) ==
  LET changed == Changed(people, want, {})
  IN  /\ ~row.deleted
      /\ changed # {} /\ ReplaceAllowed(row, people, Owner, want, changed)
      /\ people' = Assigned(people, want)
      /\ row' = Settled(row, people')
      /\ Post(ChangeMails([role \in Roles |-> want[role] \ Members(people, role)]))

\* decide: the approvers are asked, or the requester is told.
DecideAndMail(u, role, decision) ==
  LET mark == IF decision = Positive[role] THEN "POSITIVE" ELSE "NEGATIVE"
  IN  /\ ~row.deleted /\ ~row.locked
      /\ row.status = DecidesIn[role]
      /\ u \in PendingMembers(people, role)
      /\ people' = [people EXCEPT ![role][u] = mark]
      /\ row' = [row EXCEPT !.status = decision]
      /\ Post({IF decision = "REVIEWED" THEN [kind |-> "reviewed"]
               ELSE [kind |-> "ended", role |-> role, by |-> u, mark |-> mark, round |-> row.round, same |-> TRUE]})

\* changeStatus, lockForPurchaseOrder and remove, which send nothing.
MoveQuietly ==
  /\ ~row.deleted /\ ~row.locked
  /\ \/ \E to \in Statuses : MoveAllowed(row, to) /\ row' = MovedByHand(row, to)
     \/ row.status = "APPROVED" /\ row' = [row EXCEPT !.locked = TRUE]
     \/ row.status = "DRAFT" /\ row' = [row EXCEPT !.deleted = TRUE]
  /\ UNCHANGED people
  /\ Post({})

-----------------------------------------------------------------------------
(* An email goes out.                                                      *)

Ask(role, users) ==
  asked' = IF excused THEN asked ELSE [asked EXCEPT ![role] = @ \cup (users \cap Members(people, role))]

\* Mutant: an approver who joins after the review is not asked.
SendJoined_ReviewersOnly(m) ==
  IF row.status = "UNDER_REVIEW" THEN Ask("REVIEWER", m.joined["REVIEWER"]) ELSE UNCHANGED asked

\* People who joined are asked if it is their role's turn by now.
SendJoined(m) ==
  IF \E role \in Roles : row.status = DecidesIn[role]
  THEN \E role \in Roles : row.status = DecidesIn[role] /\ Ask(role, m.joined[role])
  ELSE UNCHANGED asked

\* The decision an outcome email reports: of the row as it is now, or, if that row is
\* gone, as it was decided.
Reported(m) == IF m.same THEN people[m.role][m.by] ELSE m.mark

\* afterCommit, which does nothing for a requisition that was deleted. reviewRequested
\* and approvalRequested do not look at the status.
Send(m) ==
  /\ mails' = mails \ {m}
  /\ CASE row.deleted \/ m.kind = "ended" -> UNCHANGED asked
       [] ~row.deleted /\ m.kind = "submitted" -> Ask("REVIEWER", Users)
       [] ~row.deleted /\ m.kind = "reviewed" -> Ask("APPROVER", Users)
       [] ~row.deleted /\ m.kind = "joined" -> SendJoined(m)
  /\ UNCHANGED <<row, people, excused>>

\* The process stops, the requisition cannot be read or the mail server refuses.
Lose(m) ==
  /\ mails' = mails \ {m}
  /\ excused' = TRUE
  /\ asked' = NotAsked
  /\ UNCHANGED <<row, people>>

-----------------------------------------------------------------------------
MailNext ==
  \/ SubmitAndMail
  \/ \E want \in [Roles -> SUBSET Users] : ChangeListsAndMail(want)
  \/ \E u \in Users, role \in Roles : \E decision \in Decisions[role] : DecideAndMail(u, role, decision)
  \/ MoveQuietly
  \/ \E m \in mails : Send(m) \/ Lose(m)

MailSpec == MailInit /\ [][MailNext]_mailVars

-----------------------------------------------------------------------------
(* Properties.                                                             *)

\* Nobody is waited for unasked, though every email reads a requisition that may have
\* moved on: once none is under way, whoever is to review or approve was asked in this
\* round, however the lists changed, unless an email was lost or the requisition was
\* held or disabled meanwhile (the release sends no email). And an outcome email names
\* the decision it is about, until the next round has cleared it.
MailsKeepUp ==
  /\ mails = {} /\ ~excused => \A role \in Roles :
       row.status = DecidesIn[role] => PendingMembers(people, role) \subseteq asked[role]
  /\ \A m \in mails : m.kind = "ended" /\ row.round = m.round => Reported(m) = m.mark

=============================================================================
