--------------------------- MODULE Notifications ---------------------------
(***************************************************************************)
(* What a user is told in the application of the workflow steps and emails *)
(* that concern them, and what they do with it: WorkflowTrackingService,   *)
(* EmailService and NotificationService. A step is announced when it is    *)
(* recorded, an email after it was sent; either fan-out may fail without   *)
(* the step noticing and is repeated by backfill, any number of times. A   *)
(* user marks a row by a call that reads it and saves all of it later.     *)
(*                                                                         *)
(* Abstracted: titles, messages, links and categories; a step has at most  *)
(* one email, to those its metadata names as emailedTo. Who is concerned   *)
(* by a step is resolved anew each time and is a choice, as is which of    *)
(* the addressees are users of the organization and not deleted.           *)
(***************************************************************************)
EXTENDS Integers

CONSTANTS
  People, Steps,
  Nobody    \* no user is known to have acted, or sent the email

ASSUME NotificationsAssumption == Nobody \notin People /\ Steps # {}

VARIABLES
  events,    \* the workflow event of each step
  emails,    \* the email_history row of each step's email
  notices,   \* notices[u][s]: the notifications of u about s, one per source
  inFlight   \* a notification some call has read and not saved

noticeVars == <<events, emails, notices, inFlight>>

\* NotificationSourceType: the step, its email, and the item that goes with the email.
Sources == {"WORKFLOW_EVENT", "EMAIL_HISTORY", "EMAIL_WORKFLOW"}

EventRow == [recorded: BOOLEAN, silent: BOOLEAN, actorId: People \cup {Nobody}, emailedTo: SUBSET People]

\* "unrecorded": recordPending failed, and the email goes out all the same.
EmailRow == [status: {"none", "unrecorded", "PENDING", "SENT", "FAILED"}, fromUserId: People \cup {Nobody}]

Notice == [exists: BOOLEAN, isRead: BOOLEAN, isArchived: BOOLEAN, isDeleted: BOOLEAN]

NoNotice == [exists |-> FALSE, isRead |-> FALSE, isArchived |-> FALSE, isDeleted |-> FALSE]

NewNotice == [NoNotice EXCEPT !.exists = TRUE]

NoticesTypeOK ==
  /\ events \in [Steps -> EventRow]
  /\ emails \in [Steps -> EmailRow]
  /\ notices \in [People -> [Steps -> [Sources -> Notice]]]
  /\ inFlight \in [userId: People \cup {Nobody}, step: Steps, source: Sources, row: Notice]

Grounded ==
  [userId |-> Nobody, step |-> CHOOSE s \in Steps : TRUE, source |-> "EMAIL_HISTORY", row |-> NoNotice]

NoticesInit ==
  /\ events = [s \in Steps |-> [recorded |-> FALSE, silent |-> FALSE, actorId |-> Nobody, emailedTo |-> {}]]
  /\ emails = [s \in Steps |-> [status |-> "none", fromUserId |-> Nobody]]
  /\ notices = [u \in People |-> [s \in Steps |-> [src \in Sources |-> NoNotice]]]
  /\ inFlight = Grounded

-----------------------------------------------------------------------------
\* Mutant: a row that is there is written over.
Told_Upsert(users, s, src) ==
  [u \in People |-> IF u \in users THEN [notices[u] EXCEPT ![s][src] = NewNotice] ELSE notices[u]]

\* notify: INSERT IGNORE under the unique key (userId, sourceType, sourceId), which
\* counts rows their user has removed.
Told(users, s, src) ==
  [u \in People |->
     IF u \in users /\ ~notices[u][s][src].exists
     THEN [notices[u] EXCEPT ![s][src] = NewNotice] ELSE notices[u]]

\* record: the step is written, in the caller's transaction or on its own; the
\* announcement that follows is AnnounceStep.
RecordStep(s, silent, actor, emailedTo) ==
  /\ ~events[s].recorded
  /\ events' = [events EXCEPT ![s] = [recorded |-> TRUE, silent |-> silent, actorId |-> actor, emailedTo |-> emailedTo]]
  /\ UNCHANGED <<emails, notices, inFlight>>

\* Mutant: those who were sent the email are told as well.
Concerned_All(s, audience) == audience \ {events[s].actorId}

\* Of the audience, who hears of the step.
Concerned(s, audience) == (audience \ events[s].emailedTo) \ {events[s].actorId}

\* fromWorkflowEvent, by record or by backfill.
AnnounceStep(s, audience) ==
  /\ events[s].recorded /\ ~events[s].silent
  /\ notices' = Told(Concerned(s, audience), s, "WORKFLOW_EVENT")
  /\ UNCHANGED <<events, emails, inFlight>>

\* sendEmail up to the transport: recordPending, which may fail.
SendEmail(s, sender) ==
  /\ events[s].emailedTo # {} /\ emails[s].status = "none"
  /\ emails' \in {[emails EXCEPT ![s] = [status |-> status, fromUserId |-> sender]]
                    : status \in {"PENDING", "unrecorded"}}
  /\ UNCHANGED <<events, notices, inFlight>>

\* recordOutcome, which may fail too: the row stays PENDING then.
RecordOutcome(s, status) ==
  /\ emails[s].status = "PENDING"
  /\ emails' = [emails EXCEPT ![s].status = status]
  /\ UNCHANGED <<events, notices, inFlight>>

\* fromEmail and fromEmailAsItem, by notifyRecipients or by backfill, sent or not.
AnnounceEmail(s, users, src) ==
  /\ emails[s].status \notin {"none", "unrecorded"}
  /\ notices' = Told(users \ {emails[s].fromUserId}, s, src)
  /\ UNCHANGED <<events, emails, inFlight>>

-----------------------------------------------------------------------------
(* What users do with their notifications.                                 *)

\* own.
Open(u, s, src) ==
  /\ inFlight = Grounded
  /\ notices[u][s][src].exists /\ ~notices[u][s][src].isDeleted
  /\ inFlight' = [userId |-> u, step |-> s, source |-> src, row |-> notices[u][s][src]]
  /\ UNCHANGED <<events, emails, notices>>

\* The save of setRead, setArchived or remove: of every column, as it was read.
Save(row) ==
  /\ inFlight # Grounded
  /\ notices' = [notices EXCEPT ![inFlight.userId][inFlight.step][inFlight.source] = row]
  /\ inFlight' = Grounded
  /\ UNCHANGED <<events, emails>>

SetRead(read) == Save([inFlight.row EXCEPT !.isRead = read])

SetArchived(archived) == Save([inFlight.row EXCEPT !.isArchived = archived])

RemoveNotice == Save([inFlight.row EXCEPT !.isDeleted = TRUE])

\* remove of another tab, read and saved while the first call has not saved.
RemoveAtOnce(u, s, src) ==
  /\ notices[u][s][src].exists /\ ~notices[u][s][src].isDeleted
  /\ notices' = [notices EXCEPT ![u][s][src].isDeleted = TRUE]
  /\ UNCHANGED <<events, emails, inFlight>>

\* One UPDATE.
MarkAllRead(u) ==
  /\ notices' = [notices EXCEPT ![u] =
                   [s \in Steps |-> [src \in Sources |->
                      IF @[s][src].exists /\ ~@[s][src].isDeleted
                      THEN [@[s][src] EXCEPT !.isRead = TRUE] ELSE @[s][src]]]]
  /\ UNCHANGED <<events, emails, inFlight>>

NoticesNext ==
  \/ \E s \in Steps, actor \in People \cup {Nobody} :
       \/ \E silent \in BOOLEAN, emailedTo \in SUBSET People : RecordStep(s, silent, actor, emailedTo)
       \/ SendEmail(s, actor)
  \/ \E s \in Steps :
       \/ \E audience \in SUBSET People : AnnounceStep(s, audience)
       \/ \E status \in {"SENT", "FAILED"} : RecordOutcome(s, status)
       \/ \E users \in SUBSET events[s].emailedTo, src \in {"EMAIL_HISTORY", "EMAIL_WORKFLOW"} :
            AnnounceEmail(s, users, src)
  \/ \E u \in People :
       \/ \E s \in Steps, src \in Sources : Open(u, s, src) \/ RemoveAtOnce(u, s, src)
       \/ MarkAllRead(u)
  \/ \E flag \in BOOLEAN : SetRead(flag) \/ SetArchived(flag)
  \/ RemoveNotice

NoticesSpec == NoticesInit /\ [][NoticesNext]_noticeVars

-----------------------------------------------------------------------------
(* Properties.                                                             *)

\* However often fan-out and backfill repeat, nobody hears of a step of their own, and
\* nobody has a notification of the step next to the one of the email about it.
HeardOnce ==
  \A u \in People, s \in Steps : notices[u][s]["WORKFLOW_EVENT"].exists =>
    /\ u # events[s].actorId
    /\ ~notices[u][s]["EMAIL_HISTORY"].exists /\ ~notices[u][s]["EMAIL_WORKFLOW"].exists

\* A notification is never lost, and one that its user removed comes back by nothing
\* but a call that had read it before: no fan-out brings it back, or sets it unread.
OnlySavesUndo ==
  [][\A u \in People, s \in Steps, src \in Sources :
       LET before == notices[u][s][src]
           after  == notices'[u][s][src]
       IN  /\ before.exists => after.exists
           /\ (before.isDeleted /\ ~after.isDeleted) \/ (before.isRead /\ ~after.isRead)
                => inFlight.userId = u /\ inFlight.step = s /\ inFlight.source = src /\ inFlight' = Grounded
    ]_noticeVars

=============================================================================
