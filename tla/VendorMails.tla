----------------------------- MODULE VendorMails -----------------------------
(***************************************************************************)
(* Who is written to about the requests against one vendor. A handler of   *)
(* VendorService commits, then sends its email and waits for it; a failed  *)
(* email is logged and changes nothing, and a restart in between loses it. *)
(* The request goes to those who may approve when it is raised, its        *)
(* withdrawal to those who may when it is withdrawn. The emailed link is   *)
(* the only way to a decision: no answer of the service shows the token.   *)
(*                                                                         *)
(* Three lists of roles meet here: APPROVER_ROLES, who are written to,     *)
(* those of the routes that raise and decide, and the requester, who may   *)
(* not decide. "ADMIN" is in both lists, "MANAGER" is written to and may   *)
(* not act, "BUYER" (ProcurementManager) may act and is not written to.    *)
(*                                                                         *)
(* Abstracted: what the requests do to the vendor is in Vendor, what two   *)
(* handlers do to one request at once in VendorRaces; links are not passed *)
(* on; the vendor's status and the kind of a request, which only choose the*)
(* wording.                                                                *)
(*                                                                         *)
(* Bound: Petitions, the requests ever raised.                             *)
(***************************************************************************)
EXTENDS FiniteSets

CONSTANTS
  Colleagues,    \* users of the organization
  Petitions,     \* requests
  Anyone         \* no approver nominated; nobody in particular

ASSUME AnyoneAssumption == Anyone \notin Colleagues

VARIABLES
  posts,         \* posts[u]: what u may do, "OTHER" also while inactive or deleted
  petitions,     \* the vendor_status_change_requests rows
  outbox,        \* emails that handlers still have to send: <<request, which>>
  reached,       \* reached[q][which]: whom an email reached
  lost,          \* history: the emails that were never delivered
  left           \* history: left[q], who was no approver at some time since q was raised

mailroomVars == <<posts, petitions, outbox, reached, lost, left>>

Posts == {"ADMIN", "MANAGER", "BUYER", "OTHER"}
ApproverPosts == {"ADMIN", "MANAGER"}
ActingPosts == {"ADMIN", "BUYER"}
Letters == {"request", "outcome"}

\* `asked` is notifiedApprovers, `stale` whether the link has expired.
Petition ==
  [status: {"NONE", "PENDING", "APPROVED", "REJECTED", "CANCELLED"},
   by: Colleagues \cup {Anyone}, nominee: Colleagues \cup {Anyone}, asked: SUBSET Colleagues,
   stale: BOOLEAN, decidedBy: Colleagues \cup {Anyone}]

NoPetition == [status |-> "NONE", by |-> Anyone, nominee |-> Anyone, asked |-> {},
               stale |-> FALSE, decidedBy |-> Anyone]

MailroomTypeOK ==
  /\ posts \in [Colleagues -> Posts]
  /\ petitions \in [Petitions -> Petition]
  /\ outbox \subseteq Petitions \X Letters /\ lost \subseteq Petitions \X Letters
  /\ reached \in [Petitions -> [Letters -> SUBSET Colleagues]]
  /\ left \in [Petitions -> SUBSET Colleagues]

MailroomInit ==
  /\ posts = [u \in Colleagues |-> "OTHER"]
  /\ petitions = [q \in Petitions |-> NoPetition]
  /\ outbox = {} /\ lost = {}
  /\ reached = [q \in Petitions |-> [l \in Letters |-> {}]]
  /\ left = [q \in Petitions |-> {}]

\* resolveApprovers; an empty answer to a nominee is an exception.
ResolvedApprovers(nominee) ==
  {u \in Colleagues : posts[u] \in ApproverPosts /\ nominee \in {Anyone, u}}

-----------------------------------------------------------------------------

\* updateUser, toggleStatus, deleteUser.
ChangePost(u, post) ==
  /\ post # posts[u]
  /\ posts' = [posts EXCEPT ![u] = post]
  /\ left' = [q \in Petitions |->
                IF petitions[q].status # "NONE" /\ post \notin ApproverPosts
                THEN left[q] \cup {u} ELSE left[q]]
  /\ UNCHANGED <<petitions, outbox, reached, lost>>

Raise(q, u, nominee) ==
  /\ petitions[q].status = "NONE" /\ \A p \in Petitions : petitions[p].status # "PENDING"
  /\ posts[u] \in ActingPosts
  /\ ResolvedApprovers(nominee) # {}
  /\ petitions' = [petitions EXCEPT ![q] =
                     [NoPetition EXCEPT !.status = "PENDING", !.by = u, !.nominee = nominee,
                                        !.asked = ResolvedApprovers(nominee)]]
  /\ outbox' = outbox \cup {<<q, "request">>}
  /\ left' = [left EXCEPT ![q] = {v \in Colleagues : posts[v] \notin ApproverPosts}]
  /\ UNCHANGED <<posts, reached, lost>>

LinkExpires(q) ==
  /\ petitions[q].status = "PENDING" /\ ~petitions[q].stale
  /\ petitions' = [petitions EXCEPT ![q].stale = TRUE]
  /\ UNCHANGED <<posts, outbox, reached, lost, left>>

\* Mutant: the token is not compared.
HasLink_Any(q, u) == q \in Petitions /\ u \in Colleagues

\* tokensMatch, for who opens the link that reached them.
HasLink(q, u) == u \in reached[q]["request"]

\* approveStatusChange and rejectStatusChange.
DecidePetition(q, u, outcome) ==
  /\ petitions[q].status = "PENDING" /\ ~petitions[q].stale
  /\ posts[u] \in ActingPosts
  /\ HasLink(q, u)
  /\ u # petitions[q].by
  /\ petitions' = [petitions EXCEPT ![q].status = outcome, ![q].decidedBy = u]
  /\ outbox' = outbox \cup {<<q, "outcome">>}
  /\ UNCHANGED <<posts, reached, lost, left>>

\* cancelStatusChange as far as it commits.
WithdrawPetition(q) ==
  /\ petitions[q].status = "PENDING"
  /\ posts[petitions[q].by] \in ActingPosts
  /\ petitions' = [petitions EXCEPT ![q].status = "CANCELLED", ![q].decidedBy = petitions[q].by]
  /\ outbox' = outbox \cup {<<q, "outcome">>}
  /\ UNCHANGED <<posts, reached, lost, left>>

\* Mutant: the withdrawal is written to those who could have decided.
WithdrawalReaders_Deciders(q) ==
  {u \in ResolvedApprovers(petitions[q].nominee) : posts[u] \in ActingPosts}

\* The approvers found again, not notifiedApprovers; none if the nominee is no longer one.
WithdrawalReaders(q) == ResolvedApprovers(petitions[q].nominee)

Readers(q, letter) ==
  IF letter = "request" THEN petitions[q].asked
  ELSE IF petitions[q].status = "CANCELLED" THEN WithdrawalReaders(q)
  ELSE {petitions[q].by, petitions[q].decidedBy}

\* sendApprovalEmail, sendWithdrawalEmail, sendApprovedEmail and sendRejectedEmail.
Send(q, letter) ==
  /\ <<q, letter>> \in outbox
  /\ outbox' = outbox \ {<<q, letter>>}
  /\ reached' = [reached EXCEPT ![q][letter] = Readers(q, letter)]
  /\ UNCHANGED <<posts, petitions, lost, left>>

\* The server refuses it, or the process ends first: nothing is tried again.
Lose(q, letter) ==
  /\ <<q, letter>> \in outbox
  /\ outbox' = outbox \ {<<q, letter>>}
  /\ lost' = lost \cup {<<q, letter>>}
  /\ UNCHANGED <<posts, petitions, reached, left>>

MailroomNext ==
  \/ \E u \in Colleagues, post \in Posts : ChangePost(u, post)
  \/ \E q \in Petitions, u \in Colleagues, nominee \in Colleagues \cup {Anyone} : Raise(q, u, nominee)
  \/ \E q \in Petitions : LinkExpires(q)
  \/ \E q \in Petitions, u \in Colleagues, outcome \in {"APPROVED", "REJECTED"} :
       DecidePetition(q, u, outcome)
  \/ \E q \in Petitions : WithdrawPetition(q)
  \/ \E q \in Petitions, letter \in Letters : Send(q, letter)
  \/ \E q \in Petitions, letter \in Letters : Lose(q, letter)

MailroomSpec == MailroomInit /\ [][MailroomNext]_mailroomVars

-----------------------------------------------------------------------------
(* Properties.                                                             *)

\* Nobody decides but an approver the request reached, and not its requester: where the
\* email is lost, or reaches managers alone, a request can only be withdrawn
\* (sendApprovalEmail's comment has it that it can be acted on without the email).
DecidedByAsked ==
  \A q \in Petitions : petitions[q].status \in {"APPROVED", "REJECTED"} =>
    /\ petitions[q].decidedBy \in reached[q]["request"] \cap petitions[q].asked
    /\ petitions[q].decidedBy # petitions[q].by

\* Whoever a withdrawn request reached, and has been an approver ever since, hears of the
\* withdrawal, unless it is still to be sent or was lost (resolveApprovers again in
\* cancelStatusChange).
AskedHearOfWithdrawal ==
  \A q \in Petitions : petitions[q].status = "CANCELLED" /\ <<q, "outcome">> \notin outbox \cup lost =>
    reached[q]["request"] \subseteq reached[q]["outcome"] \cup left[q]

=============================================================================
