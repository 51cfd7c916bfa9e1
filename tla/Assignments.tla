---------------------------- MODULE Assignments ----------------------------
(***************************************************************************)
(* The users one project is assigned to, which decides who may see it:     *)
(* UserProjectMappingService and UserProjectAccessService. A handler reads *)
(* the rows and decides what to add and what to remove, and writes that in *)
(* a transaction later, when the rows may have changed: Read and Write are *)
(* steps of their own here, a transaction is one step.                     *)
(*                                                                         *)
(* Abstracted: the project keeps its id, name and codes; whether the users *)
(* to be added are eligible is a choice (a refused call changes nothing);  *)
(* which projects an administrator, a manager or the creator sees.         *)
(***************************************************************************)
EXTENDS Integers, FiniteSets

CONSTANTS
  Staff,       \* internal users
  Assigners,   \* calls under way at once
  Trackings    \* tracking ids there are to generate

VARIABLES
  projectOpen,   \* one of OPEN_PROJECT_STATUSES
  mapping,       \* the row of each user, which is never deleted
  asks           \* what each call has read and decided

assignmentVars == <<projectOpen, mapping, asks>>

NoTracking == "none"

MappingRow == [state: {"absent", "ACTIVE", "INACTIVE"}, isDeleted: BOOLEAN,
               trackingId: Trackings \cup {NoTracking}]

Idle == [op |-> "idle", added |-> {}, rows |-> {}, fresh |-> TRUE]

\* added are user ids to assign, rows those whose rows are switched or removed;
\* fresh: nobody has written since the call read.
Ask == [op: {"idle", "create", "update", "switchOn", "switchOff", "remove"},
        added: SUBSET Staff, rows: SUBSET Staff, fresh: BOOLEAN]

AssignmentsTypeOK ==
  /\ projectOpen \in BOOLEAN
  /\ mapping \in [Staff -> MappingRow]
  /\ asks \in [Assigners -> Ask]

AssignmentsInit ==
  /\ projectOpen = TRUE
  /\ mapping = [u \in Staff |-> [state |-> "absent", isDeleted |-> FALSE, trackingId |-> NoTracking]]
  /\ asks = [k \in Assigners |-> Idle]

-----------------------------------------------------------------------------
\* The rows findAll, findOne and the handlers go by.
Mapped == {u \in Staff : mapping[u].state # "absent" /\ ~mapping[u].isDeleted}

\* canSee and scope, of somebody who neither manages the project nor created it.
CanSee(u) == u \in Mapped /\ mapping[u].state = "ACTIVE"

OpenOrClose ==
  /\ projectOpen' = ~projectOpen
  /\ UNCHANGED <<mapping, asks>>

Decide(k, op, added, rows) ==
  /\ asks[k] = Idle
  /\ asks' = [asks EXCEPT ![k] = [op |-> op, added |-> added, rows |-> rows, fresh |-> TRUE]]
  /\ UNCHANGED <<projectOpen, mapping>>

\* create reads that the project is open and has no mapping.
ReadCreate(k, wanted) ==
  /\ projectOpen /\ Mapped = {} /\ wanted # {}
  /\ Decide(k, "create", wanted, {})

\* update: who is added, who is removed.
ReadUpdate(k, wanted) ==
  /\ Mapped # {} /\ wanted # {} /\ wanted # Mapped
  /\ wanted \ Mapped # {} => projectOpen
  /\ Decide(k, "update", wanted \ Mapped, Mapped \ wanted)

\* updateStatus: the rows that have the other status.
ReadSwitch(k, op, status) ==
  LET changing == {u \in Mapped : mapping[u].state # status}
  IN  /\ changing # {}
      /\ op = "switchOn" => projectOpen
      /\ Decide(k, op, {}, changing)

ReadRemove(k) ==
  /\ Mapped # {}
  /\ Decide(k, "remove", {}, Mapped)

-----------------------------------------------------------------------------
(* The transactions.                                                       *)

\* The rows a call makes active, makes inactive, or deletes.
TurnedOn(ask) == ask.added \cup IF ask.op = "switchOn" THEN ask.rows ELSE {}
TurnedOff(ask) == IF ask.op = "switchOff" THEN ask.rows ELSE {}
Gone(ask) == IF ask.op \in {"update", "remove"} THEN ask.rows ELSE {}

\* Mutant: updateStatus saves the rows as it read them.
Rewritten_Saved(ask) ==
  [u \in Staff |->
     [mapping[u] EXCEPT
        !.state = IF u \in TurnedOn(ask) THEN "ACTIVE" ELSE IF u \in TurnedOff(ask) THEN "INACTIVE" ELSE @,
        !.isDeleted = u \in Gone(ask) \/ (@ /\ u \notin ask.added \cup ask.rows)]]

\* assign, then the removal of update and remove or the status of updateStatus,
\* each an UPDATE of the columns it is about.
Rewritten(ask) ==
  [u \in Staff |->
     [mapping[u] EXCEPT
        !.state = IF u \in TurnedOn(ask) THEN "ACTIVE" ELSE IF u \in TurnedOff(ask) THEN "INACTIVE" ELSE @,
        !.isDeleted = u \in Gone(ask) \/ (@ /\ u \notin ask.added)]]

Generated == Trackings \ {mapping[u].trackingId : u \in Staff}

\* track: the id of any row that has one, or a new one, stamped on the rows without.
Tracked(rows, id) ==
  [u \in Staff |-> IF rows[u].state # "absent" /\ rows[u].trackingId = NoTracking
                   THEN [rows[u] EXCEPT !.trackingId = id] ELSE rows[u]]

\* Mutant: a new id each time.
SharedIds_New(rows) == Generated

SharedIds(rows) ==
  LET ids == {rows[u].trackingId : u \in Staff} \ {NoTracking}
  IN  IF ids = {} THEN Generated ELSE ids

Write(k) ==
  /\ asks[k] # Idle
  /\ \E id \in SharedIds(Rewritten(asks[k])) : mapping' = Tracked(Rewritten(asks[k]), id)
  /\ asks' = [j \in Assigners |-> IF j = k \/ asks[j] = Idle THEN Idle ELSE [asks[j] EXCEPT !.fresh = FALSE]]
  /\ UNCHANGED projectOpen

\* The call stops before its transaction, or the transaction is rolled back.
GiveUp(k) ==
  /\ asks[k] # Idle
  /\ asks' = [asks EXCEPT ![k] = Idle]
  /\ UNCHANGED <<projectOpen, mapping>>

AssignmentsNext ==
  \/ OpenOrClose
  \/ \E k \in Assigners :
       \/ \E wanted \in SUBSET Staff : ReadCreate(k, wanted) \/ ReadUpdate(k, wanted)
       \/ ReadSwitch(k, "switchOn", "ACTIVE")
       \/ ReadSwitch(k, "switchOff", "INACTIVE")
       \/ ReadRemove(k)
       \/ Write(k)
       \/ GiveUp(k)

AssignmentsSpec == AssignmentsInit /\ [][AssignmentsNext]_assignmentVars

-----------------------------------------------------------------------------
(* Properties.                                                             *)

\* Somebody who was taken off the project comes back only by a call that adds them,
\* whichever calls were decided on an older list: nothing else un-deletes a row. And
\* a call that writes on the list it has read leaves exactly that: those asked for are
\* on the project, and those who were and stay have the status they had.
OffStaysOff ==
  [][/\ \A u \in Staff : mapping[u].isDeleted /\ ~mapping'[u].isDeleted
          => \E k \in Assigners : u \in asks[k].added /\ asks'[k] = Idle
     /\ \A k \in Assigners :
          asks[k].fresh /\ asks[k].op \in {"create", "update"} /\ mapping' # mapping /\ asks'[k] = Idle
          => /\ Mapped' = (Mapped \cup asks[k].added) \ asks[k].rows
             /\ \A u \in Mapped \cap Mapped' : mapping'[u].state = mapping[u].state]_assignmentVars

\* The rows of the project share one tracking id, those of removed users included,
\* so its history is read under one id.
OneTracking ==
  /\ Cardinality({mapping[u].trackingId : u \in Staff} \ {NoTracking}) <= 1
  /\ \A u \in Staff : mapping[u].state # "absent" => mapping[u].trackingId # NoTracking

=============================================================================
