--------------------------- MODULE ServiceGroups ---------------------------
(***************************************************************************)
(* Service groups, the activities they grant and the users in them:        *)
(* ServiceGroupService and ServiceGroupUserService. Rows are never removed:*)
(* a user who comes back to a group gets the row of before. Every handler  *)
(* runs to its end before the next one begins.                             *)
(*                                                                         *)
(* Abstracted: a group is known by its code, which the unique key          *)
(* (organizationId, code) keeps for it after its deletion; its name is kept*)
(* likewise; the permissions of an activity in a group; whether the users  *)
(* who are added may be, is a choice (a refused call changes nothing). No  *)
(* group is a system group: nothing creates one.                           *)
(***************************************************************************)
EXTENDS Integers

CONSTANTS
  Groups,
  Members,   \* users who may be in groups
  Tasks      \* activities

VARIABLES
  groups,       \* the state of each group
  grants,       \* the activities a group grants
  membership,   \* membership[g][u]: the row of u in g
  offered       \* the activities that are active and not deleted

groupVars == <<groups, grants, membership, offered>>

GroupStates == {"absent", "active", "disabled", "deleted"}

MemberStates == {"none", "active", "disabled", "deleted"}

GroupsTypeOK ==
  /\ groups \in [Groups -> GroupStates]
  /\ grants \in [Groups -> SUBSET Tasks]
  /\ membership \in [Groups -> [Members -> MemberStates]]
  /\ offered \subseteq Tasks

GroupsInit ==
  /\ groups = [g \in Groups |-> "absent"]
  /\ grants = [g \in Groups |-> {}]
  /\ membership = [g \in Groups |-> [u \in Members |-> "none"]]
  /\ offered = Tasks

-----------------------------------------------------------------------------
(* Groups.                                                                 *)

\* findOrThrow.
LiveGroup(g) == groups[g] \in {"active", "disabled"}

\* validateActivityInputs.
MayGrant(tasks) == tasks \subseteq offered

ActivityTurns(t) ==
  /\ offered' = IF t \in offered THEN offered \ {t} ELSE offered \cup {t}
  /\ UNCHANGED <<groups, grants, membership>>

CreateGroup(g, state, tasks) ==
  /\ groups[g] = "absent"
  /\ MayGrant(tasks)
  /\ groups' = [groups EXCEPT ![g] = state]
  /\ grants' = [grants EXCEPT ![g] = tasks]
  /\ UNCHANGED <<membership, offered>>

\* update: with a list of activities, all of the old ones go.
UpdateGroup(g, state, tasks) ==
  /\ LiveGroup(g)
  /\ tasks # grants[g] => MayGrant(tasks)
  /\ groups' = [groups EXCEPT ![g] = state]
  /\ grants' = [grants EXCEPT ![g] = tasks]
  /\ UNCHANGED <<membership, offered>>

\* clone: refused when the source grants an activity that is no longer offered.
CloneGroup(g, source) ==
  /\ LiveGroup(source)
  /\ CreateGroup(g, "active", grants[source])

\* copyPermissions: the list is sent, so it is looked at in any case.
CopyPermissions(g, source) ==
  /\ LiveGroup(g) /\ LiveGroup(source) /\ g # source
  /\ MayGrant(grants[source])
  /\ grants' = [grants EXCEPT ![g] = grants[source]]
  /\ UNCHANGED <<groups, membership, offered>>

DisableGroup(g) ==
  /\ groups[g] = "active"
  /\ groups' = [groups EXCEPT ![g] = "disabled"]
  /\ UNCHANGED <<grants, membership, offered>>

EnableGroup(g) ==
  /\ groups[g] = "disabled"
  /\ groups' = [groups EXCEPT ![g] = "active"]
  /\ UNCHANGED <<grants, membership, offered>>

\* remove: the users in the group are not asked about and stay in it.
RemoveGroup(g) ==
  /\ LiveGroup(g)
  /\ groups' = [groups EXCEPT ![g] = "deleted"]
  /\ UNCHANGED <<grants, membership, offered>>

-----------------------------------------------------------------------------
(* The users of a group.                                                   *)

ActiveMembers(g) == {u \in Members : membership[g][u] = "active"}

\* validateServiceGroup.
TakesMembers(g) == groups[g] = "active"

\* create: inserted, or restored if deleted or disabled, or there already.
AssignUsers(g, users) ==
  /\ TakesMembers(g)
  /\ membership' = [membership EXCEPT ![g] = [u \in Members |-> IF u \in users THEN "active" ELSE @[u]]]
  /\ UNCHANGED <<groups, grants, offered>>

\* The rows of a group after sync: who is not named and not deleted goes.
Synced(rows, users) ==
  [u \in Members |->
     CASE u \in users -> "active"
       [] u \notin users /\ rows[u] \in {"active", "disabled"} -> "deleted"
       [] OTHER -> rows[u]]

SyncUsers(g, users) ==
  /\ TakesMembers(g)
  /\ membership' = [membership EXCEPT ![g] = Synced(@, users)]
  /\ UNCHANGED <<groups, grants, offered>>

DisableMember(g, u) ==
  /\ membership[g][u] = "active"
  /\ membership' = [membership EXCEPT ![g][u] = "disabled"]
  /\ UNCHANGED <<groups, grants, offered>>

\* Mutant: the group is not looked at again.
MayEnable_Any(g, u) == membership[g][u] # "none"

\* What enable and bulkEnable ask of the row and of its group; remove has left a
\* deleted group inactive.
MayEnable(g, u) == membership[g][u] \in {"active", "disabled"} /\ groups[g] = "active"

EnableMember(g, u) ==
  /\ membership[g][u] = "disabled"
  /\ MayEnable(g, u)
  /\ membership' = [membership EXCEPT ![g][u] = "active"]
  /\ UNCHANGED <<groups, grants, offered>>

RemoveMember(g, u) ==
  /\ membership[g][u] \in {"active", "disabled"}
  /\ membership' = [membership EXCEPT ![g][u] = "deleted"]
  /\ UNCHANGED <<groups, grants, offered>>

\* bulkStatusChange, of rows of any groups, each saved on its own: those that may
\* change and whose save did not fail. A row may already be as it is to be.
BulkStatusChange(rows, activate) ==
  /\ \A row \in rows : IF activate THEN MayEnable(row[1], row[2])
                       ELSE membership[row[1]][row[2]] \in {"active", "disabled"}
  /\ membership' = [g \in Groups |-> [u \in Members |->
                      IF <<g, u>> \in rows THEN IF activate THEN "active" ELSE "disabled"
                      ELSE membership[g][u]]]
  /\ UNCHANGED <<groups, grants, offered>>

-----------------------------------------------------------------------------
GroupStep ==
  \E g \in Groups :
    \/ \E tasks \in SUBSET Tasks, state \in {"active", "disabled"} :
         CreateGroup(g, state, tasks) \/ UpdateGroup(g, state, tasks)
    \/ \E source \in Groups : CloneGroup(g, source) \/ CopyPermissions(g, source)
    \/ DisableGroup(g)
    \/ EnableGroup(g)
    \/ RemoveGroup(g)

MemberStep ==
  \/ \E g \in Groups, users \in SUBSET Members : AssignUsers(g, users) \/ SyncUsers(g, users)
  \/ \E g \in Groups, u \in Members : DisableMember(g, u) \/ EnableMember(g, u) \/ RemoveMember(g, u)
  \/ \E rows \in SUBSET (Groups \X Members), activate \in BOOLEAN : BulkStatusChange(rows, activate)

GroupsNext ==
  \/ \E t \in Tasks : ActivityTurns(t)
  \/ GroupStep
  \/ MemberStep

GroupsSpec == GroupsInit /\ [][GroupsNext]_groupVars

-----------------------------------------------------------------------------
(* Properties.                                                             *)

\* A group that is disabled or deleted gains no user and, once deleted, no activity,
\* by whichever of the five ways in: its users can only become fewer.
NobodyJoinsOff ==
  [][\A g \in Groups :
       /\ groups[g] # "active" => ActiveMembers(g)' \subseteq ActiveMembers(g)
       /\ groups[g] = "deleted" => groups'[g] = "deleted" /\ grants'[g] = grants[g]]_groupVars

=============================================================================
