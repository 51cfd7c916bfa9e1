---------------------------- MODULE Office_proofs ----------------------------
(***************************************************************************)
(* Proofs about OrganizationFiles, ServiceGroups, Notifications,           *)
(* VendorMails, RequisitionSheet and RequisitionDesk, each under its own   *)
(* specification, for any users, rows, calls and emails under way; and at  *)
(* the end about Office, which puts together what is proved here, in       *)
(* Directory_proofs and in Masters_proofs.                                 *)
(***************************************************************************)
EXTENDS Office, Directory_proofs, Masters_proofs, FiniteSetTheorems, TLAPS

-----------------------------------------------------------------------------
(* OrganizationFiles. A file that two live rows show has been listed by a  *)
(* form that took it for neither new nor the row's own; so a file that goes*)
(* with one row is no other row's.                                         *)

SharedIsRelisted ==
  \A p, q \in LivePapers : papers[p] = papers[q] => p = q \/ papers[p] \in relisted

FilesIInv == FilesTypeOK /\ FilesAreKept /\ SharedIsRelisted

\* What a form lists is either what its row has or new to all rows, or relisted.
LEMMA ListedFile ==
  ASSUME FilesTypeOK, NEW form \in Forms, NEW p \in DOMAIN form, form[p] # papers[p], form[p] \notin Relisted(form)
  PROVE  /\ form[p] \in bucket
         /\ \A o \in LivePapers : papers[o] # form[p]
         /\ \A o \in DOMAIN form \ {p} : form[o] # form[p]
BY DEF Relisted

LEMMA FormType ==
  ASSUME FilesTypeOK, NEW form \in Forms
  PROVE  /\ DOMAIN form \subseteq Papers
         /\ \A p \in DOMAIN form : form[p] \in Urls
         /\ Relisted(form) \subseteq Urls
BY DEF FilesTypeOK, Forms, Relisted

LEMMA SyncStep ==
  ASSUME FilesIInv, NEW form \in Forms, NEW done \in SUBSET DOMAIN form, NEW dropped \in SUBSET Dropped(form),
         papers' = Saved(form, done, dropped), relisted' = relisted \cup Relisted(form),
         uploaded' = uploaded,
         \/ bucket' = bucket
         \/ /\ done = DOMAIN form /\ dropped = Dropped(form)
            /\ \E failed \in SUBSET Orphaned(form) : bucket' = bucket \ (Orphaned(form) \ failed)
  PROVE  FilesIInv'
<1>1. /\ papers \in [Papers -> PaperRow] /\ bucket \subseteq uploaded /\ uploaded \subseteq Urls /\ relisted \subseteq Urls
      /\ FilesTypeOK /\ FilesAreKept /\ SharedIsRelisted
  BY DEF FilesIInv, FilesTypeOK
<1>2. /\ DOMAIN form \subseteq Papers /\ \A p \in DOMAIN form : form[p] \in Urls
      /\ Relisted(form) \subseteq Urls
  BY <1>1, FormType
<1>3. \A p \in Papers : papers'[p] = IF p \in done THEN form[p] ELSE IF p \in dropped THEN "deleted" ELSE papers[p]
  BY DEF Saved
<1>4. FilesTypeOK'
  <2>1. papers' \in [Papers -> PaperRow]
    BY <1>1, <1>2 DEF Saved, PaperRow
  <2>2. bucket' \subseteq bucket
    OBVIOUS
  <2> QED
    BY <1>1, <1>2, <2>1, <2>2 DEF FilesTypeOK
\* A row that is live afterwards shows what it showed before, or what the form lists.
<1>5. ASSUME NEW p \in Papers, papers'[p] \in Urls
      PROVE  \/ p \in done /\ papers'[p] = form[p] /\ form[p] # papers[p]
             \/ p \in LivePapers /\ papers'[p] = papers[p] /\ (p \in DOMAIN form \ done => bucket' = bucket)
  BY <1>1, <1>3, <1>5, UrlsAssumption DEF LivePapers
<1>6. FilesAreKept'
  <2> SUFFICES ASSUME NEW p \in Papers, papers'[p] \in Urls, papers'[p] \notin relisted'
               PROVE  papers'[p] \in bucket'
    BY DEF FilesAreKept, LivePapers
  <2>1. CASE p \in done /\ papers'[p] = form[p] /\ form[p] # papers[p]
    <3>1. form[p] \in bucket /\ \A o \in LivePapers : papers[o] # form[p]
      BY <1>1, <2>1, ListedFile
    <3>2. form[p] \notin Orphaned(form)
      BY <3>1 DEF Orphaned, Dropped
    <3> QED
      BY <2>1, <3>1, <3>2
  <2>2. CASE p \in LivePapers /\ papers'[p] = papers[p]
    <3>1. papers[p] \in bucket
      BY <1>1, <2>2 DEF FilesAreKept
    <3>2. CASE bucket' = bucket
      BY <2>2, <3>1, <3>2
    <3>3. CASE done = DOMAIN form /\ dropped = Dropped(form)
      <4>1. ASSUME NEW q \in Dropped(form) \cup {r \in DOMAIN form \cap LivePapers : form[r] # papers[r]},
                   papers[q] = papers[p]
            PROVE  FALSE
        <5>1. q \in LivePapers
          BY <4>1 DEF Dropped
        <5>2. q = p
          BY <1>1, <2>2, <4>1, <5>1 DEF SharedIsRelisted
        <5>3. p \notin dropped
          BY <1>2, <1>3, <2>2, UrlsAssumption, <3>3 DEF Dropped, LivePapers
        <5> QED
          BY <1>3, <2>2, <3>3, <4>1, <5>2, <5>3
      <4>2. papers[p] \notin Orphaned(form)
        BY <4>1 DEF Orphaned
      <4> QED
        BY <2>2, <3>1, <4>2
    <3> QED
      BY <3>2, <3>3
  <2> QED
    BY <1>5, <2>1, <2>2
<1>7. SharedIsRelisted'
  <2> SUFFICES ASSUME NEW p \in Papers, NEW q \in Papers, papers'[p] \in Urls, papers'[q] = papers'[p],
                      p # q, papers'[p] \notin relisted'
               PROVE  FALSE
    BY DEF SharedIsRelisted, LivePapers
  <2>1. \/ p \in done /\ papers'[p] = form[p] /\ form[p] # papers[p]
        \/ p \in LivePapers /\ papers'[p] = papers[p]
    BY <1>5
  <2>2. \/ q \in done /\ papers'[q] = form[q] /\ form[q] # papers[q]
        \/ q \in LivePapers /\ papers'[q] = papers[q]
    BY <1>5
  <2>3. CASE p \in LivePapers /\ papers'[p] = papers[p] /\ q \in LivePapers /\ papers'[q] = papers[q]
    BY <1>1, <2>3 DEF SharedIsRelisted
  <2>4. CASE p \in done /\ papers'[p] = form[p] /\ form[p] # papers[p]
    <3>1. form[p] \notin Relisted(form)
      BY <2>4
    <3>2. /\ \A o \in LivePapers : papers[o] # form[p]
          /\ \A o \in DOMAIN form \ {p} : form[o] # form[p]
      BY <1>1, <2>4, <3>1, ListedFile
    <3> QED
      BY <2>2, <2>4, <3>2
  <2>5. CASE q \in done /\ papers'[q] = form[q] /\ form[q] # papers[q]
    <3>1. form[q] \notin Relisted(form)
      BY <2>5
    <3>2. /\ \A o \in LivePapers : papers[o] # form[q]
          /\ \A o \in DOMAIN form \ {q} : form[o] # form[q]
      BY <1>1, <2>5, <3>1, ListedFile
    <3> QED
      BY <2>1, <2>5, <3>2
  <2> QED
    BY <2>1, <2>2, <2>3, <2>4, <2>5
<1> QED
  BY <1>4, <1>6, <1>7 DEF FilesIInv

LEMMA FilesInductive == FilesIInv /\ [FilesNext]_fileVars => FilesIInv'
<1> SUFFICES ASSUME FilesIInv, [FilesNext]_fileVars
             PROVE  FilesIInv'
  OBVIOUS
<1>1. ASSUME NEW u \in Urls, UploadFile(u)
      PROVE  FilesIInv'
  BY <1>1 DEF UploadFile, FilesIInv, FilesTypeOK, FilesAreKept, SharedIsRelisted, LivePapers
<1>2. ASSUME NEW form \in Forms, SyncStops(form)
      PROVE  FilesIInv'
  BY <1>2, SyncStep DEF SyncStops
<1>3. ASSUME NEW form \in Forms, SyncDocuments(form)
      PROVE  FilesIInv'
  BY <1>3, SyncStep DEF SyncDocuments
<1>4. CASE UNCHANGED fileVars
  BY <1>4 DEF fileVars, FilesIInv, FilesTypeOK, FilesAreKept, SharedIsRelisted, LivePapers
<1> QED
  BY <1>1, <1>2, <1>3, <1>4 DEF FilesNext

LEMMA FilesStart == FilesInit => FilesIInv
BY UrlsAssumption DEF FilesInit, FilesIInv, FilesTypeOK, PaperRow, FilesAreKept, SharedIsRelisted, LivePapers

\* Rows and stored files keep their types; nothing is stored that was not uploaded.
THEOREM FilesTypeCorrect == FilesSpec => []FilesTypeOK
<1>1. FilesIInv => FilesTypeOK
  BY DEF FilesIInv
<1> QED
  BY <1>1, FilesStart, FilesInductive, PTL DEF FilesSpec

\* No file goes that a listed document needs, whatever is replaced or cut short, but by a
\* form that lists one row's file under another.
THEOREM FilesStayKept == FilesSpec => []FilesAreKept
<1>1. FilesIInv => FilesAreKept
  BY DEF FilesIInv
<1> QED
  BY <1>1, FilesStart, FilesInductive, PTL DEF FilesSpec

-----------------------------------------------------------------------------
(* ServiceGroups. Every way into a group asks whether it is active.        *)

LEMMA GroupStepKeeps ==
  ASSUME GroupsTypeOK, GroupStep \/ \E t \in Tasks : ActivityTurns(t)
  PROVE  /\ GroupsTypeOK' /\ membership' = membership
         /\ \A g \in Groups : groups[g] = "deleted" => groups'[g] = "deleted" /\ grants'[g] = grants[g]
<1>1. /\ groups \in [Groups -> GroupStates] /\ grants \in [Groups -> SUBSET Tasks]
      /\ membership \in [Groups -> [Members -> MemberStates]] /\ offered \subseteq Tasks
  BY DEF GroupsTypeOK
<1>2. ASSUME NEW t \in Tasks, ActivityTurns(t)
      PROVE  UNCHANGED <<groups, grants, membership>> /\ offered' \subseteq Tasks
  BY <1>1, <1>2 DEF ActivityTurns
\* Every step of a group writes a group that is not deleted.
<1>3. ASSUME GroupStep
      PROVE  /\ UNCHANGED <<membership, offered>>
             /\ \E g \in Groups, state \in GroupStates, tasks \in SUBSET Tasks :
                  /\ groups[g] # "deleted"
                  /\ groups' = [groups EXCEPT ![g] = state] /\ grants' = [grants EXCEPT ![g] = tasks]
  <2>1. PICK g \in Groups :
          \/ \E tasks \in SUBSET Tasks, state \in {"active", "disabled"} :
               CreateGroup(g, state, tasks) \/ UpdateGroup(g, state, tasks)
          \/ \E source \in Groups : CloneGroup(g, source) \/ CopyPermissions(g, source)
          \/ DisableGroup(g)
          \/ EnableGroup(g)
          \/ RemoveGroup(g)
    BY <1>3 DEF GroupStep
  <2>2. groups = [groups EXCEPT ![g] = groups[g]] /\ grants = [grants EXCEPT ![g] = grants[g]]
        /\ groups[g] \in GroupStates /\ grants[g] \in SUBSET Tasks
    BY <1>1
  <2>3. ASSUME NEW tasks \in SUBSET Tasks, NEW state \in {"active", "disabled"},
               CreateGroup(g, state, tasks) \/ UpdateGroup(g, state, tasks)
        PROVE  /\ UNCHANGED <<membership, offered>> /\ groups[g] # "deleted" /\ state \in GroupStates
               /\ groups' = [groups EXCEPT ![g] = state] /\ grants' = [grants EXCEPT ![g] = tasks]
    BY <2>3 DEF CreateGroup, UpdateGroup, LiveGroup, GroupStates
  <2>4. ASSUME NEW source \in Groups, CloneGroup(g, source)
        PROVE  /\ UNCHANGED <<membership, offered>> /\ groups[g] # "deleted" /\ grants[source] \in SUBSET Tasks
               /\ groups' = [groups EXCEPT ![g] = "active"] /\ grants' = [grants EXCEPT ![g] = grants[source]]
    BY <1>1, <2>4 DEF CloneGroup, CreateGroup
  <2>5. ASSUME NEW source \in Groups, CopyPermissions(g, source)
        PROVE  /\ UNCHANGED <<membership, offered>> /\ groups[g] # "deleted" /\ grants[source] \in SUBSET Tasks
               /\ groups' = groups /\ grants' = [grants EXCEPT ![g] = grants[source]]
    BY <1>1, <2>5 DEF CopyPermissions, LiveGroup
  <2>6. ASSUME DisableGroup(g) \/ EnableGroup(g) \/ RemoveGroup(g)
        PROVE  /\ UNCHANGED <<membership, offered>> /\ groups[g] # "deleted"
               /\ \E state \in GroupStates, tasks \in SUBSET Tasks :
                    groups' = [groups EXCEPT ![g] = state] /\ grants' = [grants EXCEPT ![g] = tasks]
    <3>1. /\ UNCHANGED <<membership, offered, grants>> /\ groups[g] # "deleted"
          /\ \E state \in GroupStates : groups' = [groups EXCEPT ![g] = state]
      BY <2>6 DEF DisableGroup, EnableGroup, RemoveGroup, LiveGroup, GroupStates
    <3> QED
      BY <2>2, <3>1
  <2>7. "active" \in GroupStates
    BY DEF GroupStates
  <2> DEFINE GroupWritten == /\ UNCHANGED <<membership, offered>> /\ groups[g] # "deleted"
                             /\ \E state \in GroupStates, tasks \in SUBSET Tasks :
                                  groups' = [groups EXCEPT ![g] = state] /\ grants' = [grants EXCEPT ![g] = tasks]
  <2>8. ASSUME NEW tasks \in SUBSET Tasks, NEW state \in {"active", "disabled"},
               CreateGroup(g, state, tasks) \/ UpdateGroup(g, state, tasks)
        PROVE  GroupWritten
    BY <2>3, <2>8
  <2>9. ASSUME NEW source \in Groups, CloneGroup(g, source) \/ CopyPermissions(g, source)
        PROVE  GroupWritten
    BY <2>2, <2>4, <2>5, <2>7, <2>9
  <2>10. ASSUME DisableGroup(g) \/ EnableGroup(g) \/ RemoveGroup(g)
         PROVE  GroupWritten
    BY <2>6, <2>10
  <2>11. GroupWritten
    <3> HIDE DEF GroupWritten
    <3> QED
      BY <2>1, <2>8, <2>9, <2>10
  <2> QED
    BY <2>11
<1> QED
  BY <1>1, <1>2, <1>3 DEF GroupsTypeOK

LEMMA MemberStepKeeps ==
  ASSUME GroupsTypeOK, MemberStep
  PROVE  /\ GroupsTypeOK' /\ UNCHANGED <<groups, grants>>
         /\ \A g \in Groups : groups[g] # "active" => ActiveMembers(g)' \subseteq ActiveMembers(g)
<1>1. /\ groups \in [Groups -> GroupStates] /\ grants \in [Groups -> SUBSET Tasks]
      /\ membership \in [Groups -> [Members -> MemberStates]] /\ offered \subseteq Tasks
  BY DEF GroupsTypeOK
\* Of every row: it stays in its state, or leaves, or its group is active.
<1>2. /\ UNCHANGED <<groups, grants, offered>>
      /\ membership' \in [Groups -> [Members -> MemberStates]]
      /\ \A g \in Groups, u \in Members :
           membership'[g][u] = "active" => membership[g][u] = "active" \/ groups[g] = "active"
  <2>1. ASSUME NEW g \in Groups, NEW people \in SUBSET Members, AssignUsers(g, people) \/ SyncUsers(g, people)
        PROVE  /\ UNCHANGED <<groups, grants, offered>> /\ groups[g] = "active"
               /\ \E rows \in [Members -> MemberStates] : membership' = [membership EXCEPT ![g] = rows]
    <3>1. CASE AssignUsers(g, people)
      <4> DEFINE rows == [u \in Members |-> IF u \in people THEN "active" ELSE membership[g][u]]
      <4>1. rows \in [Members -> MemberStates]
        BY <1>1 DEF MemberStates
      <4> QED
        BY <3>1, <4>1 DEF AssignUsers, TakesMembers
    <3>2. CASE SyncUsers(g, people)
      <4>1. Synced(membership[g], people) \in [Members -> MemberStates]
        <5>1. ASSUME NEW u \in Members
              PROVE  (CASE u \in people -> "active"
                        [] u \notin people /\ membership[g][u] \in {"active", "disabled"} -> "deleted"
                        [] OTHER -> membership[g][u]) \in MemberStates
          <6>1. membership[g][u] \in MemberStates /\ "active" \in MemberStates /\ "deleted" \in MemberStates
            BY <1>1 DEF MemberStates
          <6> QED
            BY <6>1, Zenon
        <5> QED
          BY <5>1 DEF Synced
      <4> QED
        BY <1>1, <3>2, <4>1 DEF SyncUsers, TakesMembers
    <3> QED
      BY <2>1, <3>1, <3>2
  <2>2. ASSUME NEW g \in Groups, NEW u \in Members, DisableMember(g, u) \/ EnableMember(g, u) \/ RemoveMember(g, u)
        PROVE  /\ UNCHANGED <<groups, grants, offered>>
               /\ \E state \in MemberStates :
                    /\ membership' = [membership EXCEPT ![g][u] = state]
                    /\ state = "active" => groups[g] = "active"
    BY <2>2 DEF DisableMember, EnableMember, RemoveMember, MayEnable, MemberStates
  <2>3. ASSUME NEW rows \in SUBSET (Groups \X Members), NEW activate \in BOOLEAN, BulkStatusChange(rows, activate)
        PROVE  /\ UNCHANGED <<groups, grants, offered>>
               /\ membership' \in [Groups -> [Members -> MemberStates]]
               /\ \A g \in Groups, u \in Members :
                    membership'[g][u] = "active" => membership[g][u] = "active" \/ groups[g] = "active"
    <3>1. /\ UNCHANGED <<groups, grants, offered>>
          /\ membership' = [g \in Groups |-> [u \in Members |->
                      IF <<g, u>> \in rows THEN IF activate THEN "active" ELSE "disabled"
                      ELSE membership[g][u]]]
      BY <2>3 DEF BulkStatusChange
    <3>2. ASSUME NEW g \in Groups, NEW u \in Members, <<g, u>> \in rows, activate
          PROVE  groups[g] = "active"
      BY <2>3, <3>2 DEF BulkStatusChange, MayEnable
    <3>3. membership' \in [Groups -> [Members -> MemberStates]]
      BY <1>1, <3>1 DEF MemberStates
    <3>4. ASSUME NEW g \in Groups, NEW u \in Members, membership'[g][u] = "active"
          PROVE  membership[g][u] = "active" \/ groups[g] = "active"
      <4>1. membership'[g][u] = IF <<g, u>> \in rows THEN IF activate THEN "active" ELSE "disabled"
                                ELSE membership[g][u]
        BY <3>1
      <4> QED
        BY <3>2, <3>4, <4>1
    <3> QED
      BY <3>1, <3>3, <3>4
  <2> DEFINE Kept == /\ UNCHANGED <<groups, grants, offered>>
                     /\ membership' \in [Groups -> [Members -> MemberStates]]
                     /\ \A g \in Groups, u \in Members :
                          membership'[g][u] = "active" => membership[g][u] = "active" \/ groups[g] = "active"
  <2>4. ASSUME NEW g \in Groups, NEW people \in SUBSET Members, AssignUsers(g, people) \/ SyncUsers(g, people)
        PROVE  Kept
    <3>1. PICK rows \in [Members -> MemberStates] : membership' = [membership EXCEPT ![g] = rows]
      BY <2>1, <2>4
    <3>2. membership' \in [Groups -> [Members -> MemberStates]] /\ \A h \in Groups \ {g} : membership'[h] = membership[h]
      BY <1>1, <3>1
    <3> QED
      BY <2>1, <2>4, <3>2
  <2>5. ASSUME NEW g \in Groups, NEW u \in Members, DisableMember(g, u) \/ EnableMember(g, u) \/ RemoveMember(g, u)
        PROVE  Kept
    <3>1. PICK state \in MemberStates :
            /\ membership' = [membership EXCEPT ![g][u] = state]
            /\ state = "active" => groups[g] = "active"
      BY <2>2, <2>5
    <3>2. membership' \in [Groups -> [Members -> MemberStates]]
      BY <1>1, <3>1
    <3>3. \A h \in Groups, v \in Members :
            membership'[h][v] = IF h = g /\ v = u THEN state ELSE membership[h][v]
      BY <1>1, <3>1
    <3> QED
      BY <2>2, <2>5, <3>1, <3>2, <3>3
  <2>6. ASSUME NEW rows \in SUBSET (Groups \X Members), NEW activate \in BOOLEAN, BulkStatusChange(rows, activate)
        PROVE  Kept
    BY <2>3, <2>6
  <2> HIDE DEF Kept
  <2>7. Kept
    BY <2>4, <2>5, <2>6 DEF MemberStep
  <2> QED
    BY <2>7 DEF Kept
<1> QED
  BY <1>1, <1>2 DEF GroupsTypeOK, ActiveMembers

LEMMA GroupsStart == GroupsInit => GroupsTypeOK
BY DEF GroupsInit, GroupsTypeOK, GroupStates, MemberStates

LEMMA GroupsStep ==
  ASSUME GroupsTypeOK, GroupsNext
  PROVE  /\ GroupsTypeOK'
         /\ \A g \in Groups :
              /\ groups[g] # "active" => ActiveMembers(g)' \subseteq ActiveMembers(g)
              /\ groups[g] = "deleted" => groups'[g] = "deleted" /\ grants'[g] = grants[g]
<1>1. CASE GroupStep \/ \E t \in Tasks : ActivityTurns(t)
  BY <1>1, GroupStepKeeps DEF ActiveMembers
<1>2. CASE MemberStep
  BY <1>2, MemberStepKeeps
<1> QED
  BY <1>1, <1>2 DEF GroupsNext

LEMMA GroupsInductive == GroupsTypeOK /\ [GroupsNext]_groupVars => GroupsTypeOK'
BY GroupsStep DEF groupVars, GroupsTypeOK

\* Groups, what they grant and who is in them keep their types.
THEOREM GroupsTypeCorrect == GroupsSpec => []GroupsTypeOK
BY GroupsStart, GroupsInductive, PTL DEF GroupsSpec

\* A disabled or deleted group gains no user and a deleted one no activity.
THEOREM NobodyEverJoinsOff == GroupsSpec => NobodyJoinsOff
<1>1. GroupsTypeOK /\ [GroupsNext]_groupVars =>
        [\A g \in Groups :
           /\ groups[g] # "active" => ActiveMembers(g)' \subseteq ActiveMembers(g)
           /\ groups[g] = "deleted" => groups'[g] = "deleted" /\ grants'[g] = grants[g]]_groupVars
  BY GroupsStep
<1> QED
  BY <1>1, GroupsStart, GroupsInductive, PTL DEF GroupsSpec, NobodyJoinsOff

-----------------------------------------------------------------------------
(* Notifications. Who is told of a step and who of its email are apart: the*)
(* former were not sent the email, the latter were (WhoIsTold). A call in  *)
(* flight holds a row that exists.                                         *)

\* A notification is there or is blank.
BlankIfAbsent ==
  \A u \in People, s \in Steps, src \in Sources :
    ~notices[u][s][src].exists => ~notices[u][s][src].isDeleted /\ ~notices[u][s][src].isRead

WhoIsTold ==
  /\ \A s \in Steps : ~events[s].recorded => events[s].emailedTo = {}
  /\ \A u \in People, s \in Steps :
       notices[u][s]["WORKFLOW_EVENT"].exists =>
         events[s].recorded /\ u \notin events[s].emailedTo /\ u # events[s].actorId
  /\ \A u \in People, s \in Steps, src \in {"EMAIL_HISTORY", "EMAIL_WORKFLOW"} :
       notices[u][s][src].exists => u \in events[s].emailedTo

FlightIsReal ==
  inFlight # Grounded =>
    /\ inFlight.userId \in People /\ inFlight.row.exists
    /\ notices[inFlight.userId][inFlight.step][inFlight.source].exists

NoticesIInv == NoticesTypeOK /\ BlankIfAbsent /\ WhoIsTold /\ FlightIsReal

\* What a step does to one notification: nothing, it becomes known, it is marked or
\* removed, or the call in flight saves it.
CellStep(u, s, src) ==
  LET before == notices[u][s][src]
      after  == notices'[u][s][src]
  IN  \/ after = before
      \/ ~before.exists /\ after = NewNotice
      \/ /\ before.exists /\ after.exists
         /\ before.isDeleted => after.isDeleted
         /\ before.isRead => after.isRead
      \/ /\ before.exists /\ after.exists /\ inFlight' = Grounded
         /\ inFlight.userId = u /\ inFlight.step = s /\ inFlight.source = src

Grid == [People -> [Steps -> [Sources -> Notice]]]

OnlyCell(u, s, src, row) ==
  /\ notices' \in Grid
  /\ \A v \in People, t \in Steps, x \in Sources :
       notices'[v][t][x] = IF v = u /\ t = s /\ x = src THEN row ELSE notices[v][t][x]

OnlyToldCells(people, s, src) ==
  /\ notices' \in Grid
  /\ \A v \in People, t \in Steps, x \in Sources :
       notices'[v][t][x] = IF v \in people /\ ~notices[v][s][src].exists /\ t = s /\ x = src
                           THEN NewNotice ELSE notices[v][t][x]

\* One notification is written.
LEMMA OneCell ==
  ASSUME notices \in Grid, NEW u \in People, NEW s \in Steps, NEW src \in Sources, NEW row \in Notice,
         notices' = [notices EXCEPT ![u][s][src] = row]
  PROVE  OnlyCell(u, s, src, row)
<1>1. notices \in [People -> [Steps -> [Sources -> Notice]]]
  BY DEF Grid
<1>2. \A v \in People, t \in Steps, x \in Sources :
        notices'[v][t][x] = IF v = u /\ t = s /\ x = src THEN row ELSE notices[v][t][x]
  BY <1>1
<1>3. notices' \in [People -> [Steps -> [Sources -> Notice]]]
  BY <1>1
<1> QED
  BY <1>2, <1>3 DEF Grid, OnlyCell

\* Told adds the notifications that are not there and leaves the others.
LEMMA ToldCells ==
  ASSUME notices \in Grid, NEW people \in SUBSET People, NEW s \in Steps, NEW src \in Sources,
         notices' = Told(people, s, src)
  PROVE  OnlyToldCells(people, s, src)
<1>1. notices \in [People -> [Steps -> [Sources -> Notice]]] /\ NewNotice \in Notice
  BY DEF Grid, NewNotice, NoNotice, Notice
<1>2. ASSUME NEW v \in People
      PROVE  /\ notices'[v] \in [Steps -> [Sources -> Notice]]
             /\ \A t \in Steps, x \in Sources :
                  notices'[v][t][x] = IF v \in people /\ ~notices[v][s][src].exists /\ t = s /\ x = src
                                      THEN NewNotice ELSE notices[v][t][x]
  <2>1. notices'[v] = IF v \in people /\ ~notices[v][s][src].exists
                      THEN [notices[v] EXCEPT ![s][src] = NewNotice] ELSE notices[v]
    BY DEF Told
  <2> QED
    BY <1>1, <2>1
<1>3. notices' \in [People -> [Steps -> [Sources -> Notice]]]
  BY <1>2 DEF Told
<1> QED
  BY <1>2, <1>3 DEF Grid, OnlyToldCells

LEMMA NoticesStep ==
  ASSUME NoticesIInv, NoticesNext
  PROVE  /\ NoticesIInv'
         /\ \A u \in People, s \in Steps, src \in Sources : CellStep(u, s, src)
<1>0. notices \in Grid
  BY DEF NoticesIInv, NoticesTypeOK, Grid
<1>1. /\ events \in [Steps -> EventRow] /\ emails \in [Steps -> EmailRow] /\ notices \in Grid
      /\ inFlight \in [userId: People \cup {Nobody}, step: Steps, source: Sources, row: Notice]
      /\ BlankIfAbsent /\ WhoIsTold /\ FlightIsReal
  BY DEF NoticesIInv, NoticesTypeOK, Grid
<1>2. Grounded \in [userId: People \cup {Nobody}, step: Steps, source: Sources, row: Notice]
      /\ Grounded.userId = Nobody
  BY NotificationsAssumption DEF Grounded, Sources, NoNotice, Notice
<1>3. ASSUME NEW s \in Steps, NEW actor \in People \cup {Nobody}, NEW silent \in BOOLEAN,
             NEW emailedTo \in SUBSET People, RecordStep(s, silent, actor, emailedTo)
      PROVE  NoticesIInv' /\ \A u \in People, t \in Steps, src \in Sources : CellStep(u, t, src)
  <2> DEFINE row == [recorded |-> TRUE, silent |-> silent, actorId |-> actor, emailedTo |-> emailedTo]
  <2>1. /\ ~events[s].recorded /\ events' = [events EXCEPT ![s] = row] /\ UNCHANGED <<emails, notices, inFlight>>
        /\ row \in EventRow /\ row.recorded
    BY <1>3 DEF RecordStep, EventRow
  <2> HIDE DEF row
  <2>2. events' \in [Steps -> EventRow] /\ events'[s] = row /\ \A t \in Steps \ {s} : events'[t] = events[t]
    BY <1>1, <2>1
  <2>3. \A u \in People, src \in Sources : ~notices[u][s][src].exists
    BY <1>1, <2>1 DEF WhoIsTold, Sources
  <2>4. WhoIsTold'
    BY <1>1, <2>1, <2>2, <2>3 DEF WhoIsTold, Sources
  <2> QED
    BY <1>1, <2>1, <2>2, <2>4 DEF NoticesIInv, NoticesTypeOK, Grid, BlankIfAbsent, FlightIsReal, CellStep
<1>4. ASSUME NEW s \in Steps, UNCHANGED <<events, notices, inFlight>>, emails' \in [Steps -> EmailRow]
      PROVE  NoticesIInv' /\ \A u \in People, t \in Steps, src \in Sources : CellStep(u, t, src)
  BY <1>1, <1>4 DEF NoticesIInv, NoticesTypeOK, Grid, BlankIfAbsent, WhoIsTold, FlightIsReal, CellStep
<1>5. ASSUME NEW s \in Steps, NEW actor \in People \cup {Nobody}, SendEmail(s, actor)
      PROVE  UNCHANGED <<events, notices, inFlight>> /\ emails' \in [Steps -> EmailRow]
  BY <1>1, <1>5 DEF SendEmail, EmailRow
<1>6. ASSUME NEW s \in Steps, NEW status \in {"SENT", "FAILED"}, RecordOutcome(s, status)
      PROVE  UNCHANGED <<events, notices, inFlight>> /\ emails' \in [Steps -> EmailRow]
  BY <1>1, <1>6 DEF RecordOutcome, EmailRow
\* An announcement tells whom it may.
<1>7. ASSUME NEW s \in Steps, NEW src \in Sources, NEW people \in SUBSET People, UNCHANGED <<events, emails, inFlight>>,
             notices' = Told(people, s, src),
             \A u \in people : IF src = "WORKFLOW_EVENT"
                              THEN events[s].recorded /\ u \notin events[s].emailedTo /\ u # events[s].actorId
                              ELSE u \in events[s].emailedTo
      PROVE  NoticesIInv' /\ \A u \in People, t \in Steps, x \in Sources : CellStep(u, t, x)
  <2>0. OnlyToldCells(people, s, src)
    BY <1>0, <1>7, ToldCells, Zenon
  <2>1. /\ notices' \in Grid
        /\ \A v \in People, t \in Steps, x \in Sources :
             notices'[v][t][x] = IF v \in people /\ ~notices[v][s][src].exists /\ t = s /\ x = src
                                 THEN NewNotice ELSE notices[v][t][x]
    BY <2>0 DEF OnlyToldCells
  <2>2. NewNotice.exists
    BY DEF NewNotice, NoNotice
  <2>3. WhoIsTold'
    BY <1>1, <1>7, <2>1 DEF WhoIsTold, Sources
  <2>4. BlankIfAbsent'
    BY <1>1, <2>1, <2>2 DEF BlankIfAbsent
  <2>5. FlightIsReal'
    BY <1>1, <1>7, <2>1, <2>2 DEF FlightIsReal
  <2>6. \A u \in People, t \in Steps, x \in Sources : CellStep(u, t, x)
    BY <2>1 DEF CellStep
  <2> QED
    BY <1>1, <1>7, <2>1, <2>3, <2>4, <2>5, <2>6 DEF NoticesIInv, NoticesTypeOK, Grid
<1>8. ASSUME NEW s \in Steps, NEW audience \in SUBSET People, AnnounceStep(s, audience)
      PROVE  NoticesIInv' /\ \A u \in People, t \in Steps, x \in Sources : CellStep(u, t, x)
  <2>1. /\ Concerned(s, audience) \in SUBSET People /\ notices' = Told(Concerned(s, audience), s, "WORKFLOW_EVENT")
        /\ events[s].recorded /\ UNCHANGED <<events, emails, inFlight>>
        /\ \A u \in Concerned(s, audience) : u \notin events[s].emailedTo /\ u # events[s].actorId
    BY <1>8 DEF AnnounceStep, Concerned
  <2> QED
    BY <1>7, <2>1 DEF Sources
<1>9. ASSUME NEW s \in Steps, NEW people \in SUBSET events[s].emailedTo, NEW src \in {"EMAIL_HISTORY", "EMAIL_WORKFLOW"},
             AnnounceEmail(s, people, src)
      PROVE  NoticesIInv' /\ \A u \in People, t \in Steps, x \in Sources : CellStep(u, t, x)
  <2>1. events[s].emailedTo \subseteq People
    BY <1>1 DEF EventRow
  <2>2. /\ people \ {emails[s].fromUserId} \in SUBSET People
        /\ notices' = Told(people \ {emails[s].fromUserId}, s, src) /\ UNCHANGED <<events, emails, inFlight>>
    BY <1>9, <2>1 DEF AnnounceEmail
  <2> QED
    BY <1>7, <2>2 DEF Sources
<1>10. ASSUME NEW u \in People, NEW s \in Steps, NEW src \in Sources, Open(u, s, src)
       PROVE  NoticesIInv' /\ \A v \in People, t \in Steps, x \in Sources : CellStep(v, t, x)
  <2> DEFINE new == [userId |-> u, step |-> s, source |-> src, row |-> notices[u][s][src]]
  <2>1. /\ inFlight' = new /\ UNCHANGED <<events, emails, notices>> /\ notices[u][s][src].exists
        /\ new \in [userId: People \cup {Nobody}, step: Steps, source: Sources, row: Notice]
        /\ new.userId = u /\ new.step = s /\ new.source = src /\ new.row = notices[u][s][src]
    BY <1>1, <1>10 DEF Open, Grid
  <2> HIDE DEF new
  <2>2. FlightIsReal'
    BY <2>1 DEF FlightIsReal
  <2> QED
    BY <1>1, <2>1, <2>2 DEF NoticesIInv, NoticesTypeOK, Grid, BlankIfAbsent, WhoIsTold, CellStep
<1>11. ASSUME NEW row \in Notice, row.exists, Save(row)
       PROVE  NoticesIInv' /\ \A u \in People, t \in Steps, x \in Sources : CellStep(u, t, x)
  <2>1. /\ inFlight # Grounded /\ inFlight' = Grounded /\ UNCHANGED <<events, emails>>
        /\ inFlight.userId \in People /\ inFlight.step \in Steps /\ inFlight.source \in Sources
        /\ notices[inFlight.userId][inFlight.step][inFlight.source].exists
        /\ notices' = [notices EXCEPT ![inFlight.userId][inFlight.step][inFlight.source] = row]
    BY <1>1, <1>11 DEF Save, FlightIsReal
  <2>0. OnlyCell(inFlight.userId, inFlight.step, inFlight.source, row)
    BY <1>0, <1>11, <2>1, OneCell, Zenon
  <2>2. /\ notices' \in Grid
        /\ \A v \in People, t \in Steps, x \in Sources :
             notices'[v][t][x] = IF v = inFlight.userId /\ t = inFlight.step /\ x = inFlight.source
                                 THEN row ELSE notices[v][t][x]
    BY <2>0 DEF OnlyCell
  <2>3. WhoIsTold'
    BY <1>1, <2>1, <2>2 DEF WhoIsTold, Sources
  <2>4. BlankIfAbsent' /\ FlightIsReal'
    BY <1>1, <1>11, <2>1, <2>2 DEF BlankIfAbsent, FlightIsReal
  <2>5. \A u \in People, t \in Steps, x \in Sources : CellStep(u, t, x)
    BY <1>11, <2>1, <2>2 DEF CellStep
  <2> QED
    BY <1>1, <1>2, <2>1, <2>2, <2>3, <2>4, <2>5 DEF NoticesIInv, NoticesTypeOK, Grid
<1>12. ASSUME NEW flag \in BOOLEAN, SetRead(flag) \/ SetArchived(flag) \/ RemoveNotice
       PROVE  NoticesIInv' /\ \A u \in People, t \in Steps, x \in Sources : CellStep(u, t, x)
  <2>1. inFlight.row \in Notice /\ inFlight.row.exists
    BY <1>1, <1>12 DEF FlightIsReal, SetRead, SetArchived, RemoveNotice, Save
  <2>2. PICK row \in Notice : row.exists /\ Save(row)
    <3>1. CASE SetRead(flag)
      BY <2>1, <3>1 DEF SetRead, Notice
    <3>2. CASE SetArchived(flag)
      BY <2>1, <3>2 DEF SetArchived, Notice
    <3>3. CASE RemoveNotice
      BY <2>1, <3>3 DEF RemoveNotice, Notice
    <3> QED
      BY <1>12, <3>1, <3>2, <3>3
  <2> QED
    BY <1>11, <2>2
\* Marks that leave every notification there as far as it was.
<1>13. ASSUME notices' \in Grid, UNCHANGED <<events, emails, inFlight>>,
              \A u \in People, t \in Steps, x \in Sources :
                \/ notices'[u][t][x] = notices[u][t][x]
                \/ /\ notices[u][t][x].exists /\ notices'[u][t][x].exists
                   /\ notices[u][t][x].isDeleted => notices'[u][t][x].isDeleted
                   /\ notices[u][t][x].isRead => notices'[u][t][x].isRead
       PROVE  NoticesIInv' /\ \A u \in People, t \in Steps, x \in Sources : CellStep(u, t, x)
  <2>1. WhoIsTold' /\ BlankIfAbsent'
    BY <1>1, <1>13 DEF WhoIsTold, BlankIfAbsent, Sources
  <2>2. FlightIsReal'
    BY <1>1, <1>13 DEF FlightIsReal
  <2>3. \A u \in People, t \in Steps, x \in Sources : CellStep(u, t, x)
    BY <1>13 DEF CellStep
  <2> QED
    BY <1>1, <1>13, <2>1, <2>2, <2>3 DEF NoticesIInv, NoticesTypeOK, Grid
<1>14. ASSUME NEW u \in People, NEW s \in Steps, NEW src \in Sources, RemoveAtOnce(u, s, src)
       PROVE  NoticesIInv' /\ \A v \in People, t \in Steps, x \in Sources : CellStep(v, t, x)
  <2> DEFINE row == [notices[u][s][src] EXCEPT !.isDeleted = TRUE]
  <2>1. /\ row \in Notice /\ row.exists = notices[u][s][src].exists /\ row.isDeleted
        /\ row.isRead = notices[u][s][src].isRead
    <3>1. notices[u][s][src] \in Notice
      BY <1>0 DEF Grid
    <3> QED
      BY <3>1 DEF Notice
  <2>2. /\ notices' = [notices EXCEPT ![u][s][src] = row] /\ UNCHANGED <<events, emails, inFlight>>
        /\ notices[u][s][src].exists
    BY <1>14 DEF RemoveAtOnce
  <2> HIDE DEF row
  <2>0. OnlyCell(u, s, src, row)
    BY <1>0, <2>1, <2>2, OneCell, Zenon
  <2>3. /\ notices' \in Grid
        /\ \A v \in People, t \in Steps, x \in Sources :
             notices'[v][t][x] = IF v = u /\ t = s /\ x = src THEN row ELSE notices[v][t][x]
    BY <2>0 DEF OnlyCell
  <2>4. ASSUME NEW v \in People, NEW t \in Steps, NEW x \in Sources
        PROVE  \/ notices'[v][t][x] = notices[v][t][x]
               \/ /\ notices[v][t][x].exists /\ notices'[v][t][x].exists
                  /\ notices[v][t][x].isDeleted => notices'[v][t][x].isDeleted
                  /\ notices[v][t][x].isRead => notices'[v][t][x].isRead
    <3>1. CASE v = u /\ t = s /\ x = src
      <4>1. notices'[v][t][x] = row
        BY <2>3, <3>1
      <4> QED
        BY <2>1, <2>2, <3>1, <4>1
    <3>2. CASE ~(v = u /\ t = s /\ x = src)
      BY <2>3, <3>2
    <3> QED
      BY <3>1, <3>2
  <2> QED
    BY <1>13, <2>2, <2>3, <2>4, Zenon
<1>15. ASSUME NEW u \in People, MarkAllRead(u)
       PROVE  NoticesIInv' /\ \A v \in People, t \in Steps, x \in Sources : CellStep(v, t, x)
  <2> DEFINE rows == [s \in Steps |-> [src \in Sources |->
                        IF notices[u][s][src].exists /\ ~notices[u][s][src].isDeleted
                        THEN [notices[u][s][src] EXCEPT !.isRead = TRUE] ELSE notices[u][s][src]]]
  <2>1. notices' = [notices EXCEPT ![u] = rows] /\ UNCHANGED <<events, emails, inFlight>>
    BY <1>15 DEF MarkAllRead
  <2>2. ASSUME NEW t \in Steps, NEW x \in Sources
        PROVE  /\ rows[t][x] \in Notice
               /\ \/ rows[t][x] = notices[u][t][x]
                  \/ /\ notices[u][t][x].exists /\ rows[t][x].exists
                     /\ notices[u][t][x].isDeleted => rows[t][x].isDeleted
                     /\ notices[u][t][x].isRead => rows[t][x].isRead
    <3>1. notices[u][t][x] \in Notice
      BY <1>1 DEF Grid
    <3>2. rows[t][x] = IF notices[u][t][x].exists /\ ~notices[u][t][x].isDeleted
                       THEN [notices[u][t][x] EXCEPT !.isRead = TRUE] ELSE notices[u][t][x]
      OBVIOUS
    <3> HIDE DEF rows
    <3> QED
      BY <3>1, <3>2 DEF Notice
  <2>3. rows \in [Steps -> [Sources -> Notice]]
    BY <2>2
  <2> HIDE DEF rows
  <2>4. notices' \in Grid /\ notices'[u] = rows /\ \A v \in People \ {u} : notices'[v] = notices[v]
    BY <1>1, <2>1, <2>3 DEF Grid
  <2>5. ASSUME NEW v \in People, NEW t \in Steps, NEW x \in Sources
        PROVE  \/ notices'[v][t][x] = notices[v][t][x]
               \/ /\ notices[v][t][x].exists /\ notices'[v][t][x].exists
                  /\ notices[v][t][x].isDeleted => notices'[v][t][x].isDeleted
                  /\ notices[v][t][x].isRead => notices'[v][t][x].isRead
    BY <2>2, <2>4
  <2> QED
    BY <1>13, <2>1, <2>4, <2>5
<1> QED
  BY <1>3, <1>4, <1>5, <1>6, <1>8, <1>9, <1>10, <1>12, <1>14, <1>15 DEF NoticesNext

LEMMA NoticesStart == NoticesInit => NoticesIInv
<1> SUFFICES ASSUME NoticesInit PROVE NoticesIInv
  OBVIOUS
<1>1. PICK s \in Steps : s = Grounded.step
  BY NotificationsAssumption DEF Grounded
<1>2. /\ NoNotice \in Notice /\ ~NoNotice.exists /\ ~NoNotice.isDeleted /\ ~NoNotice.isRead
      /\ Grounded \in [userId: People \cup {Nobody}, step: Steps, source: Sources, row: Notice]
  BY <1>1 DEF NoNotice, Notice, Grounded, Sources
<1>3. /\ events \in [Steps -> EventRow] /\ \A t \in Steps : events[t].emailedTo = {}
      /\ emails \in [Steps -> EmailRow]
  BY DEF NoticesInit, EventRow, EmailRow
<1>4. /\ notices = [u \in People |-> [t \in Steps |-> [x \in Sources |-> NoNotice]]]
      /\ inFlight = Grounded
  BY DEF NoticesInit
<1>5. \A u \in People, t \in Steps, x \in Sources : notices[u][t][x] = NoNotice
  BY <1>4
<1>6. notices \in [People -> [Steps -> [Sources -> Notice]]]
  BY <1>2, <1>4
<1>7. WhoIsTold /\ BlankIfAbsent
  BY <1>2, <1>3, <1>5 DEF WhoIsTold, BlankIfAbsent, Sources
<1> QED
  BY <1>2, <1>3, <1>4, <1>6, <1>7 DEF NoticesIInv, NoticesTypeOK, FlightIsReal

\* What OnlySavesUndo says of one step and one notification.
LEMMA UndoneBySavesOnly ==
  ASSUME NoticesIInv, NEW u \in People, NEW s \in Steps, NEW src \in Sources, CellStep(u, s, src)
  PROVE  LET before == notices[u][s][src]
             after  == notices'[u][s][src]
         IN  /\ before.exists => after.exists
             /\ (before.isDeleted /\ ~after.isDeleted) \/ (before.isRead /\ ~after.isRead)
                  => inFlight.userId = u /\ inFlight.step = s /\ inFlight.source = src /\ inFlight' = Grounded
<1>1. ~notices[u][s][src].exists => ~notices[u][s][src].isDeleted /\ ~notices[u][s][src].isRead
  BY DEF NoticesIInv, BlankIfAbsent
<1> QED
  BY <1>1 DEF CellStep

LEMMA NoticesInductive == NoticesIInv /\ [NoticesNext]_noticeVars => NoticesIInv'
<1>1. CASE UNCHANGED noticeVars
  BY <1>1 DEF noticeVars, NoticesIInv, NoticesTypeOK, BlankIfAbsent, WhoIsTold, FlightIsReal
<1> QED
  BY <1>1, NoticesStep

\* Steps, emails, notices and the call in flight keep their types.
THEOREM NoticesTypeCorrect == NoticesSpec => []NoticesTypeOK
<1>1. NoticesIInv => NoticesTypeOK
  BY DEF NoticesIInv
<1> QED
  BY <1>1, NoticesStart, NoticesInductive, PTL DEF NoticesSpec

\* A notification is never lost, and what its user did with it is undone by nothing but a
\* call that had read it before (setRead, setArchived and remove save every column): no
\* fan-out and no backfill sets it unread or brings it back.
THEOREM OnlySavesEverUndo == NoticesSpec => OnlySavesUndo
<1>1. NoticesIInv /\ [NoticesNext]_noticeVars =>
        [\A u \in People, s \in Steps, src \in Sources :
           LET before == notices[u][s][src]
               after  == notices'[u][s][src]
           IN  /\ before.exists => after.exists
               /\ (before.isDeleted /\ ~after.isDeleted) \/ (before.isRead /\ ~after.isRead)
                    => inFlight.userId = u /\ inFlight.step = s /\ inFlight.source = src /\ inFlight' = Grounded
        ]_noticeVars
  BY NoticesStep, UndoneBySavesOnly
<1> QED
  BY <1>1, NoticesStart, NoticesInductive, PTL DEF NoticesSpec, OnlySavesUndo

\* Nobody hears of a step of their own, and nobody hears of a step beside the email about
\* it, however often record, notifyRecipients and backfill announce them.
THEOREM EverybodyHearsOnce == NoticesSpec => []HeardOnce
<1>1. NoticesIInv => HeardOnce
  BY DEF NoticesIInv, WhoIsTold, HeardOnce
<1> QED
  BY <1>1, NoticesStart, NoticesInductive, PTL DEF NoticesSpec

-----------------------------------------------------------------------------
(* Vendor emails. Those asked remain the ones raise resolved; one of them  *)
(* who is no approver now has left since (AskedOrLeft).                    *)

ReachedWereAsked == \A q \in Petitions : reached[q]["request"] \subseteq petitions[q].asked

DecidersHadLink ==
  \A q \in Petitions : petitions[q].status \in {"APPROVED", "REJECTED"} =>
    petitions[q].decidedBy \in reached[q]["request"] /\ petitions[q].decidedBy # petitions[q].by

AskedOrLeft ==
  \A q \in Petitions : \A v \in petitions[q].asked :
    /\ petitions[q].status # "NONE" /\ petitions[q].nominee \in {Anyone, v}
    /\ posts[v] \notin ApproverPosts => v \in left[q]

AskedHear ==
  \A q \in Petitions : petitions[q].status = "CANCELLED" /\ <<q, "outcome">> \notin outbox \cup lost =>
    petitions[q].asked \subseteq reached[q]["outcome"] \cup left[q]

\* An outcome is written of what was decided, to somebody.
OutcomeIsReal ==
  \A q \in Petitions :
    /\ petitions[q].status # "NONE" => petitions[q].by \in Colleagues
    /\ <<q, "outcome">> \in outbox => petitions[q].status \in {"APPROVED", "REJECTED", "CANCELLED"}

MailroomIInv == MailroomTypeOK /\ ReachedWereAsked /\ DecidersHadLink /\ AskedOrLeft /\ AskedHear /\ OutcomeIsReal

LEMMA MailroomStart == MailroomInit => MailroomIInv
<1> SUFFICES ASSUME MailroomInit PROVE MailroomIInv
  OBVIOUS
<1>1. NoPetition \in Petition /\ NoPetition.asked = {} /\ NoPetition.status = "NONE"
  BY DEF NoPetition, Petition
<1>2. \A q \in Petitions : petitions[q] = NoPetition
  BY DEF MailroomInit
<1>3. MailroomTypeOK
  BY <1>1 DEF MailroomInit, MailroomTypeOK, Posts, Letters
<1> QED
  BY <1>1, <1>2, <1>3
  DEF MailroomInit, MailroomIInv, ReachedWereAsked, DecidersHadLink, AskedOrLeft, AskedHear, OutcomeIsReal, Letters

LEMMA MailroomStep ==
  ASSUME MailroomIInv, MailroomNext
  PROVE  MailroomIInv'
<1>1. /\ posts \in [Colleagues -> Posts] /\ petitions \in [Petitions -> Petition]
      /\ outbox \subseteq Petitions \X Letters /\ lost \subseteq Petitions \X Letters
      /\ reached \in [Petitions -> [Letters -> SUBSET Colleagues]]
      /\ left \in [Petitions -> SUBSET Colleagues]
  BY DEF MailroomIInv, MailroomTypeOK
<1>2. ReachedWereAsked /\ DecidersHadLink /\ AskedOrLeft /\ AskedHear /\ OutcomeIsReal
  BY DEF MailroomIInv
<1>3. ASSUME NEW u \in Colleagues, NEW post \in Posts, ChangePost(u, post)
      PROVE  MailroomIInv'
  <2>1. /\ posts' = [posts EXCEPT ![u] = post] /\ UNCHANGED <<petitions, outbox, reached, lost>>
        /\ left' = [q \in Petitions |->
                      IF petitions[q].status # "NONE" /\ post \notin ApproverPosts
                      THEN left[q] \cup {u} ELSE left[q]]
    BY <1>3 DEF ChangePost
  <2>2. MailroomTypeOK'
    BY <1>1, <2>1 DEF MailroomTypeOK
  <2>3. AskedOrLeft'
    BY <1>1, <1>2, <2>1 DEF AskedOrLeft
  <2>4. ReachedWereAsked' /\ DecidersHadLink'
    BY <1>2, <2>1 DEF ReachedWereAsked, DecidersHadLink
  <2>5. AskedHear'
    BY <1>1, <1>2, <2>1 DEF AskedHear
  <2>6. OutcomeIsReal'
    BY <1>2, <2>1 DEF OutcomeIsReal
  <2> QED
    BY <2>2, <2>3, <2>4, <2>5, <2>6 DEF MailroomIInv
<1>4. ASSUME NEW q \in Petitions, NEW u \in Colleagues, NEW nominee \in Colleagues \cup {Anyone}, Raise(q, u, nominee)
      PROVE  MailroomIInv'
  <2> DEFINE row == [NoPetition EXCEPT !.status = "PENDING", !.by = u, !.nominee = nominee,
                                       !.asked = ResolvedApprovers(nominee)]
             gone == {v \in Colleagues : posts[v] \notin ApproverPosts}
  <2>1. /\ petitions[q].status = "NONE" /\ petitions' = [petitions EXCEPT ![q] = row]
        /\ outbox' = outbox \cup {<<q, "request">>} /\ left' = [left EXCEPT ![q] = gone]
        /\ UNCHANGED <<posts, reached, lost>>
    BY <1>4 DEF Raise
  <2>2. /\ row.status = "PENDING" /\ row.nominee = nominee /\ row.asked = ResolvedApprovers(nominee)
        /\ row \in Petition /\ gone \in SUBSET Colleagues
    BY DEF NoPetition, Petition, ResolvedApprovers
  <2>3. \A v \in row.asked : posts[v] \in ApproverPosts /\ row.nominee \in {Anyone, v}
    BY <2>2 DEF ResolvedApprovers
  <2>4. reached[q]["request"] = {}
    BY <1>1, <1>2, <2>1 DEF ReachedWereAsked, AskedOrLeft
  <2> HIDE DEF row, gone
  <2>5. MailroomTypeOK'
    BY <1>1, <2>1, <2>2 DEF MailroomTypeOK, Letters
  <2>6. petitions'[q] = row /\ \A p \in Petitions \ {q} : petitions'[p] = petitions[p] /\ left'[p] = left[p]
    BY <1>1, <2>1
  <2>7. ReachedWereAsked' /\ DecidersHadLink'
    BY <1>2, <2>1, <2>2, <2>4, <2>6 DEF ReachedWereAsked, DecidersHadLink
  <2>8. AskedOrLeft'
    BY <1>2, <2>1, <2>2, <2>3, <2>6 DEF AskedOrLeft
  <2>9. AskedHear'
    BY <1>2, <2>1, <2>2, <2>6 DEF AskedHear
  <2>10. OutcomeIsReal'
    <3>1. row.by = u /\ <<q, "outcome">> \notin outbox'
      BY <1>2, <2>1 DEF row, NoPetition, OutcomeIsReal
    <3> QED
      BY <1>2, <2>1, <2>6, <3>1 DEF OutcomeIsReal
  <2> QED
    BY <2>5, <2>7, <2>8, <2>9, <2>10 DEF MailroomIInv
\* A change of one request that leaves alone who was asked, and whose nominee.
<1>5. ASSUME NEW q \in Petitions, NEW row \in Petition, petitions' = [petitions EXCEPT ![q] = row],
             row.asked = petitions[q].asked, row.nominee = petitions[q].nominee, row.by = petitions[q].by,
             petitions[q].status # "NONE", row.status # "NONE",
             row.status \in {"APPROVED", "REJECTED"} =>
               row.decidedBy \in reached[q]["request"] /\ row.decidedBy # row.by,
             outbox \subseteq outbox', outbox' \subseteq Petitions \X Letters,
             \A p \in Petitions \ {q} : <<p, "outcome">> \in outbox' => <<p, "outcome">> \in outbox,
             <<q, "outcome">> \in outbox' => row.status \in {"APPROVED", "REJECTED", "CANCELLED"},
             row.status = "CANCELLED" => <<q, "outcome">> \in outbox',
             UNCHANGED <<posts, reached, lost, left>>
      PROVE  MailroomIInv'
  <2>1. MailroomTypeOK'
    BY <1>1, <1>5 DEF MailroomTypeOK
  <2>2. petitions'[q] = row /\ \A p \in Petitions \ {q} : petitions'[p] = petitions[p]
    BY <1>1, <1>5
  <2>3. ReachedWereAsked' /\ DecidersHadLink'
    BY <1>2, <1>5, <2>2 DEF ReachedWereAsked, DecidersHadLink
  <2>4. AskedOrLeft'
    BY <1>2, <1>5, <2>2 DEF AskedOrLeft
  <2>5. AskedHear'
    BY <1>2, <1>5, <2>2 DEF AskedHear
  <2>6. OutcomeIsReal'
    BY <1>2, <1>5, <2>2 DEF OutcomeIsReal
  <2> QED
    BY <2>1, <2>3, <2>4, <2>5, <2>6 DEF MailroomIInv
<1>6. ASSUME NEW q \in Petitions, LinkExpires(q)
      PROVE  MailroomIInv'
  <2> DEFINE row == [petitions[q] EXCEPT !.stale = TRUE]
  <2>1. /\ petitions[q].status = "PENDING" /\ petitions' = [petitions EXCEPT ![q] = row]
        /\ UNCHANGED <<posts, outbox, reached, lost, left>>
    BY <1>6 DEF LinkExpires
  <2>2. petitions[q] \in Petition
    BY <1>1
  <2>3. /\ row \in Petition /\ row.asked = petitions[q].asked /\ row.nominee = petitions[q].nominee
        /\ row.by = petitions[q].by /\ row.status = "PENDING"
    BY <2>1, <2>2 DEF Petition
  <2> HIDE DEF row
  <2> QED
    BY <1>1, <1>2, <1>5, <2>1, <2>3 DEF OutcomeIsReal
<1>7. ASSUME NEW q \in Petitions, NEW u \in Colleagues, NEW outcome \in {"APPROVED", "REJECTED"},
             DecidePetition(q, u, outcome)
      PROVE  MailroomIInv'
  <2> DEFINE row == [petitions[q] EXCEPT !.status = outcome, !.decidedBy = u]
  <2>1. /\ petitions[q].status = "PENDING" /\ petitions' = [petitions EXCEPT ![q] = row]
        /\ outbox' = outbox \cup {<<q, "outcome">>} /\ UNCHANGED <<posts, reached, lost, left>>
        /\ u \in reached[q]["request"] /\ u # petitions[q].by
    BY <1>7 DEF DecidePetition, HasLink
  <2>2. petitions[q] \in Petition
    BY <1>1
  <2>3. /\ row \in Petition /\ row.asked = petitions[q].asked /\ row.nominee = petitions[q].nominee
        /\ row.by = petitions[q].by /\ row.status = outcome /\ row.decidedBy = u
    BY <2>1, <2>2 DEF Petition
  <2>4. outbox \subseteq outbox' /\ outbox' \subseteq Petitions \X Letters
    BY <1>1, <2>1 DEF Letters
  <2> HIDE DEF row
  <2> QED
    BY <1>5, <2>1, <2>3, <2>4
<1>8. ASSUME NEW q \in Petitions, WithdrawPetition(q)
      PROVE  MailroomIInv'
  <2> DEFINE row == [petitions[q] EXCEPT !.status = "CANCELLED", !.decidedBy = petitions[q].by]
  <2>1. /\ petitions[q].status = "PENDING" /\ petitions' = [petitions EXCEPT ![q] = row]
        /\ outbox' = outbox \cup {<<q, "outcome">>} /\ UNCHANGED <<posts, reached, lost, left>>
    BY <1>8 DEF WithdrawPetition
  <2>2. petitions[q] \in Petition
    BY <1>1
  <2>3. /\ row \in Petition /\ row.asked = petitions[q].asked /\ row.nominee = petitions[q].nominee
        /\ row.by = petitions[q].by /\ row.status = "CANCELLED"
    BY <2>1, <2>2 DEF Petition
  <2>4. outbox \subseteq outbox' /\ outbox' \subseteq Petitions \X Letters /\ <<q, "outcome">> \in outbox'
    BY <1>1, <2>1 DEF Letters
  <2> HIDE DEF row
  <2> QED
    BY <1>5, <2>1, <2>3, <2>4
<1>9. ASSUME NEW q \in Petitions, NEW letter \in Letters, Send(q, letter)
      PROVE  MailroomIInv'
  <2>1. /\ outbox' = outbox \ {<<q, letter>>} /\ UNCHANGED <<posts, petitions, lost, left>>
        /\ reached' = [reached EXCEPT ![q][letter] = Readers(q, letter)]
    BY <1>9 DEF Send
  <2>2. ASSUME letter = "request"
        PROVE  MailroomIInv'
    <3>1. petitions[q].asked \in SUBSET Colleagues
      BY <1>1 DEF Petition
    <3>2. Readers(q, letter) = petitions[q].asked
      BY <2>2 DEF Readers
    <3>3. /\ reached' \in [Petitions -> [Letters -> SUBSET Colleagues]]
          /\ reached'[q]["request"] = petitions[q].asked
          /\ \A p \in Petitions : reached'[p]["outcome"] = reached[p]["outcome"]
          /\ \A p \in Petitions \ {q} : reached'[p] = reached[p]
      BY <1>1, <2>1, <2>2, <3>1, <3>2 DEF Letters
    <3>4. MailroomTypeOK'
      BY <1>1, <2>1, <3>3 DEF MailroomTypeOK
    <3>5. ReachedWereAsked' /\ DecidersHadLink'
      BY <1>2, <2>1, <3>3 DEF ReachedWereAsked, DecidersHadLink
    <3>6. AskedOrLeft' /\ AskedHear' /\ OutcomeIsReal'
      BY <1>2, <2>1, <2>2, <3>3 DEF AskedOrLeft, AskedHear, OutcomeIsReal
    <3> QED
      BY <3>4, <3>5, <3>6 DEF MailroomIInv
  <2>3. ASSUME letter = "outcome"
        PROVE  MailroomIInv'
    <3>1. petitions[q].status \in {"APPROVED", "REJECTED", "CANCELLED"} /\ petitions[q].by \in Colleagues
      BY <1>2, <1>9, <2>3 DEF Send, OutcomeIsReal
    <3>2. Readers(q, letter) \in SUBSET Colleagues
      BY <1>1, <1>2, <2>3, <3>1 DEF Readers, WithdrawalReaders, ResolvedApprovers, DecidersHadLink, Letters
    <3>3. /\ reached' \in [Petitions -> [Letters -> SUBSET Colleagues]]
          /\ reached'[q]["outcome"] = Readers(q, letter)
          /\ \A p \in Petitions : reached'[p]["request"] = reached[p]["request"]
          /\ \A p \in Petitions \ {q} : reached'[p] = reached[p]
      BY <1>1, <2>1, <2>3, <3>2 DEF Letters
    <3>4. MailroomTypeOK'
      BY <1>1, <2>1, <3>3 DEF MailroomTypeOK
    <3>5. ReachedWereAsked' /\ DecidersHadLink'
      BY <1>2, <2>1, <3>3 DEF ReachedWereAsked, DecidersHadLink
    <3>6. AskedOrLeft' /\ OutcomeIsReal'
      BY <1>2, <2>1, <3>3 DEF AskedOrLeft, OutcomeIsReal
    <3>7. petitions[q].status = "CANCELLED" =>
            petitions[q].asked \subseteq reached'[q]["outcome"] \cup left[q]
      BY <1>1, <1>2, <2>3, <3>3
      DEF AskedOrLeft, Readers, WithdrawalReaders, ResolvedApprovers, Petition
    <3>8. AskedHear'
      BY <1>2, <2>1, <3>3, <3>7 DEF AskedHear
    <3> QED
      BY <3>4, <3>5, <3>6, <3>8 DEF MailroomIInv
  <2> QED
    BY <2>2, <2>3 DEF Letters
<1>10. ASSUME NEW q \in Petitions, NEW letter \in Letters, Lose(q, letter)
       PROVE  MailroomIInv'
  <2>1. /\ outbox' = outbox \ {<<q, letter>>} /\ lost' = lost \cup {<<q, letter>>}
        /\ UNCHANGED <<posts, petitions, reached, left>>
    BY <1>10 DEF Lose
  <2>2. outbox \cup lost \subseteq outbox' \cup lost' /\ outbox' \subseteq outbox
    BY <2>1
  <2>3. MailroomTypeOK'
    BY <1>1, <2>1 DEF MailroomTypeOK
  <2>4. ReachedWereAsked' /\ DecidersHadLink' /\ AskedOrLeft' /\ OutcomeIsReal'
    BY <1>2, <2>1 DEF ReachedWereAsked, DecidersHadLink, AskedOrLeft, OutcomeIsReal
  <2>5. AskedHear'
    BY <1>2, <2>1, <2>2 DEF AskedHear
  <2> QED
    BY <2>3, <2>4, <2>5 DEF MailroomIInv
<1> QED
  BY <1>3, <1>4, <1>6, <1>7, <1>8, <1>9, <1>10 DEF MailroomNext

LEMMA MailroomInductive == MailroomIInv /\ [MailroomNext]_mailroomVars => MailroomIInv'
<1>1. CASE UNCHANGED mailroomVars
  BY <1>1 DEF mailroomVars, MailroomIInv, MailroomTypeOK, ReachedWereAsked, DecidersHadLink,
              AskedOrLeft, AskedHear, OutcomeIsReal
<1> QED
  BY <1>1, MailroomStep

\* Posts, requests and emails keep their types.
THEOREM MailroomTypeCorrect == MailroomSpec => []MailroomTypeOK
<1>1. MailroomIInv => MailroomTypeOK
  BY DEF MailroomIInv
<1> QED
  BY <1>1, MailroomStart, MailroomInductive, PTL DEF MailroomSpec

\* Nobody decides a request but an approver its email reached, and not who raised it
\* (approveStatusChange and rejectStatusChange).
THEOREM OnlyTheAskedDecide == MailroomSpec => []DecidedByAsked
<1>1. MailroomIInv => DecidedByAsked
  BY DEF MailroomIInv, ReachedWereAsked, DecidersHadLink, DecidedByAsked
<1> QED
  BY <1>1, MailroomStart, MailroomInductive, PTL DEF MailroomSpec

\* An approver the request reached hears of its withdrawal, though cancelStatusChange looks
\* for the approvers anew, unless the email is lost or they were no approver in between.
THEOREM AskedAlwaysHear == MailroomSpec => []AskedHearOfWithdrawal
<1>1. MailroomIInv => AskedHearOfWithdrawal
  BY DEF MailroomIInv, ReachedWereAsked, AskedHear, AskedHearOfWithdrawal
<1> QED
  BY <1>1, MailroomStart, MailroomInductive, PTL DEF MailroomSpec

-----------------------------------------------------------------------------
(* RequisitionSheet. Entries that are picked from a list by their places   *)
(* keep their order, since each place is the nth of those picked for one n.*)

NthOf(places, k) == CHOOSE i \in places : Cardinality({j \in places : j <= i}) = k

LEMMA FinitePlaces ==
  ASSUME NEW N \in Nat, NEW places \in SUBSET (1..N)
  PROVE  IsFiniteSet(places) /\ Cardinality(places) \in Nat
<1>1. IsFiniteSet(1..N)
  BY FS_Interval
<1> QED
  BY <1>1, FS_Subset, FS_CardinalityType

\* Among finitely many places there is a first, a second and so on.
LEMMA NthExists ==
  ASSUME NEW N \in Nat, NEW places \in SUBSET (1..N), NEW k \in 1..Cardinality(places)
  PROVE  /\ NthOf(places, k) \in places
         /\ Cardinality({j \in places : j <= NthOf(places, k)}) = k
<1> DEFINE Upto(i) == {j \in places : j <= i}
           Enough == {i \in Nat : k <= Cardinality(Upto(i))}
<1>1. IsFiniteSet(places) /\ Cardinality(places) \in Nat
  BY FinitePlaces
<1>2. \A i \in Nat : IsFiniteSet(Upto(i)) /\ Cardinality(Upto(i)) \in Nat
  BY <1>1, FS_Subset, FS_CardinalityType
<1>3. /\ k \in Nat /\ 1 <= k /\ k <= Cardinality(places)
      /\ \A j \in places : j \in Nat /\ 1 <= j /\ j <= N
  BY <1>1
<1>4. N \in Enough
  <2>1. Upto(N) = places
    BY <1>3
  <2> QED
    BY <1>3, <2>1
<1>5. PICK m \in Enough : \A i \in Enough : m <= i
  <2> HIDE DEF Enough
  <2>1. Enough \in SUBSET Nat
    BY DEF Enough
  <2> QED
    BY <1>4, <2>1, LeastOf
<1>6. m # 0
  <2>0. \A j \in places : ~(j <= 0)
    BY <1>3
  <2>1. Upto(0) = {}
    BY <2>0
  <2>2. Cardinality(Upto(0)) = 0
    BY <2>1, FS_EmptySet
  <2>3. 0 \notin Enough
    BY <1>3, <2>2
  <2> QED
    BY <1>5, <2>3
<1>7. m \in Nat /\ m - 1 \in Nat /\ m - 1 \notin Enough /\ k <= Cardinality(Upto(m))
  <2>1. m \in Nat /\ k <= Cardinality(Upto(m))
    BY <1>5
  <2>2. m - 1 \in Nat /\ ~(m <= m - 1)
    BY <1>6, <2>1
  <2> HIDE DEF Enough
  <2> QED
    BY <1>5, <2>1, <2>2
<1>8. Cardinality(Upto(m - 1)) < k /\ Cardinality(Upto(m - 1)) \in Nat
  <2>1. ~(k <= Cardinality(Upto(m - 1))) /\ Cardinality(Upto(m - 1)) \in Nat
    BY <1>2, <1>7
  <2> HIDE DEF Upto
  <2> QED
    BY <1>3, <2>1
<1>9. m \in places
  <2>1. CASE m \notin places
    <3>1. \A j \in places : j <= m <=> j <= m - 1
      BY <1>3, <1>7, <2>1
    <3>2. Upto(m) = Upto(m - 1)
      BY <3>1
    <3> QED
      BY <1>3, <1>7, <1>8, <3>2
  <2> QED
    BY <2>1
<1>10. Cardinality(Upto(m)) = Cardinality(Upto(m - 1)) + 1
  <2>0. \A j \in places : j <= m <=> j <= m - 1 \/ j = m
    BY <1>3, <1>7
  <2>1. Upto(m) = Upto(m - 1) \cup {m} /\ m \notin Upto(m - 1)
    BY <1>7, <1>9, <2>0
  <2> HIDE DEF Upto
  <2> QED
    BY <1>2, <1>7, <2>1, FS_AddElement
<1>11. Cardinality(Upto(m)) = k
  BY <1>3, <1>7, <1>8, <1>10
<1> QED
  BY <1>9, <1>11 DEF NthOf

\* `picked` has the n entries of es at the places, each once.
IsPick(picked, n, es, places) ==
  /\ n \in Nat
  /\ picked = [k \in 1..n |-> es[NthOf(places, k)]]
  /\ \A k \in 1..n : NthOf(places, k) \in places
  /\ \A k, l \in 1..n : NthOf(places, k) = NthOf(places, l) => k = l

LEMMA PickedEntries ==
  ASSUME NEW N \in Nat, NEW es, NEW places \in SUBSET (1..N)
  PROVE  IsPick(Picked(es, places), Cardinality(places), es, places)
<1>1. Cardinality(places) \in Nat
  BY FinitePlaces
<1>2. Picked(es, places) = [k \in 1..Cardinality(places) |-> es[NthOf(places, k)]]
  BY DEF Picked, NthOf
<1>3. \A k \in 1..Cardinality(places) : /\ NthOf(places, k) \in places
                                        /\ Cardinality({j \in places : j <= NthOf(places, k)}) = k
  BY NthExists
<1> QED
  BY <1>1, <1>2, <1>3 DEF IsPick

\* A list is accepted if its entries with a quantity are active and differ.
LEMMA Acceptable ==
  ASSUME NEW N \in Nat, NEW es, DOMAIN es = 1..N,
         \A i \in 1..N : es[i].qty > 0 => Active(es[i].material),
         \A i, j \in 1..N : es[i].qty > 0 /\ es[j].qty > 0 /\ es[i].material = es[j].material => i = j
  PROVE  LinesAccepted(es)
<1> DEFINE places == {i \in DOMAIN es : es[i].qty > 0}
           n == Cardinality(places)
<1>1. places \in SUBSET (1..N) /\ Requested(es) = Picked(es, places)
  BY DEF Requested
<1>2. /\ n \in Nat /\ Requested(es) = [k \in 1..n |-> es[NthOf(places, k)]]
      /\ \A k \in 1..n : NthOf(places, k) \in places
      /\ \A k, l \in 1..n : NthOf(places, k) = NthOf(places, l) => k = l
  <2>1. IsPick(Requested(es), n, es, places)
    <3> HIDE DEF places
    <3> QED
      BY <1>1, PickedEntries
  <2> QED
    BY <2>1 DEF IsPick
<1>3. \A k \in 1..n : NthOf(places, k) \in 1..N /\ es[NthOf(places, k)].qty > 0
  BY <1>2
<1> HIDE DEF places, n
<1>4. \A k \in 1..n : Active(Requested(es)[k].material)
  BY <1>2, <1>3
<1>5. Distinct(MaterialsOf(Requested(es)))
  <2>1. MaterialsOf(Requested(es)) = [k \in 1..n |-> es[NthOf(places, k)].material]
    BY <1>2 DEF MaterialsOf
  <2>2. ASSUME NEW k \in 1..n, NEW l \in 1..n, es[NthOf(places, k)].material = es[NthOf(places, l)].material
        PROVE  k = l
    <3>1. NthOf(places, k) = NthOf(places, l)
      BY <1>3, <2>2
    <3> QED
      BY <1>2, <3>1
  <2> QED
    BY <2>1, <2>2 DEF Distinct
<1>6. DOMAIN Requested(es) = 1..n
  BY <1>2
<1> QED
  BY <1>4, <1>5, <1>6 DEF LinesAccepted

\* What is left of an accepted list is a list of materials.
LEMMA AcceptedLines ==
  ASSUME NEW es \in Entries, LinesAccepted(es)
  PROVE  MaterialsOf(Requested(es)) \in Seq(Items) /\ Distinct(MaterialsOf(Requested(es)))
<1>1. PICK N \in 0..MaxEntries : es \in [1..N -> Entry]
  BY DEF Entries
<1>2. N \in Nat
  BY <1>1, SheetAssumption
<1> DEFINE places == {i \in DOMAIN es : es[i].qty > 0}
           n == Cardinality(places)
<1>3. places \in SUBSET (1..N) /\ Requested(es) = Picked(es, places)
  BY <1>1 DEF Requested
<1>4. n \in Nat /\ DOMAIN Requested(es) = 1..n
  <2>1. IsPick(Requested(es), n, es, places)
    <3> HIDE DEF places
    <3> QED
      BY <1>2, <1>3, PickedEntries
  <2> QED
    BY <2>1 DEF IsPick
<1> HIDE DEF n
<1>5. \A k \in 1..n : Requested(es)[k].material \in Items
  BY <1>4 DEF LinesAccepted, Active
<1>6. MaterialsOf(Requested(es)) = [k \in 1..n |-> Requested(es)[k].material]
  BY <1>4 DEF MaterialsOf
<1> QED
  BY <1>4, <1>5, <1>6 DEF LinesAccepted

\* The offers are accepted, whatever the stock and the sheets are.
LEMMA OffersAccepted == OffersAreAccepted
<1>1. ASSUME NEW m, Active(m)
      PROVE  LinesAccepted(<<[material |-> m, qty |-> 1]>>)
  <2> DEFINE es == <<[material |-> m, qty |-> 1]>>
  <2>1. DOMAIN es = 1..1 /\ es[1].material = m
    OBVIOUS
  <2> HIDE DEF es
  <2>2. \A i \in 1..1 : Active(es[i].material)
    <3>1. \A i \in 1..1 : i = 1
      OBVIOUS
    <3> QED
      BY <1>1, <2>1, <3>1
  <2>3. \A i, j \in 1..1 : i = j
    OBVIOUS
  <2>4. LinesAccepted(es)
    BY <2>1, <2>2, <2>3, Acceptable
  <2> QED
    BY <2>4 DEF es
<1>2. ASSUME NEW es \in Entries
      PROVE  LinesAccepted(BomLines(es))
  <2>1. PICK N \in 0..MaxEntries : es \in [1..N -> Entry]
    BY DEF Entries
  <2>2. N \in Nat
    BY <2>1, SheetAssumption
  <2> DEFINE places == {i \in DOMAIN es : /\ Usable(es[i])
                                          /\ \A j \in 1..(i - 1) :
                                               Usable(es[j]) => es[j].material # es[i].material}
             n == Cardinality(places)
             bom == BomLines(es)
  <2>3. places \in SUBSET (1..N) /\ bom = Picked(es, places)
    BY <2>1 DEF BomLines
  <2>4. /\ n \in Nat /\ bom = [k \in 1..n |-> es[NthOf(places, k)]]
        /\ \A k \in 1..n : NthOf(places, k) \in places
        /\ \A k, l \in 1..n : NthOf(places, k) = NthOf(places, l) => k = l
    <3>1. IsPick(bom, n, es, places)
      <4> HIDE DEF places, bom
      <4> QED
        BY <2>2, <2>3, PickedEntries
    <3> QED
      BY <3>1 DEF IsPick
  <2>5. \A i \in places : i \in 1..N /\ Usable(es[i])
    BY <2>1
  <2>6. ASSUME NEW i \in places, NEW j \in places, es[i].material = es[j].material
        PROVE  i = j
    <3>1. ~(j \in 1..(i - 1)) /\ ~(i \in 1..(j - 1))
      BY <2>5, <2>6
    <3> QED
      BY <2>2, <2>5, <3>1
  <2> HIDE DEF places, n, bom
  <2>7. \A k \in 1..n : Active(bom[k].material)
    BY <2>4, <2>5 DEF Usable
  <2>8. \A k, l \in 1..n : bom[k].material = bom[l].material => k = l
    BY <2>4, <2>6
  <2>9. DOMAIN bom = 1..n
    BY <2>4
  <2>10. LinesAccepted(bom)
    BY <2>4, <2>7, <2>8, <2>9, Acceptable
  <2> QED
    BY <2>10 DEF bom
<1> QED
  BY <1>1, <1>2 DEF OffersAreAccepted, FromMaster, FromProject

SheetIInv == SheetTypeOK /\ ListedOnce

SheetWith(sheet, lns, cov) == [sheet EXCEPT !.lines = lns, !.covering = cov]

LEMMA WrittenForm ==
  ASSUME NEW sheet
  PROVE  Written(sheet) = {SheetWith(sheet, lns, cov) :
                             lns \in LineLists \cup {sheet.lines},
                             cov \in {Covering(sent) : sent \in 0..2} \cup {sheet.covering}}
BY DEF Written, SheetWith

\* What create and update write on a sheet.
LEMMA WrittenFits ==
  ASSUME NEW sheet \in Sheet, Distinct(sheet.lines), sheet.covering <= 1, NEW new \in Written(sheet),
         NEW status \in {"DRAFT", "SUBMITTED", "RETURNED", "SHELVED", "ENDED"}
  PROVE  LET s == [new EXCEPT !.status = status]
         IN  s \in Sheet /\ Distinct(s.lines) /\ s.covering <= 1 /\ new.status = sheet.status
<1>1. PICK lns \in LineLists \cup {sheet.lines}, cov \in {Covering(sent) : sent \in 0..2} \cup {sheet.covering} :
        new = [sheet EXCEPT !.lines = lns, !.covering = cov]
  <2>1. PICK lns \in LineLists \cup {sheet.lines}, cov \in {Covering(sent) : sent \in 0..2} \cup {sheet.covering} :
          new = SheetWith(sheet, lns, cov)
    BY WrittenForm
  <2> QED
    BY <2>1 DEF SheetWith
<1>2. lns \in Seq(Items) /\ Distinct(lns)
  BY <1>1, AcceptedLines DEF LineLists, Sheet
<1>3. cov \in Nat /\ cov <= 1
  BY <1>1 DEF Covering, Sheet
<1> QED
  BY <1>1, <1>2, <1>3 DEF Sheet

LEMMA SheetStart == SheetInit => SheetIInv
<1> SUFFICES ASSUME SheetInit PROVE SheetIInv
  OBVIOUS
<1>1. << >> \in Seq(Items) /\ DOMAIN << >> = {}
  OBVIOUS
<1>2. NoSheet \in Sheet /\ NoSheet.lines = << >> /\ NoSheet.covering = 0
  BY <1>1 DEF NoSheet, Sheet
<1> QED
  BY <1>1, <1>2 DEF SheetInit, SheetIInv, SheetTypeOK, Stock, ListedOnce, Distinct

LEMMA SheetInductive == SheetIInv /\ [SheetNext]_sheetVars => SheetIInv'
<1> SUFFICES ASSUME SheetIInv, [SheetNext]_sheetVars PROVE SheetIInv'
  OBVIOUS
<1>1. /\ stock \in [Items -> Stock] /\ sheets \in [Sheets -> Sheet]
      /\ \A s \in Sheets : sheets[s] \in Sheet /\ Distinct(sheets[s].lines) /\ sheets[s].covering <= 1
  BY DEF SheetIInv, SheetTypeOK, ListedOnce
<1>2. ASSUME NEW s \in Sheets, NEW new \in Sheet, sheets' = [sheets EXCEPT ![s] = new], stock' = stock,
             Distinct(new.lines), new.covering <= 1
      PROVE  SheetIInv'
  BY <1>1, <1>2 DEF SheetIInv, SheetTypeOK, ListedOnce
<1>3. ASSUME NEW s \in Sheets, CreateSheet(s)
      PROVE  SheetIInv'
  <2>1. PICK new \in Written(NoSheet), submit \in BOOLEAN :
          sheets' = [sheets EXCEPT ![s] = [new EXCEPT !.status = IF submit THEN "SUBMITTED" ELSE "DRAFT"]]
    BY <1>3 DEF CreateSheet
  <2>2. << >> \in Seq(Items) /\ DOMAIN << >> = {}
    OBVIOUS
  <2>3. NoSheet \in Sheet /\ Distinct(NoSheet.lines) /\ NoSheet.covering <= 1
    BY <2>2 DEF NoSheet, Sheet, Distinct
  <2> DEFINE status == IF submit THEN "SUBMITTED" ELSE "DRAFT"
  <2>4. status \in {"DRAFT", "SUBMITTED", "RETURNED", "SHELVED", "ENDED"}
    OBVIOUS
  <2> HIDE DEF status
  <2>5. stock' = stock /\ sheets' = [sheets EXCEPT ![s] = [new EXCEPT !.status = status]]
    BY <1>3, <2>1 DEF CreateSheet, status
  <2> QED
    BY <1>2, <2>3, <2>4, <2>5, WrittenFits
<1>4. ASSUME NEW s \in Sheets, UpdateSheet(s)
      PROVE  SheetIInv'
  <2>1. PICK new \in Written(sheets[s]), submit \in BOOLEAN :
          sheets' = [sheets EXCEPT ![s] = [new EXCEPT !.status = IF submit THEN "SUBMITTED" ELSE @]]
    BY <1>4 DEF UpdateSheet
  <2> DEFINE status == IF submit THEN "SUBMITTED" ELSE sheets[s].status
  <2>2. new.status = sheets[s].status
    BY <1>1, WrittenFits
  <2>3. status \in {"DRAFT", "SUBMITTED", "RETURNED", "SHELVED", "ENDED"}
    BY <1>4 DEF UpdateSheet, SourceStatuses
  <2>4. stock' = stock /\ sheets' = [sheets EXCEPT ![s] = [new EXCEPT !.status = status]]
    BY <1>4, <2>1, <2>2 DEF UpdateSheet
  <2> HIDE DEF status
  <2> QED
    BY <1>1, <1>2, <2>3, <2>4, WrittenFits
<1>5. ASSUME NEW s \in Sheets, NEW status \in {"SUBMITTED", "RETURNED", "SHELVED", "ENDED"},
             sheets' = [sheets EXCEPT ![s].status = status], stock' = stock
      PROVE  SheetIInv'
  <2> DEFINE new == [sheets[s] EXCEPT !.status = status]
  <2>1. new \in Sheet /\ new.lines = sheets[s].lines /\ new.covering = sheets[s].covering
    BY <1>1 DEF Sheet
  <2>2. sheets' = [sheets EXCEPT ![s] = new]
    BY <1>1, <1>5
  <2> HIDE DEF new
  <2> QED
    BY <1>1, <1>2, <1>5, <2>1, <2>2
<1>6. ASSUME NEW s \in Sheets, SubmitSheet(s)
      PROVE  SheetIInv'
  BY <1>5, <1>6 DEF SubmitSheet
<1>7. ASSUME NEW s \in Sheets, MoveSheet(s)
      PROVE  SheetIInv'
  <2>1. PICK to \in {"SUBMITTED", "RETURNED", "SHELVED", "ENDED"} : sheets' = [sheets EXCEPT ![s].status = to]
    BY <1>7 DEF MoveSheet
  <2> QED
    BY <1>5, <1>7, <2>1 DEF MoveSheet
<1>8. ASSUME NEW m \in Items, StockChanges(m)
      PROVE  SheetIInv'
  BY <1>1, <1>8 DEF StockChanges, Stock, SheetIInv, SheetTypeOK, ListedOnce
<1>9. CASE UNCHANGED sheetVars
  BY <1>9 DEF sheetVars, SheetIInv, SheetTypeOK, ListedOnce
<1> QED
  BY <1>3, <1>4, <1>6, <1>7, <1>8, <1>9 DEF SheetNext

\* Materials and sheets keep their types.
THEOREM SheetTypeCorrect == SheetSpec => []SheetTypeOK
<1>1. SheetIInv => SheetTypeOK
  BY DEF SheetIInv
<1> QED
  BY <1>1, SheetStart, SheetInductive, PTL DEF SheetSpec

\* What a source offers is accepted: from the master, from any source project, and the
\* whole of any file as one list (previewBom against resolveLines).
THEOREM OffersStayAccepted == SheetSpec => []OffersAreAccepted
BY OffersAccepted, PTL

\* No sheet lists a material twice or has two covering documents (resolveLines,
\* resolveDocuments, replaceChildren).
THEOREM ListsStayDistinct == SheetSpec => []ListedOnce
<1>1. SheetIInv => ListedOnce
  BY DEF SheetIInv
<1> QED
  BY <1>1, SheetStart, SheetInductive, PTL DEF SheetSpec

-----------------------------------------------------------------------------
(* RequisitionDesk. What is shown is allowed by the shape of the checks but*)
(* for one thing: only an approved requisition is ever locked, and stays   *)
(* so, which is why a button for a requisition that waits need not look.   *)

DeskIInv == DeskTypeOK /\ (paper.locked => paper.status = "APPROVED")

LEMMA DeskStart == DeskInit => DeskIInv
BY DeskAssumption DEF DeskInit, DeskIInv, DeskTypeOK, Account, InternalRoles, ReaderRoles, WriterRoles,
                      ProjectFile, NoManager, Paper, Marked

LEMMA DeskInductive == DeskIInv /\ [DeskNext]_deskVars => DeskIInv'
<1> SUFFICES ASSUME DeskIInv, [DeskNext]_deskVars PROVE DeskIInv'
  OBVIOUS
<1>1. accounts \in [Persons -> Account] /\ project \in ProjectFile /\ paper \in Paper
  BY DEF DeskIInv, DeskTypeOK
<1>2. paper.marks \in [Persons -> Marked] /\ paper.by \in Persons /\ (paper.locked => paper.status = "APPROVED")
  BY <1>1 DEF DeskIInv, Paper
<1>3. \A want \in SUBSET Persons : Listed(want) \in [Persons -> Marked]
  BY <1>2 DEF Listed, Marked
<1>4. ASSUME NEW u \in Movable, AccountChanges(u)
      PROVE  DeskIInv'
  BY <1>1, <1>4, DeskAssumption DEF AccountChanges, Account, DeskIInv, DeskTypeOK
<1>5. ASSUME ProjectChanges
      PROVE  DeskIInv'
  BY <1>1, <1>5 DEF ProjectChanges, ProjectFile, DeskIInv, DeskTypeOK
<1>6. ASSUME NEW u \in Persons, CreatePaper(u)
      PROVE  DeskIInv'
  BY <1>1, <1>2, <1>3, <1>6 DEF CreatePaper, Paper, DeskIInv, DeskTypeOK
<1>7. ASSUME NEW u \in Persons, ChangeList(u)
      PROVE  DeskIInv'
  BY <1>1, <1>2, <1>3, <1>7 DEF ChangeList, Paper, DeskIInv, DeskTypeOK
<1>8. ASSUME NEW u \in Persons, SubmitPaper(u)
      PROVE  DeskIInv'
  BY <1>1, <1>2, <1>8 DEF SubmitPaper, MaySubmit, Marked, Paper, DeskIInv, DeskTypeOK
<1>9. ASSUME NEW u \in Persons, DecidePaper(u)
      PROVE  DeskIInv'
  <2>1. PICK to \in {"APPROVED", "RETURNED", "ENDED"} :
          paper' = [paper EXCEPT !.status = to, !.marks = [paper.marks EXCEPT ![u] = "decided"]]
    BY <1>9 DEF DecidePaper
  <2>2. [paper.marks EXCEPT ![u] = "decided"] \in [Persons -> Marked]
    BY <1>2 DEF Marked
  <2>3. ~paper.locked /\ UNCHANGED <<accounts, project>>
    BY <1>9 DEF DecidePaper, MayDecide
  <2> HIDE DEF Marked
  <2>4. paper' \in Paper /\ ~paper'.locked
    BY <1>1, <2>1, <2>2, <2>3 DEF Paper
  <2> QED
    BY <1>1, <2>3, <2>4 DEF DeskIInv, DeskTypeOK
<1>10. ASSUME NEW u \in Persons, MovePaper(u)
       PROVE  DeskIInv'
  BY <1>1, <1>2, <1>10 DEF MovePaper, Paper, DeskIInv, DeskTypeOK
<1>11. CASE UNCHANGED deskVars
  BY <1>11 DEF deskVars, DeskIInv, DeskTypeOK
<1> QED
  BY <1>4, <1>5, <1>6, <1>7, <1>8, <1>9, <1>10, <1>11 DEF DeskNext

LEMMA DeskAllows == DeskIInv => ShownIsAllowed /\ PickedIsAccepted
<1> SUFFICES ASSUME DeskIInv PROVE ShownIsAllowed /\ PickedIsAccepted
  OBVIOUS
<1>1. \A u \in Persons : accounts[u].role \in InternalRoles \cup {"EXTERNAL"}
  BY DEF DeskIInv, DeskTypeOK, Account
<1>2. paper.locked => paper.status = "APPROVED"
  BY DEF DeskIInv
<1>3. ShownIsAllowed
  BY <1>2 DEF ShownIsAllowed, MyWork, MyPapers, MayOpen, MayDecide, MayRead, Member, ShownDecide, ShownSubmit,
              MaySubmit, ConcernedUsers
<1>4. PickedIsAccepted
  BY <1>1 DEF PickedIsAccepted, UserOptions, TakesPart, Enters, EligibleUsers, Eligible, ListsProject, MayCreateOn,
              Sees
<1> QED
  BY <1>3, <1>4

\* Accounts, the project and the requisition keep their types.
THEOREM DeskTypeCorrect == DeskSpec => []DeskTypeOK
<1>1. DeskIInv => DeskTypeOK
  BY DEF DeskIInv
<1> QED
  BY <1>1, DeskStart, DeskInductive, PTL DEF DeskSpec

\* Who is shown work, a button or a notice is let through, and who is offered by a picker
\* is accepted (permissionsFor, findAssigned and userOptions against the handlers).
THEOREM DeskStaysHonest == DeskSpec => [](ShownIsAllowed /\ PickedIsAccepted)
BY DeskStart, DeskInductive, DeskAllows, PTL DEF DeskSpec

-----------------------------------------------------------------------------
(* Office: what moves there moves as its own module says, and the rest     *)
(* rests. So whatever was proved of a component is true of it in Office,   *)
(* and every property that is checked there holds for any constants.       *)

LEMMA OfficeStarts ==
  OfficeInit => /\ AccountsInit /\ DirectoryInit /\ CardInit /\ AssignmentsInit /\ GroupsInit
                /\ StructureInit /\ MastersInit /\ NoticesInit /\ RecordsInit /\ FamilyInit
                /\ PlacementInit /\ SheetInit /\ FilesInit /\ ImportInit /\ DeskInit /\ MailroomInit
BY DEF OfficeInit

ComponentsMove ==
  /\ [AccountsNext]_accountVars
  /\ [DirectoryNext]_directoryVars
  /\ [CardNext]_cardVars
  /\ [AssignmentsNext]_assignmentVars
  /\ [GroupsNext]_groupVars
  /\ [StructureNext]_structureVars
  /\ [MastersNext]_masterVars
  /\ [NoticesNext]_noticeVars
  /\ [RecordsNext]_recordVars
  /\ [FamilyNext]_familyVars
  /\ [PlacementNext]_placementVars
  /\ [SheetNext]_sheetVars
  /\ [FilesNext]_fileVars
  /\ [ImportNext]_importVars
  /\ [DeskNext]_deskVars
  /\ [MailroomNext]_mailroomVars

LEMMA OfficeSteps == [OfficeNext]_officeVars => ComponentsMove /\ focus' = focus
<1>1. AccountsMoves => ComponentsMove /\ focus' = focus
  BY DEF AccountsMoves, ComponentsMove
<1>2. ClientMoves => ComponentsMove /\ focus' = focus
  BY DEF ClientMoves, ComponentsMove, DirectoryNext
<1>3. DirectoryMoves => ComponentsMove /\ focus' = focus
  BY DEF DirectoryMoves, ComponentsMove
<1>4. CardMoves => ComponentsMove /\ focus' = focus
  BY DEF CardMoves, ComponentsMove
<1>5. AssignmentsMoves => ComponentsMove /\ focus' = focus
  BY DEF AssignmentsMoves, ComponentsMove
<1>6. GroupsMoves => ComponentsMove /\ focus' = focus
  BY DEF GroupsMoves, ComponentsMove
<1>7. StructureMoves => ComponentsMove /\ focus' = focus
  BY DEF StructureMoves, ComponentsMove
<1>8. MastersMoves => ComponentsMove /\ focus' = focus
  BY DEF MastersMoves, ComponentsMove
<1>9. NoticesMoves => ComponentsMove /\ focus' = focus
  BY DEF NoticesMoves, ComponentsMove
<1>10. RecordsMoves => ComponentsMove /\ focus' = focus
  BY DEF RecordsMoves, ComponentsMove
<1>11. FamilyMoves => ComponentsMove /\ focus' = focus
  BY DEF FamilyMoves, ComponentsMove
<1>19. CompanyMoves => ComponentsMove /\ focus' = focus
  BY DEF CompanyMoves, ComponentsMove
<1>12. PlacementMoves => ComponentsMove /\ focus' = focus
  BY DEF PlacementMoves, ComponentsMove
<1>13. SheetMoves => ComponentsMove /\ focus' = focus
  BY DEF SheetMoves, ComponentsMove
<1>14. FilesMoves => ComponentsMove /\ focus' = focus
  BY DEF FilesMoves, ComponentsMove
<1>15. ImportMoves => ComponentsMove /\ focus' = focus
  BY DEF ImportMoves, ComponentsMove
<1>16. DeskMoves => ComponentsMove /\ focus' = focus
  BY DEF DeskMoves, ComponentsMove
<1>17. MailroomMoves => ComponentsMove /\ focus' = focus
  BY DEF MailroomMoves, ComponentsMove
<1>18. UNCHANGED officeVars => ComponentsMove /\ focus' = focus
  BY DEF officeVars, ComponentsMove
<1> QED
  BY <1>1, <1>2, <1>3, <1>4, <1>5, <1>6, <1>7, <1>8, <1>9, <1>10, <1>11, <1>12, <1>13, <1>14, <1>15, <1>16,
     <1>17, <1>18, <1>19 DEF OfficeNext

\* Office implements the specification of each of its components.
THEOREM OfficeIsItsComponents ==
  OfficeSpec => /\ AccountsSpec /\ DirectorySpec /\ CardSpec /\ AssignmentsSpec /\ GroupsSpec
                /\ StructureSpec /\ MastersSpec /\ NoticesSpec /\ RecordsSpec /\ FamilySpec
                /\ PlacementSpec /\ SheetSpec /\ FilesSpec /\ ImportSpec /\ DeskSpec /\ MailroomSpec
<1>1. [OfficeNext]_officeVars => [AccountsNext]_accountVars
  BY OfficeSteps DEF ComponentsMove
<1>2. [OfficeNext]_officeVars => [DirectoryNext]_directoryVars
  BY OfficeSteps DEF ComponentsMove
<1>3. [OfficeNext]_officeVars => [CardNext]_cardVars
  BY OfficeSteps DEF ComponentsMove
<1>4. [OfficeNext]_officeVars => [AssignmentsNext]_assignmentVars
  BY OfficeSteps DEF ComponentsMove
<1>5. [OfficeNext]_officeVars => [GroupsNext]_groupVars
  BY OfficeSteps DEF ComponentsMove
<1>6. [OfficeNext]_officeVars => [StructureNext]_structureVars
  BY OfficeSteps DEF ComponentsMove
<1>7. [OfficeNext]_officeVars => [MastersNext]_masterVars
  BY OfficeSteps DEF ComponentsMove
<1>8. [OfficeNext]_officeVars => [NoticesNext]_noticeVars
  BY OfficeSteps DEF ComponentsMove
<1>9. [OfficeNext]_officeVars => [RecordsNext]_recordVars
  BY OfficeSteps DEF ComponentsMove
<1>10. [OfficeNext]_officeVars => [FamilyNext]_familyVars
  BY OfficeSteps DEF ComponentsMove
<1>11. [OfficeNext]_officeVars => [PlacementNext]_placementVars
  BY OfficeSteps DEF ComponentsMove
<1>12. [OfficeNext]_officeVars => [SheetNext]_sheetVars
  BY OfficeSteps DEF ComponentsMove
<1>13. [OfficeNext]_officeVars => [FilesNext]_fileVars
  BY OfficeSteps DEF ComponentsMove
<1>14. [OfficeNext]_officeVars => [ImportNext]_importVars
  BY OfficeSteps DEF ComponentsMove
<1>15. [OfficeNext]_officeVars => [DeskNext]_deskVars
  BY OfficeSteps DEF ComponentsMove
<1>16. [OfficeNext]_officeVars => [MailroomNext]_mailroomVars
  BY OfficeSteps DEF ComponentsMove
<1> QED
  BY <1>1, <1>2, <1>3, <1>4, <1>5, <1>6, <1>7, <1>8, <1>9, <1>10, <1>11, <1>12, <1>13, <1>14, <1>15, <1>16,
     OfficeStarts, PTL
  DEF OfficeSpec, AccountsSpec, DirectorySpec, CardSpec, AssignmentsSpec, GroupsSpec, StructureSpec, MastersSpec,
      NoticesSpec, RecordsSpec, FamilySpec, PlacementSpec, SheetSpec, FilesSpec, ImportSpec, DeskSpec, MailroomSpec

\* Every row, list and reference of every component keeps its type.
THEOREM OfficeTypeCorrect == OfficeSpec => []OfficeTypeOK
<1>1. /\ AccountsTypeOK /\ DirectoryTypeOK /\ CardTypeOK /\ AssignmentsTypeOK /\ GroupsTypeOK
      /\ StructureTypeOK /\ MastersTypeOK /\ NoticesTypeOK /\ RecordsTypeOK /\ FamilyTypeOK
      /\ PlacementTypeOK /\ SheetTypeOK /\ FilesTypeOK /\ ImportTypeOK /\ DeskTypeOK /\ MailroomTypeOK
      => OfficeTypeOK
  BY DEF OfficeTypeOK
<1> QED
  BY <1>1, OfficeIsItsComponents, AccountsTypeCorrect, DirectoryTypeCorrect, CardTypeCorrect,
     AssignmentsTypeCorrect, GroupsTypeCorrect, StructureTypeCorrect, MastersTypeCorrect, NoticesTypeCorrect,
     RecordsTypeCorrect, FamilyTypeCorrect, PlacementTypeCorrect, SheetTypeCorrect, FilesTypeCorrect,
     ImportTypeCorrect, DeskTypeCorrect, MailroomTypeCorrect, PTL

\* Clients: none is above itself or below a deleted one, whatever was re-parented and
\* removed, and none has two registered offices or active primary contacts (assertParent
\* and assertChildRules of ClientService).
THEOREM ClientsStaySound == OfficeSpec => []ClientsAreSound
<1>1. ParentsAreSound /\ OneOfEach => ClientsAreSound
  BY DEF ClientsAreSound
<1> QED
  BY <1>1, OfficeIsItsComponents, ParentsStaySound, OneStaysOneOfEach, PTL

\* Vendors: no circle of parents, a name twice only by an import, one current document of
\* a singleton type, no confirmed reference that was not confirmed here; and requests are
\* decided by who was asked, who also hear of a withdrawal (VendorService).
THEOREM VendorsStaySound == OfficeSpec => []VendorsAreSound
<1>1. /\ FamilyIsSound /\ NamesClashByImport
      /\ CurrentIsLatest /\ VerifiedIsVouched
      /\ DecidedByAsked /\ AskedHearOfWithdrawal
      => VendorsAreSound
  BY DEF VendorsAreSound
<1> QED
  BY <1>1, OfficeIsItsComponents, FamilyStaysSound, NamesOnlyClashByImport, CurrentStaysLatest,
     VerifiedStaysVouched, OnlyTheAskedDecide, AskedAlwaysHear, PTL

\* Imports: a file imported again would create nothing, no vendor is made twice and none
\* has two primary contacts (VendorImportService).
THEOREM ImportsStaySound == OfficeSpec => []ImportsAreSound
<1>1. ImportSettles /\ NoTwins /\ OnePrimary => ImportsAreSound
  BY DEF ImportsAreSound
<1> QED
  BY <1>1, OfficeIsItsComponents, ImportsSettle, ImportsMakeNoTwins, PTL

\* Requisitions: what a source offers a save accepts, no sheet lists a material or covering
\* document twice, who is shown one is let through, and who is offered by a picker is
\* accepted (MaterialRequisitionService).
THEOREM SheetsStaySound == OfficeSpec => []SheetsAreSound
<1>1. OffersAreAccepted /\ ListedOnce /\ ShownIsAllowed /\ PickedIsAccepted => SheetsAreSound
  BY DEF SheetsAreSound
<1> QED
  BY <1>1, OfficeIsItsComponents, OffersStayAccepted, ListsStayDistinct, DeskStaysHonest, PTL

\* Masters: an activity is where its mapping is, names that are to be unique are, and a
\* material's group is in its category, imports under way or not.
THEOREM MastersStaySound == OfficeSpec => []MastersAreSound
<1>1. ActivityFollowsMapping /\ MasterNamesAreUnique /\ PlacedTogether => MastersAreSound
  BY DEF MastersAreSound
<1> QED
  BY <1>1, OfficeIsItsComponents, ActivityStaysWithMapping, NamesStayUnique, PlacedStaysTogether, PTL

\* Users: whoever holds a session is verified, a project's assignments have one history,
\* and nobody is told of a step of their own or twice of one step.
THEOREM PeopleStaySound == OfficeSpec => []PeopleAreSound
<1>1. SignedInIsVerified /\ OneTracking /\ HeardOnce => PeopleAreSound
  BY DEF PeopleAreSound
<1> QED
  BY <1>1, OfficeIsItsComponents, SignedInStaysVerified, TrackingStaysOne, EverybodyHearsOnce, PTL

\* And what a step may never do in a component, it never does in Office: leave the
\* organization without an administrator, change what was ordered, let somebody into
\* something that is off, undo what a user did with a notice, lose a file in use.
THEOREM OfficeNeverDoes ==
  OfficeSpec => /\ DeletionLeavesAdmin /\ OrderedIsFrozen /\ OffStaysOff /\ NobodyJoinsOff /\ OnlySavesUndo
                /\ []FilesAreKept
BY OfficeIsItsComponents, DeletionAlwaysLeavesAdmin, OrderedStaysFrozen, OffAlwaysStaysOff, NobodyEverJoinsOff,
   OnlySavesEverUndo, FilesStayKept, PTL

=============================================================================
