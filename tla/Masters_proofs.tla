---------------------------- MODULE Masters_proofs ----------------------------
(***************************************************************************)
(* Proofs about the masters, Masters, OrgStructure and MaterialPlacement,  *)
(* and about the vendors next to one another, VendorRecords, VendorFamily  *)
(* and VendorImport, for any rows, names and calls under way.              *)
(***************************************************************************)
EXTENDS Masters, OrgStructure, MaterialPlacement, VendorRecords, VendorFamily, VendorImport,
        Directory_proofs, FiniteSetTheorems, TLAPS

-----------------------------------------------------------------------------
(* Masters. Names stay unique as every handler that gives a row a name, or *)
(* brings a row to life, asks all the rows that are live.                  *)

MastersIInv == MastersTypeOK /\ MasterNamesAreUnique

LEMMA MastersStart == MastersInit => MastersIInv
<1> SUFFICES ASSUME MastersInit PROVE MastersIInv
  OBVIOUS
<1>1. (CHOOSE n \in MasterNames : TRUE) \in MasterNames /\ (CHOOSE c \in Categories : TRUE) \in Categories
  BY MastersAssumption
<1>2. MastersTypeOK
  BY <1>1 DEF MastersInit, MastersTypeOK, MasterRow
<1>3. \A i \in Masters : ~LiveMaster(i)
  BY DEF MastersInit, LiveMaster
<1> QED
  BY <1>2, <1>3 DEF MastersIInv, MasterNamesAreUnique

\* A handler that leaves every row but i as it is, and i not live, or where i was, or
\* under a name that is free.
LEMMA OneMaster ==
  ASSUME MastersIInv, NEW i \in Masters, NEW new \in MasterRow,
         masters' = [masters EXCEPT ![i] = new], UNCHANGED <<rules, categories>>,
         \/ new.state = "deleted"
         \/ LiveMaster(i) /\ new.name = masters[i].name /\ new.categoryId = masters[i].categoryId
         \/ MasterNameFree(i, new.name, new.categoryId)
  PROVE  MastersIInv'
<1>1. masters \in [Masters -> MasterRow] /\ masters'[i] = new /\ \A j \in Masters \ {i} : masters'[j] = masters[j]
  BY DEF MastersIInv, MastersTypeOK
<1>2. MastersTypeOK'
  BY DEF MastersIInv, MastersTypeOK
<1>3. ASSUME rules.uniqueNames, NEW j \in Masters \ {i}, LiveMaster(j), LiveMaster(i)',
             masters[j].categoryId = new.categoryId
      PROVE  masters[j].name # new.name
  BY <1>1, <1>3 DEF MastersIInv, MasterNamesAreUnique, MasterNameFree, LiveMaster
<1>4. MasterNamesAreUnique'
  BY <1>1, <1>3 DEF MastersIInv, MasterNamesAreUnique, LiveMaster
<1> QED
  BY <1>2, <1>4 DEF MastersIInv

LEMMA MastersInductive == MastersIInv /\ [MastersNext]_masterVars => MastersIInv'
<1> SUFFICES ASSUME MastersIInv, [MastersNext]_masterVars PROVE MastersIInv'
  OBVIOUS
<1>1. masters \in [Masters -> MasterRow] /\ categories \in [Categories -> {"active", "inactive", "deleted"}]
  BY DEF MastersIInv, MastersTypeOK
<1>2. ASSUME NEW c \in Categories, NEW state \in {"active", "inactive", "deleted"}, CategoryTurns(c, state)
      PROVE  MastersIInv'
  BY <1>1, <1>2 DEF CategoryTurns, MastersIInv, MastersTypeOK, MasterNamesAreUnique, LiveMaster
<1>3. ASSUME NEW i \in Masters, NEW state \in {"active", "inactive"}, NEW name \in MasterNames,
             NEW isSystem \in BOOLEAN, NEW c \in Categories, CreateMaster(i, state, isSystem, name, c)
      PROVE  MastersIInv'
  <2> DEFINE new == [state |-> state, isSystem |-> isSystem, name |-> name, categoryId |-> c]
  <2>1. new \in MasterRow /\ new.name = name /\ new.categoryId = c
    BY DEF MasterRow
  <2>2. /\ masters' = [masters EXCEPT ![i] = new] /\ UNCHANGED <<rules, categories>>
        /\ MasterNameFree(i, name, c)
    BY <1>3 DEF CreateMaster
  <2> HIDE DEF new
  <2> QED
    BY <2>1, <2>2, OneMaster
<1>4. ASSUME NEW i \in Masters, NEW state \in {"active", "inactive"}, NEW name \in MasterNames,
             UpdateMaster(i, state, name)
      PROVE  MastersIInv'
  <2> DEFINE new == [masters[i] EXCEPT !.state = state, !.name = name]
  <2>1. new \in MasterRow /\ new.name = name /\ new.categoryId = masters[i].categoryId
    BY <1>1 DEF MasterRow
  <2>2. masters' = [masters EXCEPT ![i] = new] /\ UNCHANGED <<rules, categories>>
    BY <1>1, <1>4 DEF UpdateMaster, MasterRow
  <2>3. LiveMaster(i) /\ (name # masters[i].name => MasterNameFree(i, name, masters[i].categoryId))
    BY <1>4 DEF UpdateMaster
  <2> HIDE DEF new
  <2> QED
    BY <2>1, <2>2, <2>3, OneMaster
<1>5. ASSUME NEW i \in Masters, EnableMaster(i) \/ DisableMaster(i) \/ RemoveMaster(i)
      PROVE  MastersIInv'
  <2>1. PICK state \in {"active", "inactive", "deleted"} :
          masters' = [masters EXCEPT ![i].state = state] /\ UNCHANGED <<rules, categories>> /\ LiveMaster(i)
    BY <1>5 DEF EnableMaster, DisableMaster, RemoveMaster, LiveMaster
  <2> DEFINE new == [masters[i] EXCEPT !.state = state]
  <2>2. /\ new \in MasterRow /\ new.name = masters[i].name /\ new.categoryId = masters[i].categoryId
        /\ new.state = state
    BY <1>1 DEF MasterRow
  <2>3. masters' = [masters EXCEPT ![i] = new]
    BY <1>1, <2>1 DEF MasterRow
  <2> HIDE DEF new
  <2> QED
    BY <2>1, <2>2, <2>3, OneMaster
<1>6. CASE UNCHANGED masterVars
  BY <1>6 DEF masterVars, MastersIInv, MastersTypeOK, MasterNamesAreUnique, LiveMaster
<1> QED
  BY <1>2, <1>3, <1>4, <1>5, <1>6 DEF MastersNext

\* The tables of the masters keep their types.
THEOREM MastersTypeCorrect == MastersSpec => []MastersTypeOK
<1>1. MastersIInv => MastersTypeOK
  BY DEF MastersIInv
<1> QED
  BY <1>1, MastersStart, MastersInductive, PTL DEF MastersSpec

\* No two live rows of a table that promises it, in one category, have one name.
THEOREM NamesStayUnique == MastersSpec => []MasterNamesAreUnique
<1>1. MastersIInv => MasterNamesAreUnique
  BY DEF MastersIInv
<1> QED
  BY <1>1, MastersStart, MastersInductive, PTL DEF MastersSpec

-----------------------------------------------------------------------------
(* OrgStructure. An activity is placed in a mapping that is there, under   *)
(* the department and the discipline of that mapping, and keeps all three; *)
(* a mapping that is there stays, deleted or not.                          *)

StructureIInv == StructureTypeOK /\ ActivityFollowsMapping

LEMMA StructureStart == StructureInit => StructureIInv
<1> SUFFICES ASSUME StructureInit PROVE StructureIInv
  OBVIOUS
<1>1. /\ (CHOOSE d \in Departments : TRUE) \in Departments
      /\ (CHOOSE x \in Disciplines : TRUE) \in Disciplines
      /\ (CHOOSE n \in ActivityNames : TRUE) \in ActivityNames
  BY StructureAssumption
<1>2. \A a \in Activities : activities[a] \in ActivityRow /\ activities[a].state = "absent"
  BY <1>1 DEF StructureInit, ActivityRow
<1>3. StructureTypeOK
  <2>1. activities \in [Activities -> ActivityRow]
    BY <1>2 DEF StructureInit
  <2>2. disciplines \in [Disciplines -> DisciplineRow]
    BY <1>1 DEF StructureInit, DisciplineRow, RowState
  <2> QED
    BY <2>1, <2>2 DEF StructureInit, StructureTypeOK, RowState
<1> QED
  BY <1>2, <1>3 DEF StructureIInv, ActivityFollowsMapping

\* A step that does not touch the activities, and deletes no mapping from its table.
LEMMA MappingsGrow ==
  ASSUME StructureIInv,
         departments' \in [Departments -> RowState], disciplines' \in [Disciplines -> DisciplineRow],
         mappings' \in [Departments -> [Disciplines -> RowState]],
         \A d \in Departments, x \in Disciplines : mappings[d][x] # "absent" => mappings'[d][x] # "absent",
         activities' = activities
  PROVE  StructureIInv'
<1>1. \A a \in Activities : activities[a].departmentId \in Departments /\ activities[a].disciplineId \in Disciplines
  BY DEF StructureIInv, StructureTypeOK, ActivityRow
<1> QED
  BY <1>1 DEF StructureIInv, StructureTypeOK, ActivityFollowsMapping

LEMMA OneMapping ==
  ASSUME StructureIInv, NEW d \in Departments, NEW x \in Disciplines, NEW state \in {"active", "inactive", "deleted"},
         mappings' = [mappings EXCEPT ![d][x] = state]
  PROVE  /\ mappings' \in [Departments -> [Disciplines -> RowState]]
         /\ mappings'[d][x] = state
         /\ \A c \in Departments, y \in Disciplines : mappings[c][y] # "absent" => mappings'[c][y] # "absent"
<1>1. mappings \in [Departments -> [Disciplines -> RowState]] /\ state \in RowState /\ state # "absent"
  BY DEF StructureIInv, StructureTypeOK, RowState
<1>2. mappings[d] \in [Disciplines -> RowState]
  BY <1>1
<1>3. [mappings[d] EXCEPT ![x] = state] \in [Disciplines -> RowState]
  BY <1>1, <1>2
<1> QED
  BY <1>1, <1>2, <1>3

\* Departments and disciplines come and go without a look at what hangs off them.
LEMMA DepartmentsKeep ==
  ASSUME StructureIInv, DepartmentStep \/ DisciplineStep
  PROVE  StructureIInv'
<1>1. /\ departments \in [Departments -> RowState] /\ disciplines \in [Disciplines -> DisciplineRow]
      /\ mappings \in [Departments -> [Disciplines -> RowState]]
  BY DEF StructureIInv, StructureTypeOK
<1>2. ASSUME NEW d \in Departments,
             \/ \E state \in {"active", "inactive"} : CreateDepartment(d, state) \/ UpdateDepartment(d, state)
             \/ RemoveDepartment(d)
      PROVE  StructureIInv'
  <2>1. departments' \in [Departments -> RowState] /\ UNCHANGED <<disciplines, mappings, activities>>
    BY <1>1, <1>2 DEF CreateDepartment, UpdateDepartment, RemoveDepartment, RowState
  <2> QED
    BY <1>1, <2>1, MappingsGrow
<1>3. ASSUME NEW x \in Disciplines,
             \/ \E d \in Departments, state \in {"active", "inactive"} :
                  CreateDiscipline(x, d, state) \/ UpdateDiscipline(x, d, state)
             \/ RemoveDiscipline(x)
      PROVE  StructureIInv'
  <2>1. /\ \E new \in DisciplineRow : disciplines' = [disciplines EXCEPT ![x] = new]
        /\ UNCHANGED <<departments, mappings, activities>>
    <3>1. ASSUME NEW d \in Departments, NEW state \in {"active", "inactive"}
          PROVE  [state |-> state, departmentId |-> d] \in DisciplineRow
      BY DEF DisciplineRow, RowState
    <3>2. /\ [disciplines[x] EXCEPT !.state = "deleted"] \in DisciplineRow
          /\ RemoveDiscipline(x) => disciplines' = [disciplines EXCEPT ![x] = [disciplines[x] EXCEPT !.state = "deleted"]]
      BY <1>1 DEF DisciplineRow, RowState, RemoveDiscipline
    <3> QED
      BY <1>3, <3>1, <3>2 DEF CreateDiscipline, UpdateDiscipline, RemoveDiscipline
  <2> QED
    BY <1>1, <2>1, MappingsGrow
<1> QED
  BY <1>2, <1>3 DEF DepartmentStep, DisciplineStep

LEMMA MappingStepKeeps ==
  ASSUME StructureIInv, MappingStep
  PROVE  StructureIInv'
<1>1. /\ departments \in [Departments -> RowState] /\ disciplines \in [Disciplines -> DisciplineRow]
      /\ mappings \in [Departments -> [Disciplines -> RowState]]
  BY DEF StructureIInv, StructureTypeOK
<1>2. ASSUME NEW d \in Departments, NEW x \in Disciplines,
             \/ \E state \in {"active", "inactive"} : CreateMapping(d, x, state) \/ UpdateMapping(d, x, state)
             \/ RemoveMapping(d, x)
      PROVE  StructureIInv'
  <2>1. /\ \E state \in {"active", "inactive", "deleted"} : mappings' = [mappings EXCEPT ![d][x] = state]
        /\ UNCHANGED <<departments, disciplines, activities>>
    BY <1>2 DEF CreateMapping, UpdateMapping, RemoveMapping
  <2> QED
    BY <1>1, <2>1, OneMapping, MappingsGrow
<1>3. ASSUME NEW d \in Departments, NEW listed \in SUBSET Disciplines, BulkCreateMappings(d, listed)
      PROVE  StructureIInv'
  <2> DEFINE row == [x \in Disciplines |-> IF x \in listed /\ mappings[d][x] = "absent" THEN "active" ELSE mappings[d][x]]
  <2>1. mappings' = [mappings EXCEPT ![d] = row] /\ UNCHANGED <<departments, disciplines, activities>>
    BY <1>3 DEF BulkCreateMappings
  <2>2. row \in [Disciplines -> RowState] /\ \A x \in Disciplines : mappings[d][x] # "absent" => row[x] # "absent"
    BY <1>1 DEF RowState
  <2> HIDE DEF row
  <2> QED
    BY <1>1, <2>1, <2>2, MappingsGrow
<1> QED
  BY <1>2, <1>3 DEF MappingStep

\* New activities in a mapping that is there.
LEMMA InsertKeeps ==
  ASSUME StructureIInv, NEW d \in Departments, NEW x \in Disciplines, NEW ids \in SUBSET Activities,
         NEW naming \in [ids -> ActivityNames], NEW isSystem \in BOOLEAN, Insert(<<d, x>>, ids, naming, isSystem),
         UNCHANGED <<departments, disciplines>>, mappings' \in [Departments -> [Disciplines -> RowState]],
         mappings'[d][x] # "absent",
         \A c \in Departments, y \in Disciplines : mappings[c][y] # "absent" => mappings'[c][y] # "absent"
  PROVE  StructureIInv'
<1>1. activities \in [Activities -> ActivityRow]
  BY DEF StructureIInv, StructureTypeOK
<1>2. ASSUME NEW a \in Activities
      PROVE  activities'[a] = IF a \in ids THEN Placed(<<d, x>>, naming[a], isSystem) ELSE activities[a]
  BY DEF Insert
<1>3. ASSUME NEW a \in ids
      PROVE  LET row == Placed(<<d, x>>, naming[a], isSystem)
             IN  row \in ActivityRow /\ row.mapping = <<d, x>> /\ row.departmentId = d /\ row.disciplineId = x
  BY DEF Placed, ActivityRow
<1>4. activities' \in [Activities -> ActivityRow]
  <2>1. \A a \in Activities : activities'[a] \in ActivityRow
    BY <1>1, <1>2, <1>3
  <2> QED
    BY <2>1 DEF Insert
<1>5. StructureTypeOK'
  BY <1>4 DEF StructureIInv, StructureTypeOK
<1>6. ASSUME NEW a \in Activities, activities'[a].state # "absent"
      PROVE  /\ activities'[a].mapping = <<activities'[a].departmentId, activities'[a].disciplineId>>
             /\ mappings'[activities'[a].departmentId][activities'[a].disciplineId] # "absent"
  <2>1. CASE a \in ids
    BY <1>2, <1>3, <2>1
  <2>2. CASE a \notin ids
    <3>1. activities[a].departmentId \in Departments /\ activities[a].disciplineId \in Disciplines
      BY <1>1 DEF ActivityRow
    <3> QED
      BY <1>2, <1>6, <2>2, <3>1 DEF StructureIInv, ActivityFollowsMapping
  <2> QED
    BY <2>1, <2>2
<1> QED
  BY <1>5, <1>6 DEF StructureIInv, ActivityFollowsMapping

LEMMA ActivityStepKeeps ==
  ASSUME StructureIInv, ActivityStep
  PROVE  StructureIInv'
<1>1. /\ disciplines \in [Disciplines -> DisciplineRow] /\ activities \in [Activities -> ActivityRow]
      /\ mappings \in [Departments -> [Disciplines -> RowState]]
  BY DEF StructureIInv, StructureTypeOK
<1>2. ASSUME NEW x \in Disciplines, NEW ids \in SUBSET Activities, NEW isSystem \in BOOLEAN,
             NEW naming \in [ids -> ActivityNames], CreateInDiscipline(x, ids, naming, isSystem)
      PROVE  StructureIInv'
  <2>1. disciplines[x].departmentId \in Departments
    BY <1>1 DEF DisciplineRow
  <2>2. /\ mappings' = [mappings EXCEPT ![disciplines[x].departmentId][x] = "active"]
        /\ Insert(<<disciplines[x].departmentId, x>>, ids, naming, isSystem)
        /\ UNCHANGED <<departments, disciplines>>
    BY <1>2 DEF CreateInDiscipline, Resolved
  <2>3. /\ mappings' \in [Departments -> [Disciplines -> RowState]]
        /\ mappings'[disciplines[x].departmentId][x] # "absent"
        /\ \A c \in Departments, y \in Disciplines : mappings[c][y] # "absent" => mappings'[c][y] # "absent"
    BY <2>1, <2>2, OneMapping
  <2> QED
    BY <2>1, <2>2, <2>3, InsertKeeps
<1>3. ASSUME NEW x \in Disciplines, NEW ids \in SUBSET Activities, NEW isSystem \in BOOLEAN,
             NEW naming \in [ids -> ActivityNames], NEW d \in Departments,
             CreateInMapping(d, x, ids, naming, isSystem)
      PROVE  StructureIInv'
  BY <1>1, <1>3, InsertKeeps DEF CreateInMapping
<1>4. ASSUME NEW a \in Activities,
             \/ \E name \in ActivityNames, isSystem \in BOOLEAN : UpdateActivity(a, name, isSystem)
             \/ RemoveActivity(a)
      PROVE  StructureIInv'
  <2>1. PICK new \in ActivityRow :
          /\ new.mapping = activities[a].mapping /\ new.departmentId = activities[a].departmentId
          /\ new.disciplineId = activities[a].disciplineId
          /\ activities' = [activities EXCEPT ![a] = new] /\ UNCHANGED <<departments, disciplines, mappings>>
    <3>1. ASSUME NEW name \in ActivityNames, NEW isSystem \in BOOLEAN, UpdateActivity(a, name, isSystem)
          PROVE  \E new \in ActivityRow :
                   /\ new.mapping = activities[a].mapping /\ new.departmentId = activities[a].departmentId
                   /\ new.disciplineId = activities[a].disciplineId
                   /\ activities' = [activities EXCEPT ![a] = new] /\ UNCHANGED <<departments, disciplines, mappings>>
      <4> DEFINE new == [activities[a] EXCEPT !.name = name, !.isSystem = isSystem]
      <4>1. /\ new \in ActivityRow /\ new.mapping = activities[a].mapping
            /\ new.departmentId = activities[a].departmentId /\ new.disciplineId = activities[a].disciplineId
        BY <1>1 DEF ActivityRow
      <4>2. activities' = [activities EXCEPT ![a] = new] /\ UNCHANGED <<departments, disciplines, mappings>>
        BY <1>1, <3>1 DEF UpdateActivity, ActivityRow
      <4> QED
        BY <4>1, <4>2
    <3>2. ASSUME RemoveActivity(a)
          PROVE  \E new \in ActivityRow :
                   /\ new.mapping = activities[a].mapping /\ new.departmentId = activities[a].departmentId
                   /\ new.disciplineId = activities[a].disciplineId
                   /\ activities' = [activities EXCEPT ![a] = new] /\ UNCHANGED <<departments, disciplines, mappings>>
      <4> DEFINE new == [activities[a] EXCEPT !.state = "deleted"]
      <4>1. /\ new \in ActivityRow /\ new.mapping = activities[a].mapping
            /\ new.departmentId = activities[a].departmentId /\ new.disciplineId = activities[a].disciplineId
        BY <1>1 DEF ActivityRow
      <4>2. activities' = [activities EXCEPT ![a] = new] /\ UNCHANGED <<departments, disciplines, mappings>>
        BY <1>1, <3>2 DEF RemoveActivity, ActivityRow
      <4> QED
        BY <4>1, <4>2
    <3> QED
      BY <1>4, <3>1, <3>2
  <2>2. activities' \in [Activities -> ActivityRow]
    BY <1>1, <2>1
  <2>3. activities[a].state = "live"
    BY <1>4 DEF UpdateActivity, RemoveActivity
  <2> QED
    BY <1>1, <2>1, <2>2, <2>3 DEF StructureIInv, StructureTypeOK, ActivityFollowsMapping
<1> QED
  BY <1>2, <1>3, <1>4 DEF ActivityStep

LEMMA StructureInductive == StructureIInv /\ [StructureNext]_structureVars => StructureIInv'
<1>1. StructureIInv /\ UNCHANGED structureVars => StructureIInv'
  BY DEF structureVars, StructureIInv, StructureTypeOK, ActivityFollowsMapping
<1> QED
  BY <1>1, DepartmentsKeep, MappingStepKeeps, ActivityStepKeeps DEF StructureNext

\* Departments, disciplines, mappings and activities keep their types.
THEOREM StructureTypeCorrect == StructureSpec => []StructureTypeOK
<1>1. StructureIInv => StructureTypeOK
  BY DEF StructureIInv
<1> QED
  BY <1>1, StructureStart, StructureInductive, PTL DEF StructureSpec

\* The department and discipline columns of an activity are those of its mapping, whose
\* row is there, whatever became of the discipline and of the mapping since.
THEOREM ActivityStaysWithMapping == StructureSpec => []ActivityFollowsMapping
<1>1. StructureIInv => ActivityFollowsMapping
  BY DEF StructureIInv
<1> QED
  BY <1>1, StructureStart, StructureInductive, PTL DEF StructureSpec

-----------------------------------------------------------------------------
(* MaterialPlacement. A group never leaves its category, so a plan that    *)
(* was validated stays true of the group it names while others write; a    *)
(* group that an import creates is created in the category of its rows.    *)

\* The groups that materials are in are there.
GroupsAreThere ==
  \A m \in Materials : filed[m].state # "absent" => materialGroups[filed[m].materialGroupId].state # "absent"

\* What a call has read of a group it found is still so.
PlansFit ==
  \A k \in Calls : \A row \in plans[k] : row.groupId # Missing =>
    /\ row.categoryId # Missing
    /\ materialGroups[row.groupId].state # "absent"
    /\ materialGroups[row.groupId].materialCategoryId = row.categoryId

PlacementIInv == PlacementTypeOK /\ PlacedTogether /\ GroupsAreThere /\ PlansFit

\* Groups that are there stay, and in their category.
GroupsStay ==
  \A g \in GroupIds : materialGroups[g].state # "absent" =>
    /\ materialGroups'[g].state # "absent"
    /\ materialGroups'[g].materialCategoryId = materialGroups[g].materialCategoryId

LEMMA PlacementStart == PlacementInit => PlacementIInv
<1> SUFFICES ASSUME PlacementInit PROVE PlacementIInv
  OBVIOUS
<1>1. /\ (CHOOSE w \in Words : TRUE) \in Words /\ (CHOOSE c \in CategoryIds : TRUE) \in CategoryIds
      /\ (CHOOSE g \in GroupIds : TRUE) \in GroupIds
  BY PlacementAssumption
<1>2. PlacementTypeOK
  BY <1>1 DEF PlacementInit, PlacementTypeOK, CategoryRow, GroupRow, FiledRow, MasterStates
<1>3. (\A m \in Materials : filed[m].state = "absent") /\ (\A k \in Calls : plans[k] = {})
  BY DEF PlacementInit
<1> QED
  BY <1>2, <1>3 DEF PlacementIInv, PlacedTogether, GroupsAreThere, PlansFit

\* What remains to be said of a step that keeps the groups that are there.
LEMMA PlacementKeeps ==
  ASSUME PlacementIInv, GroupsStay,
         materialCategories' \in [CategoryIds -> CategoryRow], materialGroups' \in [GroupIds -> GroupRow],
         filed' \in [Materials -> FiledRow], plans' \in [Calls -> SUBSET PlannedRow],
         \A m \in Materials : filed'[m].state # "absent" =>
           \/ /\ filed[m].state # "absent"
              /\ filed'[m].materialGroupId = filed[m].materialGroupId
              /\ filed'[m].materialCategoryId = filed[m].materialCategoryId
           \/ /\ materialGroups'[filed'[m].materialGroupId].state # "absent"
              /\ materialGroups'[filed'[m].materialGroupId].materialCategoryId = filed'[m].materialCategoryId,
         \A k \in Calls : \A row \in plans'[k] : row.groupId # Missing =>
           \/ row \in plans[k]
           \/ /\ row.categoryId # Missing
              /\ materialGroups[row.groupId].state # "absent"
              /\ materialGroups[row.groupId].materialCategoryId = row.categoryId
  PROVE  PlacementIInv'
<1>1. PlacementTypeOK'
  BY DEF PlacementTypeOK
<1>2. \A m \in Materials : filed[m].materialGroupId \in GroupIds
  BY DEF PlacementIInv, PlacementTypeOK, FiledRow
<1>3. PlacedTogether' /\ GroupsAreThere'
  BY <1>2 DEF PlacementIInv, PlacedTogether, GroupsAreThere, GroupsStay
<1>4. ASSUME NEW k \in Calls, NEW row \in plans'[k], row.groupId # Missing
      PROVE  /\ row.categoryId # Missing
             /\ materialGroups'[row.groupId].state # "absent"
             /\ materialGroups'[row.groupId].materialCategoryId = row.categoryId
  <2>1. row.groupId \in GroupIds
    BY <1>4 DEF PlannedRow
  <2> QED
    BY <1>4, <2>1 DEF PlacementIInv, PlansFit, GroupsStay
<1> QED
  BY <1>1, <1>3, <1>4 DEF PlacementIInv, PlansFit

\* The masters by their own services.
LEMMA MastersMove ==
  ASSUME PlacementIInv,
         \/ \E c \in CategoryIds, word \in Words :
              NewCategory(c, word) \/ \E g \in GroupIds : NewGroup(g, word, c)
         \/ \E c \in CategoryIds, state \in {"active", "inactive", "deleted"} : CategoryMoves(c, state)
         \/ \E g \in GroupIds, state \in {"active", "inactive", "deleted"} : GroupMoves(g, state)
  PROVE  PlacementIInv'
<1>1. /\ materialCategories \in [CategoryIds -> CategoryRow] /\ materialGroups \in [GroupIds -> GroupRow]
      /\ filed \in [Materials -> FiledRow] /\ plans \in [Calls -> SUBSET PlannedRow]
  BY DEF PlacementIInv, PlacementTypeOK
<1>2. ASSUME NEW c \in CategoryIds,
             \/ \E word \in Words : NewCategory(c, word)
             \/ \E state \in {"active", "inactive", "deleted"} : CategoryMoves(c, state)
      PROVE  PlacementIInv'
  <2>1. PICK new \in CategoryRow : materialCategories' = [materialCategories EXCEPT ![c] = new]
    <3>1. ASSUME NEW word \in Words
          PROVE  [state |-> "active", name |-> word] \in CategoryRow
      BY DEF CategoryRow, MasterStates
    <3>2. ASSUME NEW state \in {"active", "inactive", "deleted"}
          PROVE  /\ [materialCategories[c] EXCEPT !.state = state] \in CategoryRow
                 /\ [materialCategories EXCEPT ![c].state = state]
                      = [materialCategories EXCEPT ![c] = [materialCategories[c] EXCEPT !.state = state]]
      BY <1>1 DEF CategoryRow, MasterStates
    <3> QED
      BY <1>2, <3>1, <3>2 DEF NewCategory, CategoryMoves
  <2>2. UNCHANGED <<materialGroups, filed, plans>>
    BY <1>2 DEF NewCategory, CategoryMoves
  <2> QED
    BY <1>1, <2>1, <2>2, PlacementKeeps DEF GroupsStay
<1>3. ASSUME NEW g \in GroupIds,
             \/ \E c \in CategoryIds, word \in Words : NewGroup(g, word, c)
             \/ \E state \in {"active", "inactive", "deleted"} : GroupMoves(g, state)
      PROVE  PlacementIInv'
  <2>1. PICK new \in GroupRow :
          /\ materialGroups' = [materialGroups EXCEPT ![g] = new]
          /\ materialGroups[g].state # "absent" =>
               new.state # "absent" /\ new.materialCategoryId = materialGroups[g].materialCategoryId
    <3>1. ASSUME NEW c \in CategoryIds, NEW word \in Words
          PROVE  [state |-> "active", name |-> word, materialCategoryId |-> c] \in GroupRow
      BY DEF GroupRow, MasterStates
    <3>2. ASSUME NEW state \in {"active", "inactive", "deleted"}
          PROVE  LET new == [materialGroups[g] EXCEPT !.state = state]
                 IN  /\ new \in GroupRow /\ new.state = state
                     /\ new.materialCategoryId = materialGroups[g].materialCategoryId
                     /\ [materialGroups EXCEPT ![g].state = state] = [materialGroups EXCEPT ![g] = new]
      BY <1>1 DEF GroupRow, MasterStates
    <3> QED
      BY <1>3, <3>1, <3>2 DEF NewGroup, GroupMoves
  <2>2. UNCHANGED <<materialCategories, filed, plans>>
    BY <1>3 DEF NewGroup, GroupMoves
  <2>3. GroupsStay /\ materialGroups' \in [GroupIds -> GroupRow]
    BY <1>1, <2>1 DEF GroupsStay
  <2> QED
    BY <1>1, <2>2, <2>3, PlacementKeeps
<1> QED
  BY <1>2, <1>3

\* Calls that read: a request names ids that were validated or those the material has,
\* a file names words.
LEMMA PlanKeeps ==
  ASSUME PlacementIInv, NEW k \in Calls, NEW rows \in SUBSET PlannedRow, Plan(k, rows),
         \A row \in rows : row.groupId # Missing =>
           /\ row.categoryId # Missing
           /\ materialGroups[row.groupId].state # "absent"
           /\ materialGroups[row.groupId].materialCategoryId = row.categoryId
  PROVE  PlacementIInv'
<1>1. /\ materialCategories \in [CategoryIds -> CategoryRow] /\ materialGroups \in [GroupIds -> GroupRow]
      /\ filed \in [Materials -> FiledRow] /\ plans \in [Calls -> SUBSET PlannedRow]
  BY DEF PlacementIInv, PlacementTypeOK
<1>2. plans' = [plans EXCEPT ![k] = rows] /\ UNCHANGED <<materialCategories, materialGroups, filed>>
  BY DEF Plan
<1> QED
  BY <1>1, <1>2, PlacementKeeps DEF GroupsStay

LEMMA ReadKeeps ==
  ASSUME PlacementIInv, NEW k \in Calls,
         \/ \E m \in Materials, c \in CategoryIds, g \in GroupIds : ReadPlacement(k, m, c, g)
         \/ \E named \in SUBSET Materials \ {{}} : \E file \in [named -> Words \X Words] : ReadFile(k, file)
  PROVE  PlacementIInv'
<1>1. /\ materialCategories \in [CategoryIds -> CategoryRow] /\ materialGroups \in [GroupIds -> GroupRow]
      /\ filed \in [Materials -> FiledRow] /\ plans \in [Calls -> SUBSET PlannedRow]
  BY DEF PlacementIInv, PlacementTypeOK
<1>2. ASSUME NEW m \in Materials, NEW c \in CategoryIds, NEW g \in GroupIds, ReadPlacement(k, m, c, g)
      PROVE  PlacementIInv'
  <2> DEFINE row == [material |-> m, categoryName |-> materialCategories[c].name, categoryId |-> c,
                     groupName |-> materialGroups[g].name, groupId |-> g]
  <2>1. row \in PlannedRow /\ row.categoryId = c /\ row.groupId = g
    BY <1>1 DEF PlannedRow, CategoryRow, GroupRow
  <2>2. materialGroups[g].state # "absent" /\ materialGroups[g].materialCategoryId = c
    BY <1>2 DEF ReadPlacement, Placeable, PlacementIInv, PlacedTogether, GroupsAreThere
  <2>3. Plan(k, {row})
    BY <1>2 DEF ReadPlacement
  <2> HIDE DEF row
  <2> QED
    BY <2>1, <2>2, <2>3, PlanKeeps, PlacementAssumption
<1>3. ASSUME NEW named \in SUBSET Materials \ {{}}, NEW file \in [named -> Words \X Words], ReadFile(k, file)
      PROVE  PlacementIInv'
  <2>1. PICK rows \in SUBSET UNION {Understood(m, file[m][1], file[m][2]) : m \in DOMAIN file} : Plan(k, rows)
    BY <1>3 DEF ReadFile
  <2>2. \A row \in rows : \E m \in DOMAIN file : row \in Understood(m, file[m][1], file[m][2])
    BY <2>1
  <2>3. ASSUME NEW m, NEW categoryWord, NEW groupWord, NEW row \in Understood(m, categoryWord, groupWord)
        PROVE  /\ row \in PlannedRow
               /\ row.groupId # Missing =>
                    /\ row.categoryId # Missing
                    /\ materialGroups[row.groupId].state # "absent"
                    /\ materialGroups[row.groupId].materialCategoryId = row.categoryId
    BY <2>3 DEF Understood, FoundGroups, LiveStates
  <2> QED
    BY <2>1, <2>2, <2>3, PlanKeeps
<1> QED
  BY <1>2, <1>3

\* An import or a request writes its rows: what was missing is created, each missing
\* group in the category of the rows that lack it.
LEMMA WriteKeeps ==
  ASSUME PlacementIInv, NEW k \in Calls, WritePlan(k)
  PROVE  PlacementIInv'
<1> DEFINE rows == plans[k]
           lackedCategories == {row.categoryName : row \in {r \in rows : r.categoryId = Missing}}
<1>1. /\ materialCategories \in [CategoryIds -> CategoryRow] /\ materialGroups \in [GroupIds -> GroupRow]
      /\ filed \in [Materials -> FiledRow] /\ plans \in [Calls -> SUBSET PlannedRow] /\ rows \subseteq PlannedRow
  BY DEF PlacementIInv, PlacementTypeOK
<1>2. PICK newCategory \in [lackedCategories -> {c \in CategoryIds : materialCategories[c].state = "absent"}] :
        LET CategoryOf(row) == IF row.categoryId = Missing THEN newCategory[row.categoryName] ELSE row.categoryId
            lackedGroups == {<<CategoryOf(row), row.groupName>> : row \in {r \in rows : r.groupId = Missing}}
        IN  /\ \E newGroup \in [lackedGroups -> {g \in GroupIds : materialGroups[g].state = "absent"}] :
                 LET GroupOf(row) == IF row.groupId = Missing THEN newGroup[<<CategoryOf(row), row.groupName>>]
                                     ELSE row.groupId
                 IN  /\ \A v, w \in lackedGroups : newGroup[v] = newGroup[w] => v = w
                     /\ materialGroups' =
                          [g \in GroupIds |->
                             IF \E v \in lackedGroups : newGroup[v] = g
                             THEN LET v == CHOOSE v \in lackedGroups : newGroup[v] = g
                                  IN  [state |-> "active", name |-> v[2], materialCategoryId |-> v[1]]
                             ELSE materialGroups[g]]
                     /\ filed' =
                          [m \in Materials |->
                             IF \E row \in rows : row.material = m
                             THEN LET row == CHOOSE row \in rows : row.material = m
                                  IN  [state |-> "live", materialCategoryId |-> CategoryOf(row),
                                       materialGroupId |-> GroupOf(row)]
                             ELSE filed[m]]
            /\ materialCategories' =
                 [c \in CategoryIds |->
                    IF \E v \in lackedCategories : newCategory[v] = c
                    THEN [state |-> "active", name |-> CHOOSE v \in lackedCategories : newCategory[v] = c]
                    ELSE materialCategories[c]]
  BY Zenon DEF WritePlan
<1> DEFINE CategoryOf(row) == IF row.categoryId = Missing THEN newCategory[row.categoryName] ELSE row.categoryId
           lackedGroups == {<<CategoryOf(row), row.groupName>> : row \in {r \in rows : r.groupId = Missing}}
<1>3. PICK newGroup \in [lackedGroups -> {g \in GroupIds : materialGroups[g].state = "absent"}] :
        LET GroupOf(row) == IF row.groupId = Missing THEN newGroup[<<CategoryOf(row), row.groupName>>]
                            ELSE row.groupId
        IN  /\ \A v, w \in lackedGroups : newGroup[v] = newGroup[w] => v = w
            /\ materialGroups' =
                 [g \in GroupIds |->
                    IF \E v \in lackedGroups : newGroup[v] = g
                    THEN LET v == CHOOSE v \in lackedGroups : newGroup[v] = g
                         IN  [state |-> "active", name |-> v[2], materialCategoryId |-> v[1]]
                    ELSE materialGroups[g]]
            /\ filed' =
                 [m \in Materials |->
                    IF \E row \in rows : row.material = m
                    THEN LET row == CHOOSE row \in rows : row.material = m
                         IN  [state |-> "live", materialCategoryId |-> CategoryOf(row),
                              materialGroupId |-> GroupOf(row)]
                    ELSE filed[m]]
  BY <1>2, Zenon
<1> DEFINE GroupOf(row) == IF row.groupId = Missing THEN newGroup[<<CategoryOf(row), row.groupName>>]
                           ELSE row.groupId
           Holder(g) == CHOOSE v \in lackedGroups : newGroup[v] = g
           RowOf(m) == CHOOSE row \in rows : row.material = m
<1>4. \A g \in GroupIds : materialGroups'[g] =
        IF \E v \in lackedGroups : newGroup[v] = g
        THEN [state |-> "active", name |-> Holder(g)[2], materialCategoryId |-> Holder(g)[1]]
        ELSE materialGroups[g]
  BY <1>3, Zenon
<1>5. \A m \in Materials : filed'[m] =
        IF \E row \in rows : row.material = m
        THEN [state |-> "live", materialCategoryId |-> CategoryOf(RowOf(m)), materialGroupId |-> GroupOf(RowOf(m))]
        ELSE filed[m]
  BY <1>3, Zenon
<1>6. \A c \in lackedCategories : newCategory[c] \in CategoryIds /\ c \in Words
  BY <1>1 DEF PlannedRow
<1>7. \A row \in rows : CategoryOf(row) \in CategoryIds /\ row.groupName \in Words
  BY <1>1, <1>6 DEF PlannedRow
<1>8. \A v \in lackedGroups : /\ v[1] \in CategoryIds /\ v[2] \in Words
                              /\ newGroup[v] \in GroupIds /\ materialGroups[newGroup[v]].state = "absent"
  BY <1>7
<1>9. \A row \in rows : row.groupId = Missing => <<CategoryOf(row), row.groupName>> \in lackedGroups
  OBVIOUS
<1>10. \A v, w \in lackedGroups : newGroup[v] = newGroup[w] => v = w
  BY <1>3, Zenon
<1>11. \A v \in lackedGroups : Holder(newGroup[v]) = v
  BY <1>10
<1>12. \A m \in Materials : (\E row \in rows : row.material = m) => RowOf(m) \in rows
  OBVIOUS
<1>13. materialCategories' \in [CategoryIds -> CategoryRow]
  <2> DEFINE NameOf(c) == CHOOSE v \in lackedCategories : newCategory[v] = c
  <2>1. materialCategories' =
          [c \in CategoryIds |->
             IF \E v \in lackedCategories : newCategory[v] = c
             THEN [state |-> "active", name |-> NameOf(c)]
             ELSE materialCategories[c]]
    BY <1>2, Zenon
  <2>2. \A c \in CategoryIds : (\E v \in lackedCategories : newCategory[v] = c) => NameOf(c) \in Words
    BY <1>6
  <2> HIDE DEF NameOf, lackedCategories
  <2> QED
    BY <1>1, <2>1, <2>2 DEF CategoryRow, MasterStates
<1>14. plans' = [plans EXCEPT ![k] = {}]
  BY DEF WritePlan
<1>15. DOMAIN filed' = Materials /\ filed' = [m \in Materials |-> filed'[m]]
  BY <1>3
<1>16. materialGroups' = [g \in GroupIds |-> materialGroups'[g]]
  BY <1>3
<1> HIDE DEF Holder, RowOf, lackedGroups, lackedCategories, CategoryOf
<1>17. GroupsStay
  BY <1>4, <1>8 DEF GroupsStay
<1>18. materialGroups' \in [GroupIds -> GroupRow]
  <2>1. ASSUME NEW g \in GroupIds
        PROVE  materialGroups'[g] \in GroupRow
    <3>1. CASE \E v \in lackedGroups : newGroup[v] = g
      <4>1. PICK v \in lackedGroups : newGroup[v] = g
        BY <3>1
      <4>2. materialGroups'[g] = [state |-> "active", name |-> v[2], materialCategoryId |-> v[1]]
        BY <1>4, <1>11, <4>1
      <4> QED
        BY <1>8, <4>2 DEF GroupRow, MasterStates
    <3>2. CASE ~\E v \in lackedGroups : newGroup[v] = g
      BY <1>1, <1>4, <3>2
    <3> QED
      BY <3>1, <3>2
  <2> QED
    BY <1>16, <2>1
<1>19. ASSUME NEW row \in rows
       PROVE  /\ GroupOf(row) \in GroupIds
              /\ materialGroups'[GroupOf(row)].state # "absent"
              /\ materialGroups'[GroupOf(row)].materialCategoryId = CategoryOf(row)
  <2>1. CASE row.groupId = Missing
    <3> DEFINE v == <<CategoryOf(row), row.groupName>>
    <3>1. v \in lackedGroups /\ GroupOf(row) = newGroup[v] /\ v[1] = CategoryOf(row)
      BY <1>9, <2>1
    <3> HIDE DEF v
    <3>2. newGroup[v] \in GroupIds /\ Holder(newGroup[v]) = v
      BY <1>8, <1>11, <3>1
    <3>3. materialGroups'[newGroup[v]] = [state |-> "active", name |-> v[2], materialCategoryId |-> v[1]]
      BY <1>4, <3>1, <3>2
    <3> QED
      BY <3>1, <3>2, <3>3
  <2>2. CASE row.groupId # Missing
    <3>1. /\ row.groupId \in GroupIds /\ CategoryOf(row) = row.categoryId
          /\ materialGroups[row.groupId].state # "absent"
          /\ materialGroups[row.groupId].materialCategoryId = row.categoryId
      BY <1>1, <2>2 DEF PlacementIInv, PlansFit, PlannedRow, CategoryOf
    <3> QED
      BY <1>17, <2>2, <3>1 DEF GroupsStay
  <2> QED
    BY <2>1, <2>2
<1> HIDE DEF GroupOf
<1>20. ASSUME NEW m \in Materials
       PROVE  \/ filed'[m] = filed[m]
              \/ /\ filed'[m] \in FiledRow
                 /\ materialGroups'[filed'[m].materialGroupId].state # "absent"
                 /\ materialGroups'[filed'[m].materialGroupId].materialCategoryId = filed'[m].materialCategoryId
  <2>1. CASE \E row \in rows : row.material = m
    <3>1. /\ RowOf(m) \in rows
          /\ filed'[m] = [state |-> "live", materialCategoryId |-> CategoryOf(RowOf(m)),
                          materialGroupId |-> GroupOf(RowOf(m))]
      BY <1>5, <1>12, <2>1
    <3> QED
      BY <1>7, <1>19, <3>1 DEF FiledRow
  <2>2. CASE ~\E row \in rows : row.material = m
    BY <1>5, <2>2
  <2> QED
    BY <2>1, <2>2
<1>21. filed' \in [Materials -> FiledRow]
  BY <1>1, <1>15, <1>20
<1>22. /\ plans' \in [Calls -> SUBSET PlannedRow]
       /\ \A j \in Calls : \A row \in plans'[j] : row \in plans[j]
  BY <1>1, <1>14
<1> HIDE DEF rows
<1> QED
  BY <1>13, <1>17, <1>18, <1>20, <1>21, <1>22, PlacementKeeps

LEMMA PlacementInductive == PlacementIInv /\ [PlacementNext]_placementVars => PlacementIInv'
<1> SUFFICES ASSUME PlacementIInv, [PlacementNext]_placementVars PROVE PlacementIInv'
  OBVIOUS
<1>1. /\ materialCategories \in [CategoryIds -> CategoryRow] /\ materialGroups \in [GroupIds -> GroupRow]
      /\ filed \in [Materials -> FiledRow] /\ plans \in [Calls -> SUBSET PlannedRow]
  BY DEF PlacementIInv, PlacementTypeOK
<1>2. ASSUME NEW k \in Calls, Abandon(k)
      PROVE  PlacementIInv'
  BY <1>1, <1>2, PlacementKeeps DEF Abandon, GroupsStay
<1>3. ASSUME NEW m \in Materials, Unfile(m)
      PROVE  PlacementIInv'
  <2> DEFINE new == [filed[m] EXCEPT !.state = "deleted"]
  <2>1. /\ new \in FiledRow /\ new.materialCategoryId = filed[m].materialCategoryId
        /\ new.materialGroupId = filed[m].materialGroupId
    BY <1>1 DEF FiledRow
  <2>2. /\ filed' = [filed EXCEPT ![m] = new] /\ filed[m].state = "live"
        /\ UNCHANGED <<materialCategories, materialGroups, plans>>
    BY <1>1, <1>3 DEF Unfile, FiledRow
  <2> HIDE DEF new
  <2> QED
    BY <1>1, <2>1, <2>2, PlacementKeeps DEF GroupsStay
<1>4. CASE UNCHANGED placementVars
  BY <1>4 DEF placementVars, PlacementIInv, PlacementTypeOK, PlacedTogether, GroupsAreThere, PlansFit
<1> QED
  BY <1>2, <1>3, <1>4, MastersMove, ReadKeeps, WriteKeeps DEF PlacementNext

\* Categories, groups, materials and the plans of the calls under way keep their types.
THEOREM PlacementTypeCorrect == PlacementSpec => []PlacementTypeOK
<1>1. PlacementIInv => PlacementTypeOK
  BY DEF PlacementIInv
<1> QED
  BY <1>1, PlacementStart, PlacementInductive, PTL DEF PlacementSpec

\* Whichever imports and requests overtake each other, a material is in a group of its
\* own category.
THEOREM PlacedStaysTogether == PlacementSpec => []PlacedTogether
<1>1. PlacementIInv => PlacedTogether
  BY DEF PlacementIInv
<1> QED
  BY <1>1, PlacementStart, PlacementInductive, PTL DEF PlacementSpec

-----------------------------------------------------------------------------
(* VendorRecords. A number is never higher than there are rows, so that    *)
(* there is always a next one; and the current document of a singleton type*)
(* has the highest of its type.                                            *)

Filed(docs) == {d \in DocumentIds : docs[d].state # "absent"}

CurrentIsTop(docs) ==
  \A d \in Current(docs, "singleton"), b \in OfType(docs, "singleton") :
    /\ docs[b].version <= docs[d].version
    /\ b # d => docs[b].state # "current"

DocumentsFit(docs) ==
  /\ docs \in [DocumentIds -> DocumentRow]
  /\ \A d \in Filed(docs) : docs[d].version <= Cardinality(Filed(docs))
  /\ CurrentIsTop(docs)

RecordsIInv == RecordsTypeOK /\ DocumentsFit(documents) /\ VerifiedIsVouched

LEMMA FiledCount ==
  ASSUME NEW docs
  PROVE  /\ IsFiniteSet(Filed(docs)) /\ Cardinality(Filed(docs)) \in Nat
         /\ Cardinality(Filed(docs)) <= Cardinality(DocumentIds)
         /\ Cardinality(DocumentIds) \in Nat
<1>1. Filed(docs) \subseteq DocumentIds
  BY DEF Filed
<1> QED
  BY <1>1, RecordsAssumption, FS_Subset, FS_CardinalityType

\* A row more.
LEMMA OneMoreFiled ==
  ASSUME NEW docs, NEW new, NEW d \in DocumentIds, docs[d].state = "absent",
         Filed(new) = Filed(docs) \cup {d}
  PROVE  /\ Cardinality(Filed(new)) = Cardinality(Filed(docs)) + 1
         /\ Cardinality(Filed(docs)) + 1 <= Cardinality(DocumentIds)
<1>1. d \notin Filed(docs)
  BY DEF Filed
<1>2. Cardinality(Filed(new)) = Cardinality(Filed(docs)) + 1
  BY <1>1, FiledCount, FS_AddElement
<1> QED
  BY <1>2, FiledCount

\* nextDocumentVersion is one more than the highest there is.
LEMMA NextVersion ==
  ASSUME NEW docs, DocumentsFit(docs), NEW type \in DocumentTypes
  PROVE  LET n == NextDocumentVersion(docs, type)
         IN  /\ n \in Nat /\ 1 <= n /\ n <= Cardinality(Filed(docs)) + 1
             /\ \A d \in OfType(docs, type) : docs[d].version < n
<1> DEFINE N == Cardinality(DocumentIds)
           Above == {n \in Nat : \A d \in OfType(docs, type) : docs[d].version < n}
           IsNext(n) == /\ \A d \in OfType(docs, type) : docs[d].version < n
                        /\ n = 1 \/ \E d \in OfType(docs, type) : docs[d].version = n - 1
<1>1. N \in Nat /\ Cardinality(Filed(docs)) \in Nat /\ Cardinality(Filed(docs)) <= N
  BY FiledCount
<1>2. \A d \in OfType(docs, type) : docs[d].version \in Nat /\ docs[d].version <= Cardinality(Filed(docs))
  BY <1>1 DEF DocumentsFit, OfType, Filed, DocumentRow, Numbers
<1>3. Cardinality(Filed(docs)) + 1 \in Above
  BY <1>1, <1>2
<1>4. PICK m \in Above : \A k \in Above : m <= k
  <2> HIDE DEF Above
  <2>1. Above \in SUBSET Nat
    BY DEF Above
  <2> QED
    BY <1>3, <2>1, LeastOf
<1>5. \E n \in 1..N + 1 : IsNext(n)
  <2>1. CASE m <= 1
    <3>1. \A d \in OfType(docs, type) : docs[d].version < 1
      BY <1>2, <2>1
    <3>2. IsNext(1) /\ 1 \in 1..N + 1
      BY <1>1, <3>1
    <3> QED
      BY <3>2
  <2>2. CASE m > 1
    <3>1. m - 1 \in Nat /\ m - 1 \notin Above
      BY <1>4, <2>2
    <3>2. PICK d \in OfType(docs, type) : ~(docs[d].version < m - 1)
      BY <3>1
    <3>3. docs[d].version = m - 1
      BY <1>2, <3>1, <3>2
    <3>4. m \in 1..N + 1
      BY <1>1, <1>2, <2>2, <3>3
    <3> QED
      BY <3>3, <3>4
  <2> QED
    BY <2>1, <2>2
<1>6. NextDocumentVersion(docs, type) \in 1..N + 1 /\ IsNext(NextDocumentVersion(docs, type))
  <2>1. NextDocumentVersion(docs, type) = CHOOSE n \in 1..N + 1 : IsNext(n)
    BY DEF NextDocumentVersion
  <2> HIDE DEF IsNext
  <2> QED
    BY <1>5, <2>1
<1> QED
  BY <1>1, <1>2, <1>6

LEMMA SupersedeFits ==
  ASSUME NEW docs, DocumentsFit(docs), NEW d \in DocumentIds, docs[d].state = "absent",
         NEW previous \in DocumentIds, docs[previous].state = "current",
         NEW new, new = Supersede(docs, d, previous)
  PROVE  DocumentsFit(new)
<1> DEFINE top == [state |-> "current", documentType |-> docs[previous].documentType,
                   version |-> docs[previous].version + 1]
<1>1. docs \in [DocumentIds -> DocumentRow] /\ d # previous /\ previous \in Filed(docs)
  BY DEF DocumentsFit, Filed
<1>2. /\ Cardinality(DocumentIds) \in Nat /\ Cardinality(Filed(docs)) \in Nat
      /\ docs[previous].version \in Nat /\ docs[previous].version <= Cardinality(Filed(docs))
  BY <1>1, FiledCount DEF DocumentsFit, DocumentRow, Numbers
<1>3. /\ new[d] = top
      /\ new[previous] = [docs[previous] EXCEPT !.state = "superseded"]
      /\ \A b \in DocumentIds \ {d, previous} : new[b] = docs[b]
  BY <1>1 DEF Supersede
<1>4. Filed(new) = Filed(docs) \cup {d}
  <2>1. new[d].state = "current" /\ new[previous].state = "superseded"
    BY <1>1, <1>3 DEF DocumentRow
  <2> QED
    BY <1>1, <1>3, <2>1 DEF Filed
<1>5. /\ Cardinality(Filed(new)) = Cardinality(Filed(docs)) + 1
      /\ Cardinality(Filed(docs)) + 1 <= Cardinality(DocumentIds)
  BY <1>4, OneMoreFiled
<1>6. top \in DocumentRow /\ [docs[previous] EXCEPT !.state = "superseded"] \in DocumentRow
  BY <1>1, <1>2, <1>5 DEF DocumentRow, Numbers
<1>7. new \in [DocumentIds -> DocumentRow]
  BY <1>1, <1>6 DEF Supersede
<1>8. \A b \in DocumentIds \ {d} : /\ new[b].version = docs[b].version
                                  /\ new[b].documentType = docs[b].documentType
  BY <1>1, <1>3 DEF DocumentRow
<1>12. \A b \in DocumentIds \ {d, previous} : new[b].state = docs[b].state
  BY <1>3
<1>13. new[previous].state = "superseded"
  BY <1>1, <1>3 DEF DocumentRow
<1>9. /\ new[d].version = docs[previous].version + 1 /\ new[d].state = "current"
      /\ new[d].documentType = docs[previous].documentType
  BY <1>3
<1> HIDE DEF top
<1>10. ASSUME NEW b \in Filed(new)
       PROVE  new[b].version <= Cardinality(Filed(new))
  <2>1. CASE b = d
    BY <1>2, <1>5, <1>9, <2>1
  <2>2. CASE b # d
    <3>1. b \in Filed(docs) /\ docs[b].version <= Cardinality(Filed(docs)) /\ docs[b].version \in Nat
      BY <1>1, <1>2, <1>4, <2>2 DEF DocumentsFit, Filed, DocumentRow, Numbers
    <3> QED
      BY <1>2, <1>5, <1>8, <2>2, <3>1 DEF Filed
  <2> QED
    BY <2>1, <2>2
<1>11. CurrentIsTop(new)
  <2>1. ASSUME NEW c \in Current(new, "singleton"), NEW b \in OfType(new, "singleton")
        PROVE  new[b].version <= new[c].version /\ (b # c => new[b].state # "current")
    <3>0. /\ \A x \in DocumentIds : docs[x].version \in Nat
          /\ c \in DocumentIds /\ b \in DocumentIds
          /\ new[c].state = "current" /\ new[c].documentType = "singleton"
          /\ new[b].state # "absent" /\ new[b].documentType = "singleton"
          /\ CurrentIsTop(docs)
      BY <1>1 DEF DocumentsFit, DocumentRow, Numbers, Current, OfType
    <3>1. CASE docs[previous].documentType = "singleton"
      <4>0. previous \in Current(docs, "singleton")
        BY <1>1, <3>1 DEF Current, OfType
      <4>1. \A x \in DocumentIds \ {d, previous} :
              docs[x].documentType = "singleton" /\ docs[x].state # "absent"
                => docs[x].state # "current" /\ docs[x].version <= docs[previous].version
        BY <3>0, <4>0 DEF CurrentIsTop, OfType
      <4>2. c = d
        BY <1>8, <1>12, <1>13, <3>0, <4>1
      <4> QED
        BY <1>8, <1>9, <1>12, <1>13, <3>0, <4>1, <4>2
    <3>2. CASE docs[previous].documentType # "singleton"
      <4>1. c \notin {d, previous} /\ b \notin {d, previous}
        BY <1>1, <1>8, <1>9, <1>13, <3>0, <3>2
      <4>2. c \in Current(docs, "singleton") /\ b \in OfType(docs, "singleton")
        BY <1>8, <1>12, <3>0, <4>1 DEF Current, OfType
      <4> QED
        BY <1>8, <1>12, <3>0, <4>1, <4>2 DEF CurrentIsTop
    <3> QED
      BY <3>1, <3>2
  <2> QED
    BY <2>1 DEF CurrentIsTop
<1> QED
  BY <1>7, <1>10, <1>11 DEF DocumentsFit

LEMMA FileBesideFits ==
  ASSUME NEW docs, DocumentsFit(docs), NEW d \in DocumentIds, docs[d].state = "absent", NEW type \in DocumentTypes,
         type = "singleton" => Current(docs, type) = {},
         NEW new, new = FileBeside(docs, d, type)
  PROVE  DocumentsFit(new)
<1> DEFINE n == NextDocumentVersion(docs, type)
<1>1. /\ docs \in [DocumentIds -> DocumentRow] /\ CurrentIsTop(docs)
      /\ \A x \in DocumentIds : docs[x].version \in Nat
      /\ \A x \in Filed(docs) : docs[x].version <= Cardinality(Filed(docs))
  BY FiledCount DEF DocumentsFit, DocumentRow, Numbers
<1>2. /\ n \in Nat /\ n <= Cardinality(Filed(docs)) + 1
      /\ \A x \in OfType(docs, type) : docs[x].version < n
  BY NextVersion
<1> HIDE DEF n
<1>3. /\ new[d] = [state |-> "current", documentType |-> type, version |-> n]
      /\ \A b \in DocumentIds \ {d} : new[b] = docs[b]
  BY <1>1 DEF FileBeside, n
<1>4. Filed(new) = Filed(docs) \cup {d}
  BY <1>3 DEF Filed
<1>5. /\ Cardinality(Filed(new)) = Cardinality(Filed(docs)) + 1
      /\ Cardinality(Filed(docs)) + 1 <= Cardinality(DocumentIds)
      /\ Cardinality(Filed(docs)) \in Nat /\ Cardinality(DocumentIds) \in Nat
  BY <1>4, OneMoreFiled, FiledCount
<1>6. new[d] \in DocumentRow
  BY <1>2, <1>3, <1>5 DEF DocumentRow, Numbers
<1>7. new \in [DocumentIds -> DocumentRow]
  BY <1>1, <1>3, <1>6 DEF FileBeside
<1>8. ASSUME NEW b \in Filed(new)
      PROVE  new[b].version <= Cardinality(Filed(new))
  <2>1. CASE b = d
    BY <1>2, <1>3, <1>5, <2>1
  <2>2. CASE b # d
    BY <1>1, <1>3, <1>4, <1>5, <2>2 DEF Filed
  <2> QED
    BY <2>1, <2>2
<1>9. CurrentIsTop(new)
  <2>1. ASSUME NEW c \in Current(new, "singleton"), NEW b \in OfType(new, "singleton")
        PROVE  new[b].version <= new[c].version /\ (b # c => new[b].state # "current")
    <3>1. /\ c \in DocumentIds /\ b \in DocumentIds
          /\ new[c].state = "current" /\ new[c].documentType = "singleton"
          /\ new[b].state # "absent" /\ new[b].documentType = "singleton"
      BY DEF Current, OfType
    <3>2. CASE type = "singleton"
      <4>1. \A x \in DocumentIds \ {d} : docs[x].documentType = "singleton" => docs[x].state # "current"
        BY <3>2 DEF Current, OfType
      <4>2. c = d
        BY <1>3, <3>1, <4>1
      <4>3. b # d => b \in OfType(docs, type) /\ new[b].state # "current"
        BY <1>3, <3>1, <3>2, <4>1 DEF OfType
      <4>4. n <= n
        BY <1>2
      <4> QED
        BY <1>1, <1>2, <1>3, <3>1, <4>2, <4>3, <4>4
    <3>3. CASE type # "singleton"
      <4>1. c # d /\ b # d
        BY <1>3, <3>1, <3>3
      <4>2. c \in Current(docs, "singleton") /\ b \in OfType(docs, "singleton")
        BY <1>3, <3>1, <4>1 DEF Current, OfType
      <4> QED
        BY <1>1, <1>3, <3>1, <4>1, <4>2 DEF CurrentIsTop
    <3> QED
      BY <3>2, <3>3
  <2> QED
    BY <2>1 DEF CurrentIsTop
<1> QED
  BY <1>7, <1>8, <1>9 DEF DocumentsFit

LEMMA AppendedFits ==
  ASSUME NEW docs, DocumentsFit(docs), NEW d \in DocumentIds, docs[d].state = "absent", NEW type \in DocumentTypes
  PROVE  /\ DocumentsFit(Appended(docs, d, type))
         /\ \A b \in DocumentIds \ {d} : docs[b].state = "absent" => Appended(docs, d, type)[b].state = "absent"
<1>0. docs \in [DocumentIds -> DocumentRow] /\ CurrentIsTop(docs)
  BY DEF DocumentsFit
<1>1. CASE type = "singleton" /\ Current(docs, type) # {}
  <2> DEFINE IsTop(c) == \A b \in Current(docs, type) : docs[b].version <= docs[c].version
             top == CHOOSE c \in Current(docs, type) : IsTop(c)
  <2>1. \E c \in Current(docs, type) : IsTop(c)
    BY <1>0, <1>1 DEF CurrentIsTop, Current
  <2>2. top \in Current(docs, type)
    <3> HIDE DEF IsTop
    <3> QED
      BY <2>1
  <2>3. Appended(docs, d, type) = Supersede(docs, d, top)
    BY <1>1 DEF Appended
  <2> HIDE DEF top
  <2>4. top \in DocumentIds /\ docs[top].state = "current"
    BY <2>2 DEF Current, OfType
  <2>5. DocumentsFit(Supersede(docs, d, top))
    BY <2>4, SupersedeFits
  <2>6. ASSUME NEW b \in DocumentIds \ {d}, docs[b].state = "absent"
        PROVE  Supersede(docs, d, top)[b].state = "absent"
    <3>1. b # top
      BY <2>4, <2>6
    <3> QED
      BY <1>0, <2>6, <3>1 DEF Supersede
  <2> QED
    BY <2>3, <2>5, <2>6
<1>2. CASE ~(type = "singleton" /\ Current(docs, type) # {})
  <2>1. Appended(docs, d, type) = FileBeside(docs, d, type)
    BY <1>2 DEF Appended
  <2>2. DocumentsFit(FileBeside(docs, d, type))
    BY <1>2, FileBesideFits
  <2>3. \A b \in DocumentIds \ {d} : FileBeside(docs, d, type)[b] = docs[b]
    BY <1>0 DEF FileBeside
  <2> QED
    BY <2>1, <2>2, <2>3
<1> QED
  BY <1>1, <1>2

\* Fewer current rows, with the numbers they had.
LEMMA FewerFit ==
  ASSUME NEW docs, DocumentsFit(docs), NEW new \in [DocumentIds -> DocumentRow],
         \A b \in DocumentIds : /\ new[b].version = docs[b].version
                                /\ new[b].documentType = docs[b].documentType
                                /\ new[b].state = "absent" <=> docs[b].state = "absent"
                                /\ new[b].state = "current" => docs[b].state = "current"
  PROVE  DocumentsFit(new)
<1>1. Filed(new) = Filed(docs) /\ OfType(new, "singleton") = OfType(docs, "singleton")
      /\ Current(new, "singleton") \subseteq Current(docs, "singleton")
  BY DEF Filed, OfType, Current
<1>2. \A b \in Filed(docs) : new[b].version = docs[b].version
  BY DEF Filed
<1>3. \A b \in OfType(docs, "singleton") :
        b \in DocumentIds /\ new[b].version = docs[b].version /\ (new[b].state = "current" => docs[b].state = "current")
  BY DEF OfType
<1>4. Current(new, "singleton") \subseteq OfType(docs, "singleton")
  BY <1>1 DEF Current
<1>5. CurrentIsTop(new)
  BY <1>1, <1>3, <1>4 DEF CurrentIsTop, DocumentsFit
<1> QED
  BY <1>1, <1>2, <1>5 DEF DocumentsFit

LEMMA RemovedFits ==
  ASSUME NEW docs, DocumentsFit(docs), NEW d \in DocumentIds, docs[d].state # "absent"
  PROVE  DocumentsFit([docs EXCEPT ![d].state = "deleted"])
<1> DEFINE new == [docs EXCEPT ![d].state = "deleted"]
<1>1. docs \in [DocumentIds -> DocumentRow]
  BY DEF DocumentsFit
<1>2. [docs[d] EXCEPT !.state = "deleted"] \in DocumentRow
  BY <1>1 DEF DocumentRow
<1>3. new \in [DocumentIds -> DocumentRow]
  BY <1>1, <1>2
<1>4. \A b \in DocumentIds : /\ new[b].version = docs[b].version
                             /\ new[b].documentType = docs[b].documentType
                             /\ new[b].state = "absent" <=> docs[b].state = "absent"
                             /\ new[b].state = "current" => docs[b].state = "current"
  BY <1>1 DEF DocumentRow
<1> HIDE DEF new
<1>5. DocumentsFit(new)
  BY <1>3, <1>4, FewerFit
<1> QED
  BY <1>5 DEF new

LEMMA EmptiedFits ==
  ASSUME NEW docs, DocumentsFit(docs)
  PROVE  DocumentsFit(Emptied(docs)) /\ \A d \in DocumentIds : docs[d].state = "absent" => Emptied(docs)[d].state = "absent"
<1> DEFINE new == Emptied(docs)
<1>1. docs \in [DocumentIds -> DocumentRow]
  BY DEF DocumentsFit
<1>2. \A b \in DocumentIds : new[b] = IF docs[b].state = "absent" THEN docs[b] ELSE [docs[b] EXCEPT !.state = "deleted"]
  BY DEF Emptied
<1>3. \A b \in DocumentIds : [docs[b] EXCEPT !.state = "deleted"] \in DocumentRow
  BY <1>1 DEF DocumentRow
<1>4. new \in [DocumentIds -> DocumentRow]
  BY <1>1, <1>3 DEF Emptied
<1>5. \A b \in DocumentIds : /\ new[b].version = docs[b].version
                             /\ new[b].documentType = docs[b].documentType
                             /\ new[b].state = "absent" <=> docs[b].state = "absent"
                             /\ new[b].state = "current" => docs[b].state = "current"
  BY <1>1, <1>2 DEF DocumentRow
<1> HIDE DEF new
<1>6. DocumentsFit(new)
  BY <1>4, <1>5, FewerFit
<1> QED
  BY <1>5, <1>6 DEF new

\* The rows a clone takes along are numbered 1.
LEMMA ClonedFits ==
  ASSUME NEW docs, DocumentsFit(docs), NEW new,
         new = [d \in DocumentIds |->
                  IF docs[d].state \in {"current", "superseded"} THEN [docs[d] EXCEPT !.version = 1]
                  ELSE [state |-> "absent", documentType |-> "several", version |-> 0]]
  PROVE  DocumentsFit(new)
<1>1. docs \in [DocumentIds -> DocumentRow] /\ CurrentIsTop(docs)
  BY DEF DocumentsFit
<1>2. ASSUME NEW d \in DocumentIds
      PROVE  1 \in Numbers /\ 0 \in Numbers
  <2>1. {d} \subseteq DocumentIds /\ Cardinality({d}) = 1
    BY FS_Singleton
  <2>2. 1 <= Cardinality(DocumentIds) /\ Cardinality(DocumentIds) \in Nat
    BY <2>1, RecordsAssumption, FS_Subset, FS_CardinalityType
  <2> QED
    BY <2>2 DEF Numbers
<1>3. ASSUME NEW d \in DocumentIds
      PROVE  /\ new[d] \in DocumentRow
             /\ new[d].state # "absent" => /\ new[d].version = 1 /\ new[d].state = docs[d].state
                                           /\ new[d].documentType = docs[d].documentType
  <2>1. CASE docs[d].state \in {"current", "superseded"}
    <3>1. new[d] = [docs[d] EXCEPT !.version = 1]
      BY <2>1
    <3> QED
      BY <1>1, <1>2, <3>1 DEF DocumentRow
  <2>2. CASE docs[d].state \notin {"current", "superseded"}
    <3>1. new[d] = [state |-> "absent", documentType |-> "several", version |-> 0]
      BY <2>2
    <3> QED
      BY <1>2, <3>1 DEF DocumentRow, DocumentTypes
  <2> QED
    BY <2>1, <2>2
<1>4. new \in [DocumentIds -> DocumentRow]
  <2>1. new = [d \in DocumentIds |-> new[d]]
    BY Zenon
  <2>2. \A d \in DocumentIds : new[d] \in DocumentRow
    BY <1>3
  <2> QED
    BY <2>1, <2>2
<1>5. ASSUME NEW d \in Filed(new)
      PROVE  new[d].version <= Cardinality(Filed(new))
  <2>1. {d} \subseteq Filed(new) /\ Cardinality({d}) = 1
    BY FS_Singleton
  <2>2. 1 <= Cardinality(Filed(new))
    BY <2>1, FiledCount, FS_Subset
  <2> QED
    BY <1>3, <2>2 DEF Filed
<1>6. CurrentIsTop(new)
  <2>1. ASSUME NEW c \in Current(new, "singleton"), NEW b \in OfType(new, "singleton")
        PROVE  new[b].version <= new[c].version /\ (b # c => new[b].state # "current")
    <3>1. c \in DocumentIds /\ b \in DocumentIds /\ new[c].state = "current" /\ new[b].state # "absent"
      BY DEF Current, OfType
    <3>2. c \in Current(docs, "singleton") /\ b \in OfType(docs, "singleton")
      BY <1>3, <3>1 DEF Current, OfType
    <3> QED
      BY <1>1, <1>3, <3>1, <3>2 DEF CurrentIsTop
  <2> QED
    BY <2>1 DEF CurrentIsTop
<1> QED
  BY <1>4, <1>5, <1>6 DEF DocumentsFit

LEMMA RecordsStart == RecordsInit => RecordsIInv
<1> SUFFICES ASSUME RecordsInit PROVE RecordsIInv
  OBVIOUS
<1>1. Cardinality(DocumentIds) \in Nat
  BY FiledCount
<1>2. documents \in [DocumentIds -> DocumentRow]
  BY <1>1 DEF RecordsInit, DocumentRow, DocumentTypes, Numbers
<1>3. Filed(documents) = {} /\ OfType(documents, "singleton") = {}
  BY DEF RecordsInit, Filed, OfType
<1>4. DocumentsFit(documents)
  BY <1>2, <1>3 DEF DocumentsFit, CurrentIsTop, Current
<1>5. RecordsTypeOK /\ VerifiedIsVouched
  BY <1>2 DEF RecordsInit, RecordsTypeOK, VerifiedIsVouched, ExperienceStates
<1> QED
  BY <1>4, <1>5 DEF RecordsIInv

LEMMA DocumentStepKeeps ==
  ASSUME RecordsIInv, DocumentStep
  PROVE  DocumentsFit(documents') /\ UNCHANGED <<experiences, vouched>>
<1>1. DocumentsFit(documents)
  BY DEF RecordsIInv
<1>2. ASSUME NEW d \in DocumentIds, NEW type \in DocumentTypes, AddDocument(d, type)
      PROVE  DocumentsFit(documents')
  BY <1>1, <1>2, AppendedFits DEF AddDocument
<1>3. ASSUME NEW d \in DocumentIds, NEW previous \in DocumentIds, AddSuccessor(d, previous)
      PROVE  DocumentsFit(documents')
  BY <1>1, <1>3, SupersedeFits DEF AddSuccessor
<1>4. ASSUME NEW d \in DocumentIds, RemoveDocument(d)
      PROVE  DocumentsFit(documents')
  BY <1>1, <1>4, RemovedFits DEF RemoveDocument
<1>5. ASSUME ReplaceDocuments
      PROVE  DocumentsFit(documents')
  <2>1. DocumentsFit(Emptied(documents))
        /\ \A d \in DocumentIds : documents[d].state = "absent" => Emptied(documents)[d].state = "absent"
    BY <1>1, EmptiedFits
  <2>2. ASSUME NEW d \in DocumentIds, NEW type \in DocumentTypes, documents[d].state = "absent"
        PROVE  /\ DocumentsFit(Appended(Emptied(documents), d, type))
               /\ \A b \in DocumentIds \ {d} :
                    documents[b].state = "absent" => Appended(Emptied(documents), d, type)[b].state = "absent"
    BY <2>1, <2>2, AppendedFits
  <2>3. ASSUME NEW d \in DocumentIds, NEW type \in DocumentTypes, documents[d].state = "absent",
               NEW b \in DocumentIds \ {d}, NEW other \in DocumentTypes, documents[b].state = "absent"
        PROVE  DocumentsFit(Appended(Appended(Emptied(documents), d, type), b, other))
    BY <2>2, <2>3, AppendedFits
  <2> QED
    BY <1>5, <2>1, <2>2, <2>3 DEF ReplaceDocuments
<1>6. UNCHANGED <<experiences, vouched>>
  BY DEF DocumentStep, AddDocument, AddSuccessor, RemoveDocument, ReplaceDocuments
<1> QED
  BY <1>2, <1>3, <1>4, <1>5, <1>6 DEF DocumentStep

LEMMA ExperienceStepKeeps ==
  ASSUME RecordsIInv, ExperienceStep
  PROVE  /\ UNCHANGED documents /\ experiences' \in [ExperienceIds -> ExperienceStates]
         /\ vouched' \subseteq ExperienceIds /\ VerifiedIsVouched'
<1>1. /\ experiences \in [ExperienceIds -> ExperienceStates] /\ vouched \subseteq ExperienceIds /\ VerifiedIsVouched
  BY DEF RecordsIInv, RecordsTypeOK
<1>2. ASSUME NEW e \in ExperienceIds,
             AddProjectExperience(e) \/ VerifyProjectExperience(e) \/ RemoveProjectExperience(e)
      PROVE  /\ UNCHANGED documents /\ experiences' \in [ExperienceIds -> ExperienceStates]
             /\ vouched' \subseteq ExperienceIds /\ VerifiedIsVouched'
  BY <1>1, <1>2 DEF AddProjectExperience, VerifyProjectExperience, RemoveProjectExperience, ExperienceStates,
                    VerifiedIsVouched
<1>3. ASSUME NEW listed \in SUBSET ExperienceIds, ReplaceExperiences(listed)
      PROVE  /\ UNCHANGED documents /\ experiences' \in [ExperienceIds -> ExperienceStates]
             /\ vouched' \subseteq ExperienceIds /\ VerifiedIsVouched'
  BY <1>1, <1>3 DEF ReplaceExperiences, ExperienceStates, VerifiedIsVouched
<1> QED
  BY <1>2, <1>3 DEF ExperienceStep

LEMMA RecordsInductive == RecordsIInv /\ [RecordsNext]_recordVars => RecordsIInv'
<1> SUFFICES ASSUME RecordsIInv, [RecordsNext]_recordVars
             PROVE  RecordsIInv'
  OBVIOUS
<1>1. RecordsTypeOK /\ DocumentsFit(documents) /\ VerifiedIsVouched
  BY DEF RecordsIInv
<1>2. CASE DocumentStep
  <2>1. DocumentsFit(documents') /\ UNCHANGED <<experiences, vouched>>
    BY <1>2, DocumentStepKeeps
  <2>2. RecordsTypeOK' /\ VerifiedIsVouched'
    BY <1>1, <2>1 DEF RecordsTypeOK, VerifiedIsVouched, DocumentsFit
  <2> QED
    BY <2>1, <2>2 DEF RecordsIInv
<1>3. CASE ExperienceStep
  <2>1. /\ UNCHANGED documents /\ experiences' \in [ExperienceIds -> ExperienceStates]
        /\ vouched' \subseteq ExperienceIds /\ VerifiedIsVouched'
    BY <1>3, ExperienceStepKeeps
  <2>2. RecordsTypeOK' /\ DocumentsFit(documents')
    BY <1>1, <2>1 DEF RecordsTypeOK
  <2> QED
    BY <2>1, <2>2 DEF RecordsIInv
<1>4. CASE CloneRecords
  <2>1. DocumentsFit(documents')
    BY <1>1, <1>4, ClonedFits DEF CloneRecords
  <2>2. experiences' \in [ExperienceIds -> ExperienceStates] /\ VerifiedIsVouched' /\ vouched' \subseteq ExperienceIds
    BY <1>4 DEF CloneRecords, ClonedExperience, ExperienceStates, VerifiedIsVouched
  <2>3. RecordsTypeOK'
    BY <2>1, <2>2 DEF RecordsTypeOK, DocumentsFit
  <2> QED
    BY <2>1, <2>2, <2>3 DEF RecordsIInv
<1>5. CASE UNCHANGED recordVars
  <2>1. documents' = documents /\ experiences' = experiences /\ vouched' = vouched
    BY <1>5 DEF recordVars
  <2> QED
    BY <1>1, <2>1 DEF RecordsIInv, RecordsTypeOK, VerifiedIsVouched
<1> QED
  BY <1>2, <1>3, <1>4, <1>5 DEF RecordsNext

LEMMA RecordsImply == RecordsIInv => RecordsTypeOK /\ CurrentIsLatest /\ VerifiedIsVouched
BY DEF RecordsIInv, DocumentsFit, CurrentIsTop, CurrentIsLatest

\* Documents and references keep their types, and numbers run no higher than documents do.
THEOREM RecordsTypeCorrect == RecordsSpec => []RecordsTypeOK
BY RecordsStart, RecordsInductive, RecordsImply, PTL DEF RecordsSpec

\* However documents were replaced by name, by type, as a whole, removed or cloned: of a
\* singleton type one at most is current, and no other ever filed has a higher number
\* (appendDocumentRow, nextDocumentVersion).
THEOREM CurrentStaysLatest == RecordsSpec => []CurrentIsLatest
BY RecordsStart, RecordsInductive, RecordsImply, PTL DEF RecordsSpec

\* A confirmed reference was confirmed on this record: no replacement of the list and no
\* clone carries a confirmation over (replaceChildren, cloneChildren).
THEOREM VerifiedStaysVouched == RecordsSpec => []VerifiedIsVouched
BY RecordsStart, RecordsInductive, RecordsImply, PTL DEF RecordsSpec

-----------------------------------------------------------------------------
(* VendorFamily. What update looks at, going up from a new parent, is a    *)
(* line as that of the clients is, but it has to come to its end within    *)
(* MAX_PARENT_DEPTH steps; create, clone and the import look at nothing    *)
(* above the parent, and need not: nobody is below a vendor not yet born.  *)

CompanyOf == [v \in Vendors \cup {NoParent} |-> IF v = NoParent THEN NoParent ELSE vendors[v].parentCompanyId]

FamilyDepth == Cardinality(Vendors) + MaxFamilyDepth

LEMMA FamilyNumbers ==
  /\ Cardinality(Vendors) \in Nat /\ FamilyDepth \in Nat /\ IsFiniteSet(Vendors) /\ NoParent \notin Vendors
  /\ Cardinality(Vendors) <= FamilyDepth /\ MaxFamilyDepth <= FamilyDepth
  /\ MaxFamilyDepth \in Nat /\ MaxFamilyDepth >= 1
BY FamilyAssumption, FS_CardinalityType DEF FamilyDepth

LEMMA CompanyLine ==
  ASSUME FamilyTypeOK, NEW v \in Vendors \cup {NoParent}
  PROVE  IsLine(CompanyAbove(v), Vendors \cup {NoParent}, CompanyOf, v, FamilyDepth)
<1> DEFINE D == FamilyDepth
           X == Vendors \cup {NoParent}
           IsUp(up) == up = [n \in 0..Cardinality(Vendors) + MaxFamilyDepth |->
                               IF n = 0 THEN v
                               ELSE IF up[n - 1] = NoParent THEN NoParent ELSE vendors[up[n - 1]].parentCompanyId]
<1>1. CompanyAbove(v) = CHOOSE up : IsUp(up)
  BY DEF CompanyAbove
<1>2. D \in Nat /\ D = Cardinality(Vendors) + MaxFamilyDepth
  BY FamilyNumbers DEF FamilyDepth
<1>3. CompanyOf \in [X -> X]
  BY DEF CompanyOf, FamilyTypeOK, VendorRow
<1>4. PICK f : IsLine(f, X, CompanyOf, v, D)
  BY <1>2, <1>3, LineExists
<1>5. f \in [0..D -> X] /\ f[0] = v /\ \A n \in 1..D : f[n] = CompanyOf[f[n - 1]]
  BY <1>4 DEF IsLine
<1> HIDE DEF D
<1>6. ASSUME NEW n \in 0..D
      PROVE  f[n] = IF n = 0 THEN v ELSE IF f[n - 1] = NoParent THEN NoParent ELSE vendors[f[n - 1]].parentCompanyId
  <2>1. CASE n = 0
    BY <1>5, <2>1
  <2>2. CASE n # 0
    <3>1. n \in 1..D /\ n - 1 \in 0..D
      BY <1>2, <2>2
    <3>2. f[n - 1] \in X /\ f[n] = CompanyOf[f[n - 1]]
      BY <1>5, <3>1
    <3> QED
      BY <2>2, <3>2 DEF CompanyOf
  <2> QED
    BY <2>1, <2>2
<1>7. IsUp(f)
  BY <1>2, <1>5, <1>6
<1>8. IsUp(CompanyAbove(v))
  <2> HIDE DEF IsUp
  <2> QED
    BY <1>1, <1>7
<1> DEFINE up == CompanyAbove(v)
<1>9. \A n \in 0..D :
        up[n] = IF n = 0 THEN v ELSE IF up[n - 1] = NoParent THEN NoParent ELSE vendors[up[n - 1]].parentCompanyId
  BY <1>2, <1>8
<1>10. up[0] = v
  BY <1>2, <1>9
<1>11. up = [n \in 0..D |-> up[n]]
  BY <1>2, <1>8
<1> HIDE DEF up
<1>12. \A n \in 0..D : up[n] \in X
  <2> DEFINE Typed == {n \in Nat : n \in 0..D => up[n] \in X}
  <2>1. 0 \in Typed
    BY <1>10
  <2>2. ASSUME NEW n \in Nat, n \in Typed
        PROVE  n + 1 \in Typed
    <3>1. CASE n + 1 \in 0..D
      <4>1. up[n] \in X
        BY <1>2, <2>2, <3>1
      <4>2. up[n + 1] = IF up[n] = NoParent THEN NoParent ELSE vendors[up[n]].parentCompanyId
        BY <1>9, <3>1
      <4> QED
        BY <4>1, <4>2 DEF FamilyTypeOK, VendorRow
    <3> QED
      BY <3>1
  <2> HIDE DEF Typed
  <2>3. Nat \subseteq Typed
    BY <2>1, <2>2, SetInduction
  <2> QED
    BY <1>2, <2>3 DEF Typed
<1>13. \A n \in 1..D : up[n] = CompanyOf[up[n - 1]]
  BY <1>2, <1>9, <1>12 DEF CompanyOf
<1> QED
  BY <1>10, <1>11, <1>12, <1>13 DEF IsLine, up, D

ParentCompaniesLive == \A v \in LiveVendors : vendors[v].parentCompanyId \in LiveVendors \cup {NoParent}

\* No live vendors are below one another all round.
NoFamilyRing == \A S \in SUBSET LiveVendors : S # {} => \E v \in S : vendors[v].parentCompanyId \notin S

FamilyFits == ParentCompaniesLive /\ NoFamilyRing

FamilyIInv == FamilyTypeOK /\ FamilyFits /\ NamesClashByImport

\* A line of live vendors as long as there are vendors would hold a ring; so each line ends.
LEMMA FamilyLinesEnd ==
  ASSUME FamilyTypeOK, FamilyFits
  PROVE  FamilyIsSound
<1> DEFINE N == Cardinality(Vendors)
<1>1. N \in Nat /\ N <= FamilyDepth /\ FamilyDepth \in Nat /\ IsFiniteSet(Vendors) /\ NoParent \notin Vendors
  BY FamilyNumbers
<1>2. LiveVendors \subseteq Vendors
  BY DEF LiveVendors
<1>3. ASSUME NEW v \in LiveVendors, CompanyAbove(v)[N] # NoParent
      PROVE  FALSE
  <2> DEFINE up == CompanyAbove(v)
             f == [n \in 0..N |-> up[n]]
  <2>1. up[0] = v /\ \A n \in 1..N : up[n] = CompanyOf[up[n - 1]]
    BY <1>1, <1>2, CompanyLine DEF IsLine
  <2> HIDE DEF up
  <2> DEFINE Kept == {n \in Nat : n <= N => up[n] \in LiveVendors \cup {NoParent}}
  <2>2. Nat \subseteq Kept
    <3>1. 0 \in Kept
      BY <1>3, <2>1
    <3>2. ASSUME NEW n \in Nat, n \in Kept
          PROVE  n + 1 \in Kept
      <4>1. CASE n + 1 <= N
        <5>1. n + 1 \in 1..N /\ (n + 1) - 1 = n /\ up[n] \in LiveVendors \cup {NoParent}
          BY <1>1, <3>2, <4>1
        <5>2. up[n + 1] = IF up[n] = NoParent THEN NoParent ELSE vendors[up[n]].parentCompanyId
          BY <1>2, <2>1, <5>1 DEF CompanyOf
        <5> QED
          BY <5>1, <5>2 DEF FamilyFits, ParentCompaniesLive
      <4> QED
        BY <4>1
    <3> HIDE DEF Kept
    <3> QED
      BY <3>1, <3>2, SetInduction
  <2>3. ASSUME NEW k \in 0..N, up[k] = NoParent
        PROVE  FALSE
    <3> DEFINE Ended == {n \in Nat : k + n <= N => up[k + n] = NoParent}
    <3>1. 0 \in Ended
      BY <2>3
    <3>2. ASSUME NEW n \in Nat, n \in Ended
          PROVE  n + 1 \in Ended
      <4>1. CASE k + (n + 1) <= N
        <5>1. k + (n + 1) \in 1..N /\ (k + (n + 1)) - 1 = k + n /\ up[k + n] = NoParent
          BY <1>1, <3>2, <4>1
        <5>2. up[k + (n + 1)] = NoParent
          BY <2>1, <5>1 DEF CompanyOf
        <5> QED
          BY <5>2
      <4> QED
        BY <4>1
    <3> HIDE DEF Ended
    <3>3. N - k \in Ended
      BY <1>1, <3>1, <3>2, SetInduction
    <3>4. N - k \in Nat /\ k + (N - k) = N
      BY <1>1
    <3>5. up[N] = NoParent
      BY <1>1, <3>3, <3>4 DEF Ended
    <3> QED
      BY <1>3, <3>5 DEF up
  <2>4. \A n \in 0..N : up[n] \in LiveVendors
    BY <2>2, <2>3
  <2>5. IsLine(f, Vendors, CompanyOf, v, N) /\ \A n \in 0..N - 1 : f[n] \in LiveVendors
    BY <1>1, <1>2, <2>1, <2>4 DEF IsLine
  <2> HIDE DEF f, Kept, N
  <2>6. HasRing(f, CompanyOf, N)
    <3>1. Cardinality(Vendors) <= N
      BY <1>1 DEF N
    <3> QED
      BY <1>1, <2>5, <3>1, LineMeetsItself
  <2>7. PICK T : T # {} /\ \A t \in T : CompanyOf[t] \in T /\ \E n \in 0..N - 1 : t = f[n]
    BY <2>6 DEF HasRing
  <2>8. T \in SUBSET LiveVendors
    BY <2>5, <2>7
  <2>9. \A t \in T : vendors[t].parentCompanyId \in T
    BY <1>1, <1>2, <2>7, <2>8 DEF CompanyOf
  <2> QED
    BY <2>7, <2>8, <2>9 DEF FamilyFits, NoFamilyRing
<1> QED
  BY <1>3 DEF FamilyIsSound, FamilyFits, ParentCompaniesLive

\* Vendors that are born, below live ones or below nobody.
LEMMA BirthsKeepFamily ==
  ASSUME FamilyFits, NEW ids \in SUBSET Vendors, ids \cap LiveVendors = {},
         LiveVendors' = LiveVendors \cup ids,
         \A w \in Vendors \ ids : vendors'[w] = vendors[w],
         \A v \in ids : vendors'[v].parentCompanyId \in LiveVendors \cup {NoParent}
  PROVE  FamilyFits'
<1>1. NoParent \notin Vendors /\ LiveVendors \subseteq Vendors
  BY FamilyAssumption DEF LiveVendors
<1>2. ParentCompaniesLive'
  BY <1>1 DEF FamilyFits, ParentCompaniesLive
<1>3. ASSUME NEW S \in SUBSET LiveVendors', S # {}
      PROVE  \E v \in S : vendors'[v].parentCompanyId \notin S
  <2>1. CASE S \cap LiveVendors = {}
    <3>1. S \subseteq ids /\ NoParent \notin S
      BY <1>1, <2>1
    <3> QED
      BY <1>3, <2>1, <3>1
  <2>2. CASE S \cap LiveVendors # {}
    <3>1. PICK v \in S \cap LiveVendors : vendors[v].parentCompanyId \notin S \cap LiveVendors
      BY <2>2 DEF FamilyFits, NoFamilyRing
    <3>2. vendors[v].parentCompanyId \in LiveVendors \cup {NoParent} /\ vendors'[v] = vendors[v]
      BY <1>1, <3>1 DEF FamilyFits, ParentCompaniesLive
    <3> QED
      BY <1>1, <3>1, <3>2
  <2> QED
    BY <2>1, <2>2
<1> QED
  BY <1>2, <1>3 DEF FamilyFits, NoFamilyRing

\* A parent that update accepts brings no ring.
LEMMA MoveKeepsFamily ==
  ASSUME FamilyTypeOK, FamilyFits, NEW v \in LiveVendors, NEW parent \in Vendors \cup {NoParent},
         MayBelongTo(v, parent), LiveVendors' = LiveVendors,
         vendors'[v].parentCompanyId = parent,
         \A w \in Vendors \ {v} : vendors'[w] = vendors[w]
  PROVE  FamilyFits'
<1> DEFINE up == CompanyAbove(parent)
           M == MaxFamilyDepth
<1>1. NoParent \notin Vendors /\ LiveVendors \subseteq Vendors /\ M \in Nat /\ M <= FamilyDepth /\ FamilyDepth \in Nat
  BY FamilyNumbers DEF LiveVendors
<1>2. ParentCompaniesLive'
  BY <1>1 DEF MayBelongTo, FamilyFits, ParentCompaniesLive
<1>3. ASSUME NEW S \in SUBSET LiveVendors, S # {}, \A w \in S : vendors'[w].parentCompanyId \in S
      PROVE  FALSE
  <2>1. \A w \in S \ {v} : vendors[w].parentCompanyId \in S
    BY <1>1, <1>3
  <2>2. v \in S
    BY <1>3, <2>1 DEF FamilyFits, NoFamilyRing
  <2>3. parent \in S /\ parent # NoParent
    BY <1>1, <1>3, <2>2
  <2>4. parent # v /\ (\A n \in 1..M : up[n] # v) /\ up[M] = NoParent
    BY <2>3 DEF MayBelongTo
  <2>5. up[0] = parent /\ \A n \in 1..M : up[n] = CompanyOf[up[n - 1]]
    BY <1>1, CompanyLine DEF IsLine
  <2> HIDE DEF up
  <2> DEFINE Within == {n \in Nat : n <= M => up[n] \in S \ {v}}
  <2>6. 0 \in Within
    BY <2>3, <2>4, <2>5
  <2>7. ASSUME NEW n \in Nat, n \in Within
        PROVE  n + 1 \in Within
    <3>1. CASE n + 1 <= M
      <4>1. n + 1 \in 1..M /\ (n + 1) - 1 = n /\ up[n] \in S \ {v}
        BY <1>1, <2>7, <3>1
      <4>2. up[n + 1] = vendors[up[n]].parentCompanyId
        BY <1>1, <2>5, <4>1 DEF CompanyOf
      <4> QED
        BY <2>1, <2>4, <4>1, <4>2
    <3> QED
      BY <3>1
  <2> HIDE DEF Within
  <2>8. M \in Within
    BY <1>1, <2>6, <2>7, SetInduction
  <2> QED
    BY <1>1, <2>4, <2>8 DEF Within
<1> QED
  BY <1>2, <1>3 DEF FamilyFits, NoFamilyRing

\* A vendor more that has its name for itself.
LEMMA NewVendorKeeps ==
  ASSUME FamilyIInv, NEW v \in Vendors, Unborn(v), NEW name \in VendorNames, NEW k \in Kinds,
         NEW parent \in LiveVendors \cup {NoParent}, VendorNameFree(v, name),
         vendors' = [vendors EXCEPT ![v] = NewVendor(v, name, k, parent, FALSE)], kinds' = kinds
  PROVE  FamilyIInv'
<1> DEFINE new == NewVendor(v, name, k, parent, FALSE)
<1>1. vendors \in [Vendors -> VendorRow] /\ LiveVendors \subseteq Vendors
  BY DEF FamilyIInv, FamilyTypeOK, LiveVendors
<1>2. new \in VendorRow /\ new.state = "live" /\ new.vendorName = name /\ new.parentCompanyId = parent
  BY <1>1 DEF NewVendor, VendorRow
<1>3. vendors'[v] = new /\ \A w \in Vendors \ {v} : vendors'[w] = vendors[w]
  BY <1>1
<1> HIDE DEF new
<1>4. FamilyTypeOK'
  BY <1>1, <1>2 DEF FamilyIInv, FamilyTypeOK, new
<1>5. v \notin LiveVendors /\ LiveVendors' = LiveVendors \cup {v}
  BY <1>2, <1>3 DEF Unborn, LiveVendors
<1>6. FamilyFits'
  <2>1. {v} \cap LiveVendors = {} /\ \A w \in {v} : vendors'[w].parentCompanyId \in LiveVendors \cup {NoParent}
    BY <1>2, <1>3, <1>5
  <2> QED
    BY <1>3, <1>5, <2>1, BirthsKeepFamily DEF FamilyIInv
<1>7. \A w \in LiveVendors : vendors[w].vendorName # name
  BY <1>5 DEF VendorNameFree
<1>8. ASSUME NEW x \in LiveVendors', NEW w \in LiveVendors', x # w, vendors'[x].vendorName = vendors'[w].vendorName
      PROVE  vendors'[x].imported \/ vendors'[w].imported
  <2>1. x # v /\ w # v
    BY <1>1, <1>2, <1>3, <1>5, <1>7, <1>8
  <2>2. x \in LiveVendors /\ w \in LiveVendors /\ vendors'[x] = vendors[x] /\ vendors'[w] = vendors[w]
    BY <1>1, <1>3, <1>5, <2>1
  <2> QED
    BY <1>8, <2>2 DEF FamilyIInv, NamesClashByImport
<1>9. NamesClashByImport'
  BY <1>8 DEF NamesClashByImport
<1> QED
  BY <1>4, <1>6, <1>9 DEF FamilyIInv

LEMMA FamilyInductive == FamilyIInv /\ [FamilyNext]_familyVars => FamilyIInv'
<1> SUFFICES ASSUME FamilyIInv, [FamilyNext]_familyVars PROVE FamilyIInv'
  OBVIOUS
<1>1. /\ vendors \in [Vendors -> VendorRow] /\ kinds \in [Kinds -> {"absent", "active", "inactive"}]
      /\ LiveVendors \subseteq Vendors
  BY DEF FamilyIInv, FamilyTypeOK, LiveVendors
<1>2. ASSUME UNCHANGED vendors, kinds' \in [Kinds -> {"absent", "active", "inactive"}]
      PROVE  FamilyIInv'
  <2>1. LiveVendors' = LiveVendors
    BY <1>2 DEF LiveVendors
  <2>2. FamilyFits' /\ FamilyTypeOK'
    BY <1>1, <1>2, <2>1 DEF FamilyIInv, FamilyTypeOK, FamilyFits, ParentCompaniesLive, NoFamilyRing
  <2>3. NamesClashByImport'
    BY <1>2, <2>1 DEF FamilyIInv, NamesClashByImport
  <2> QED
    BY <2>2, <2>3 DEF FamilyIInv
<1>3. ASSUME NEW k \in Kinds, NEW state \in {"active", "inactive"}, KindTurns(k, state)
      PROVE  FamilyIInv'
  BY <1>1, <1>2, <1>3 DEF KindTurns
<1>4. ASSUME NEW v \in Vendors, NEW name \in VendorNames, NEW k \in Kinds, NEW parent \in Vendors \cup {NoParent},
             CreateVendor(v, name, k, parent)
      PROVE  FamilyIInv'
  <2>1. /\ Unborn(v) /\ parent \in LiveVendors \cup {NoParent} /\ VendorNameFree(v, name)
        /\ vendors' = [vendors EXCEPT ![v] = NewVendor(v, name, k, parent, FALSE)] /\ kinds' = kinds
    BY <1>4 DEF CreateVendor
  <2> QED
    BY <2>1, NewVendorKeeps
<1>5. ASSUME NEW v \in Vendors, NEW name \in VendorNames, NEW k \in Kinds, NEW parent \in Vendors \cup {NoParent},
             UpdateVendor(v, name, k, parent)
      PROVE  FamilyIInv'
  <2> DEFINE new == [vendors[v] EXCEPT !.vendorName = name, !.kind = k, !.parentCompanyId = parent]
  <2>1. v \in LiveVendors /\ MayBelongTo(v, parent) /\ (name # vendors[v].vendorName => VendorNameFree(v, name))
        /\ vendors' = [vendors EXCEPT ![v] = new] /\ kinds' = kinds
    BY <1>1, <1>5 DEF UpdateVendor
  <2>2. new \in VendorRow /\ new.state = vendors[v].state /\ new.imported = vendors[v].imported
        /\ new.vendorName = name /\ new.parentCompanyId = parent
    BY <1>1 DEF VendorRow
  <2> HIDE DEF new
  <2>3. vendors'[v] = new /\ \A w \in Vendors \ {v} : vendors'[w] = vendors[w]
    BY <1>1, <2>1
  <2>4. FamilyTypeOK'
    BY <1>1, <2>1, <2>2 DEF FamilyTypeOK
  <2>5. LiveVendors' = LiveVendors
    BY <2>1, <2>2, <2>3 DEF LiveVendors
  <2>6. FamilyFits'
    BY <2>1, <2>2, <2>3, <2>5, MoveKeepsFamily DEF FamilyIInv
  <2>7. name = vendors[v].vendorName \/ \A w \in LiveVendors \ {v} : vendors[w].vendorName # name
    BY <2>1 DEF VendorNameFree
  <2>8. NamesClashByImport'
    BY <1>1, <2>2, <2>3, <2>5, <2>7 DEF FamilyIInv, NamesClashByImport
  <2> QED
    BY <2>4, <2>6, <2>8 DEF FamilyIInv
<1>6. ASSUME NEW v \in Vendors, NEW name \in VendorNames, NEW source \in Vendors, CloneVendor(v, source, name)
      PROVE  FamilyIInv'
  <2>1. source \in LiveVendors /\ vendors[source].parentCompanyId \in LiveVendors \cup {NoParent}
        /\ vendors[source].kind \in Kinds
    BY <1>1, <1>6 DEF CloneVendor, FamilyIInv, FamilyFits, ParentCompaniesLive, VendorRow
  <2>2. /\ Unborn(v) /\ VendorNameFree(v, name) /\ kinds' = kinds
        /\ vendors' = [vendors EXCEPT ![v] =
                         NewVendor(v, name, vendors[source].kind, vendors[source].parentCompanyId, FALSE)]
    BY <1>6 DEF CloneVendor
  <2> QED
    BY <2>1, <2>2, NewVendorKeeps
<1>7. ASSUME NEW v \in Vendors, RemoveVendor(v)
      PROVE  FamilyIInv'
  <2>1. v \in LiveVendors /\ (\A w \in LiveVendors : vendors[w].parentCompanyId # v)
        /\ vendors' = [vendors EXCEPT ![v].state = "deleted"] /\ kinds' = kinds
    BY <1>7 DEF RemoveVendor
  <2>2. FamilyTypeOK'
    BY <1>1, <2>1 DEF FamilyTypeOK, VendorRow
  <2>3. LiveVendors' = LiveVendors \ {v} /\ \A w \in Vendors \ {v} : vendors'[w] = vendors[w]
    BY <1>1, <2>1 DEF LiveVendors, VendorRow
  <2>4. FamilyFits'
    BY <1>1, <2>1, <2>3 DEF FamilyIInv, FamilyFits, ParentCompaniesLive, NoFamilyRing
  <2>5. NamesClashByImport'
    BY <1>1, <2>3 DEF FamilyIInv, NamesClashByImport
  <2> QED
    BY <2>2, <2>4, <2>5 DEF FamilyIInv
<1>8. ASSUME NEW ids \in SUBSET Vendors \ {{}}, NEW rowOf \in [ids -> [name: VendorNames, kind: Kinds]],
             ImportVendors(ids, rowOf)
      PROVE  FamilyIInv'
  <2>1. \A v \in ids : v \in Vendors /\ v \notin LiveVendors
    BY <1>8 DEF ImportVendors, Unborn, LiveVendors
  <2>2. \A v \in ids : /\ vendors'[v] \in VendorRow /\ vendors'[v].state = "live"
                       /\ vendors'[v].parentCompanyId = NoParent /\ vendors'[v].imported
    BY <1>8, <2>1 DEF ImportVendors, NewVendor, VendorRow
  <2>3. \A v \in Vendors \ ids : vendors'[v] = vendors[v]
    BY <1>8 DEF ImportVendors
  <2>4. FamilyTypeOK'
    <3>1. vendors' \in [Vendors -> VendorRow]
      BY <1>1, <1>8, <2>2, <2>3 DEF ImportVendors
    <3>2. kinds' \in [Kinds -> {"absent", "active", "inactive"}]
      BY <1>1, <1>8 DEF ImportVendors
    <3> QED
      BY <3>1, <3>2 DEF FamilyTypeOK
  <2>5. LiveVendors' = LiveVendors \cup ids
    BY <2>1, <2>2, <2>3 DEF LiveVendors
  <2>6. FamilyFits'
    BY <2>1, <2>2, <2>3, <2>5, BirthsKeepFamily DEF FamilyIInv
  <2>7. NamesClashByImport'
    BY <1>1, <2>1, <2>2, <2>3, <2>5 DEF FamilyIInv, NamesClashByImport
  <2> QED
    BY <2>4, <2>6, <2>7 DEF FamilyIInv
<1>9. CASE UNCHANGED familyVars
  BY <1>1, <1>2, <1>9 DEF familyVars
<1> QED
  BY <1>3, <1>4, <1>5, <1>6, <1>7, <1>8, <1>9 DEF FamilyNext

LEMMA FamilyStart == FamilyInit => FamilyIInv
<1> SUFFICES ASSUME FamilyInit PROVE FamilyIInv
  OBVIOUS
<1>1. (CHOOSE n \in VendorNames : TRUE) \in VendorNames /\ (CHOOSE k \in Kinds : TRUE) \in Kinds
  BY FamilyAssumption
<1>2. FamilyTypeOK
  BY <1>1 DEF FamilyInit, FamilyTypeOK, VendorRow
<1>3. LiveVendors = {}
  BY DEF FamilyInit, LiveVendors
<1> QED
  BY <1>2, <1>3 DEF FamilyIInv, FamilyFits, ParentCompaniesLive, NoFamilyRing, NamesClashByImport

\* Vendors and kinds keep their types.
THEOREM FamilyTypeCorrect == FamilySpec => []FamilyTypeOK
<1>1. FamilyIInv => FamilyTypeOK
  BY DEF FamilyIInv
<1> QED
  BY <1>1, FamilyStart, FamilyInductive, PTL DEF FamilySpec

\* However vendors were created, cloned, imported, moved and removed: none is above itself
\* or below a deleted one (validateParentCompany and remove of VendorService).
THEOREM FamilyStaysSound == FamilySpec => []FamilyIsSound
<1>1. FamilyIInv => FamilyIsSound
  BY FamilyLinesEnd DEF FamilyIInv
<1> QED
  BY <1>1, FamilyStart, FamilyInductive, PTL DEF FamilySpec

\* Of two vendors of one name at least one came by an import (assertNoDuplicate, and
\* matchExisting of VendorImportService, which does not ask for the name alone).
THEOREM NamesOnlyClashByImport == FamilySpec => []NamesClashByImport
<1>1. FamilyIInv => NamesClashByImport
  BY DEF FamilyIInv
<1> QED
  BY <1>1, FamilyStart, FamilyInductive, PTL DEF FamilySpec

-----------------------------------------------------------------------------
(* VendorImport. What a file names is resolved to the same types before    *)
(* the import, by it and after it: a name that was missing has one type    *)
(* then, and the others have those they had.                               *)

RowsOf(file) == {file[i] : i \in DOMAIN file}

\* The types an import resolves the names to, given the ones it creates.
ResolvedTypes(file, typeIds) ==
  [n \in TypeNames |-> IF n \in NewTypeNames(file) THEN typeIds[n] ELSE TypeId(n)]

CreatedRows(file, typeIds) ==
  {r \in RowsOf(file) : Matching(IdentityKey(r), ResolvedTypes(file, typeIds)) = {}}

\* The types an import leaves.
TypesMade(file, typeIds) ==
  /\ \A n \in NewTypeNames(file) :
       /\ typeIds[n] \in TypeRows /\ types[typeIds[n]].state = "absent"
       /\ types'[typeIds[n]].state = "active" /\ types'[typeIds[n]].name = n
       /\ types'[typeIds[n]] \in TypeRow
  /\ \A m, n \in NewTypeNames(file) : typeIds[m] = typeIds[n] => m = n
  /\ \A t \in TypeRows : (\A n \in NewTypeNames(file) : typeIds[n] # t) => types'[t] = types[t]

\* The vendors an import leaves.
SuppliersMade(file, typeIds, ids) ==
  /\ \A r \in CreatedRows(file, typeIds) :
       /\ ids[r] \in Suppliers /\ suppliers[ids[r]].state = "absent"
       /\ suppliers'[ids[r]].state = "live" /\ suppliers'[ids[r]].name = Canon(r.name)
       /\ suppliers'[ids[r]].type = ResolvedTypes(file, typeIds)[TypeNamed(r)]
       /\ suppliers'[ids[r]].primaries \in {0, 1}
       /\ suppliers'[ids[r]] \in SupplierRow
  /\ \A r, q \in CreatedRows(file, typeIds) : ids[r] = ids[q] => r = q
  /\ \A v \in Suppliers :
       (\A r \in CreatedRows(file, typeIds) : ids[r] # v)
       => /\ suppliers'[v].state = suppliers[v].state /\ suppliers'[v].name = suppliers[v].name
          /\ suppliers'[v].type = suppliers[v].type
          /\ suppliers'[v].primaries \in {1, suppliers[v].primaries}
          /\ suppliers'[v] \in SupplierRow

ImportMade(file, typeIds, ids) ==
  /\ TypesMade(file, typeIds)
  /\ SuppliersMade(file, typeIds, ids)
  /\ types' \in [TypeRows -> TypeRow]
  /\ suppliers' = [v \in Suppliers |-> suppliers'[v]]
  /\ imported' = {IdentityKey(r) : r \in RowsOf(file)}

LEMMA ContactKept ==
  ASSUME NEW row, row \in SupplierRow, NEW sent
  PROVE  /\ WithContact(row, sent) \in SupplierRow
         /\ WithContact(row, sent).state = row.state /\ WithContact(row, sent).name = row.name
         /\ WithContact(row, sent).type = row.type
         /\ WithContact(row, sent).primaries \in {1, row.primaries}
BY DEF WithContact, SupplierRow

\* The rows of a file, and what they are known by.
LEMMA RowsAreRaw ==
  ASSUME NEW file \in Files
  PROVE  /\ RowsOf(file) \subseteq RawRow
         /\ \A r \in RowsOf(file) : /\ IdentityKey(r) \in Identity
                                    /\ IdentityKey(r).name = Canon(r.name) /\ Canon(r.name) \in Companies
                                    /\ IdentityKey(r).type = TypeNamed(r) /\ TypeNamed(r) \in TypeNames
         /\ NewTypeNames(file) \subseteq TypeNames
<1>1. PICK n \in 1..MaxRows : file \in [1..n -> RawRow]
  BY DEF Files
<1>2. RowsOf(file) \subseteq RawRow
  BY <1>1 DEF RowsOf
<1>3. ASSUME NEW r \in RawRow
      PROVE  /\ IdentityKey(r) \in Identity
             /\ IdentityKey(r).name = Canon(r.name) /\ Canon(r.name) \in Companies
             /\ IdentityKey(r).type = TypeNamed(r) /\ TypeNamed(r) \in TypeNames
  <2>1. r.name \in Spelled(Companies) /\ r.type \in TypeNames \cup {Blank}
    BY DEF RawRow
  <2>2. TypeNamed(r) \in TypeNames
    BY <2>1, ImportAssumption DEF TypeNamed
  <2>3. Canon(r.name) \in Companies
    BY <2>1 DEF Canon, Spelled
  <2> QED
    BY <2>2, <2>3 DEF IdentityKey, Identity
<1>4. NewTypeNames(file) \subseteq TypeNames
  BY <1>1, <1>3 DEF NewTypeNames
<1> QED
  BY <1>2, <1>3, <1>4

\* A name that is not missing has a live type of that name.
LEMMA TypeFound ==
  ASSUME NEW n, LiveTypes(n) # {}
  PROVE  TypeId(n) \in TypeRows /\ types[TypeId(n)].name = n /\ types[TypeId(n)].state \in {"active", "inactive"}
<1>1. TypeId(n) \in LiveTypes(n)
  BY DEF TypeId
<1> QED
  BY <1>1 DEF LiveTypes

LEMMA ImportMakes ==
  ASSUME ImportTypeOK, NEW file \in Files, NEW updateExisting \in BOOLEAN, NEW contact \in BOOLEAN,
         Import(file, updateExisting, contact)
  PROVE  \E typeIds, ids : ImportMade(file, typeIds, ids)
<1> DEFINE rows == RowsOf(file)
           missing == NewTypeNames(file)
           Free == {t \in TypeRows : types[t].state = "absent"}
           NotBorn == {v \in Suppliers : suppliers[v].state = "absent"}
           resolved(typeIds) == ResolvedTypes(file, typeIds)
           matched(typeIds, r) == Matching(IdentityKey(r), resolved(typeIds))
           created(typeIds) == CreatedRows(file, typeIds)
           NewSupplier(typeIds, r) ==
             [state |-> "live", name |-> Canon(r.name), type |-> resolved(typeIds)[TypeNamed(r)], primaries |-> 0]
<1>1. PICK typeIds \in [missing -> Free] :
        /\ Injective(typeIds)
        /\ \E ids \in [created(typeIds) -> NotBorn] :
             /\ Injective(ids)
             /\ types' = [t \in TypeRows |->
                  IF \E n \in missing : typeIds[n] = t
                  THEN [state |-> "active", name |-> CHOOSE n \in missing : typeIds[n] = t]
                  ELSE types[t]]
             /\ suppliers' = [v \in Suppliers |->
                  IF \E r \in created(typeIds) : ids[r] = v
                  THEN LET r == CHOOSE x \in created(typeIds) : ids[x] = v
                       IN WithContact(NewSupplier(typeIds, r), contact)
                  ELSE IF updateExisting
                          /\ \E r \in rows \ created(typeIds) : v = CHOOSE w \in matched(typeIds, r) : TRUE
                  THEN LET r == CHOOSE x \in rows \ created(typeIds) : v = CHOOSE w \in matched(typeIds, x) : TRUE
                       IN WithContact(suppliers[v], contact)
                  ELSE suppliers[v]]
  BY DEF Import, RowsOf, ResolvedTypes, CreatedRows
<1>2. PICK ids \in [created(typeIds) -> NotBorn] :
        /\ Injective(ids)
        /\ types' = [t \in TypeRows |->
             IF \E n \in missing : typeIds[n] = t
             THEN [state |-> "active", name |-> CHOOSE n \in missing : typeIds[n] = t]
             ELSE types[t]]
        /\ suppliers' = [v \in Suppliers |->
             IF \E r \in created(typeIds) : ids[r] = v
             THEN LET r == CHOOSE x \in created(typeIds) : ids[x] = v
                  IN WithContact(NewSupplier(typeIds, r), contact)
             ELSE IF updateExisting
                     /\ \E r \in rows \ created(typeIds) : v = CHOOSE w \in matched(typeIds, r) : TRUE
             THEN LET r == CHOOSE x \in rows \ created(typeIds) : v = CHOOSE w \in matched(typeIds, x) : TRUE
                  IN WithContact(suppliers[v], contact)
             ELSE suppliers[v]]
  BY <1>1
<1>3. imported' = {IdentityKey(r) : r \in RowsOf(file)}
  BY DEF Import, RowsOf
<1>4. /\ types \in [TypeRows -> TypeRow] /\ suppliers \in [Suppliers -> SupplierRow]
      /\ missing \subseteq TypeNames /\ rows \subseteq RawRow
      /\ \A r \in rows : Canon(r.name) \in Companies /\ TypeNamed(r) \in TypeNames
      /\ created(typeIds) \subseteq rows
  BY RowsAreRaw DEF ImportTypeOK, CreatedRows
<1>5. \A m, n \in missing : typeIds[m] = typeIds[n] => m = n
  BY <1>1 DEF Injective
<1>6. \A r, q \in created(typeIds) : ids[r] = ids[q] => r = q
  BY <1>2 DEF Injective
<1>7. ASSUME NEW n \in missing
      PROVE  /\ typeIds[n] \in TypeRows /\ types[typeIds[n]].state = "absent"
             /\ types'[typeIds[n]].state = "active" /\ types'[typeIds[n]].name = n
             /\ types'[typeIds[n]] \in TypeRow
  <2> DEFINE new == [state |-> "active", name |-> n]
  <2>1. typeIds[n] \in Free
    BY <1>1
  <2>2. (CHOOSE m \in missing : typeIds[m] = typeIds[n]) = n
    BY <1>5
  <2>3. types'[typeIds[n]] = new
    BY <1>2, <2>1, <2>2
  <2>4. new.state = "active" /\ new \in TypeRow
    BY <1>4 DEF TypeRow
  <2>5. new.name = n
    OBVIOUS
  <2> HIDE DEF new
  <2> QED
    BY <2>1, <2>3, <2>4, <2>5
<1>8. TypesMade(file, typeIds)
  BY <1>2, <1>5, <1>7 DEF TypesMade
<1>9. types' \in [TypeRows -> TypeRow]
  <2>1. ASSUME NEW t \in TypeRows
        PROVE  types'[t] \in TypeRow
    <3>1. ASSUME NEW n \in missing, typeIds[n] = t
          PROVE  types'[t] \in TypeRow
      BY <1>7, <3>1
    <3>2. CASE ~ \E n \in missing : typeIds[n] = t
      BY <1>2, <1>4, <3>2
    <3> QED
      BY <3>1, <3>2
  <2>2. types' = [t \in TypeRows |-> types'[t]]
    BY <1>2
  <2> QED
    BY <2>1, <2>2
<1>10. ASSUME NEW r \in rows
       PROVE  resolved(typeIds)[TypeNamed(r)] \in TypeRows
  <2>1. TypeNamed(r) \in TypeNames /\ (TypeNamed(r) \in missing \/ LiveTypes(TypeNamed(r)) # {})
    BY <1>4 DEF NewTypeNames, RowsOf
  <2>2. CASE TypeNamed(r) \in missing
    BY <1>7, <2>1, <2>2 DEF ResolvedTypes
  <2>3. CASE TypeNamed(r) \notin missing
    BY <2>1, <2>3, TypeFound DEF ResolvedTypes
  <2> QED
    BY <2>2, <2>3
<1>11. ASSUME NEW r \in created(typeIds)
       PROVE  /\ ids[r] \in Suppliers /\ suppliers[ids[r]].state = "absent"
              /\ suppliers'[ids[r]].state = "live" /\ suppliers'[ids[r]].name = Canon(r.name)
              /\ suppliers'[ids[r]].type = resolved(typeIds)[TypeNamed(r)]
              /\ suppliers'[ids[r]].primaries \in {0, 1}
              /\ suppliers'[ids[r]] \in SupplierRow
  <2>1. ids[r] \in NotBorn
    BY <1>2
  <2>2. (CHOOSE x \in created(typeIds) : ids[x] = ids[r]) = r
    BY <1>6
  <2>3. suppliers'[ids[r]] = WithContact(NewSupplier(typeIds, r), contact)
    BY <1>2, <2>1, <2>2
  <2>4. NewSupplier(typeIds, r) \in SupplierRow
    BY <1>4, <1>10 DEF SupplierRow
  <2>5. /\ WithContact(NewSupplier(typeIds, r), contact) \in SupplierRow
        /\ WithContact(NewSupplier(typeIds, r), contact).state = "live"
        /\ WithContact(NewSupplier(typeIds, r), contact).name = Canon(r.name)
        /\ WithContact(NewSupplier(typeIds, r), contact).type = resolved(typeIds)[TypeNamed(r)]
        /\ WithContact(NewSupplier(typeIds, r), contact).primaries \in {1, 0}
    BY <2>4, ContactKept
  <2> QED
    BY <2>1, <2>3, <2>5
<1>12. ASSUME NEW v \in Suppliers, \A r \in created(typeIds) : ids[r] # v
       PROVE  /\ suppliers'[v].state = suppliers[v].state /\ suppliers'[v].name = suppliers[v].name
              /\ suppliers'[v].type = suppliers[v].type
              /\ suppliers'[v].primaries \in {1, suppliers[v].primaries}
              /\ suppliers'[v] \in SupplierRow
  <2>1. suppliers[v] \in SupplierRow
    BY <1>4
  <2>2. suppliers'[v] = suppliers[v] \/ suppliers'[v] = WithContact(suppliers[v], contact)
    BY <1>2, <1>12
  <2> QED
    BY <2>1, <2>2, ContactKept
<1>13. SuppliersMade(file, typeIds, ids)
  BY <1>6, <1>11, <1>12 DEF SuppliersMade
<1>14. suppliers' = [v \in Suppliers |-> suppliers'[v]]
  BY <1>2
<1> QED
  BY <1>3, <1>8, <1>9, <1>13, <1>14 DEF ImportMade

\* The names of the file mean afterwards what the import took them to mean.
LEMMA ResolvedStays ==
  ASSUME ImportTypeOK, NEW file \in Files, NEW typeIds, TypesMade(file, typeIds),
         NEW n \in TypeNames, n \in NewTypeNames(file) \/ LiveTypes(n) # {}
  PROVE  LiveTypes(n)' # {} /\ TypeId(n)' = ResolvedTypes(file, typeIds)[n]
<1>1. CASE n \in NewTypeNames(file)
  <2>1. LiveTypes(n) = {}
    BY <1>1 DEF NewTypeNames
  <2>2. /\ typeIds[n] \in TypeRows /\ types'[typeIds[n]].state = "active" /\ types'[typeIds[n]].name = n
        /\ \A m \in NewTypeNames(file) : types'[typeIds[m]].name = m
    BY <1>1 DEF TypesMade
  <2>3. LiveTypes(n)' = {typeIds[n]}
    BY <2>1, <2>2 DEF LiveTypes, TypesMade
  <2>4. TypeId(n)' = CHOOSE t \in LiveTypes(n)' : TRUE
    BY DEF TypeId
  <2> QED
    BY <1>1, <2>3, <2>4 DEF ResolvedTypes
<1>2. CASE n \notin NewTypeNames(file)
  <2>1. \A m \in NewTypeNames(file) : /\ types'[typeIds[m]].name = m /\ m # n
                                      /\ types[typeIds[m]].state = "absent"
    BY <1>2 DEF TypesMade
  <2>2. LiveTypes(n)' = LiveTypes(n)
    BY <2>1 DEF LiveTypes, TypesMade
  <2>3. TypeId(n)' = CHOOSE t \in LiveTypes(n)' : TRUE
    BY DEF TypeId
  <2> QED
    BY <1>2, <2>2, <2>3 DEF ResolvedTypes, TypeId
<1> QED
  BY <1>1, <1>2

\* Two names are resolved to two types.
LEMMA ResolvedApart ==
  ASSUME NEW file, NEW typeIds, TypesMade(file, typeIds),
         NEW m \in TypeNames, m \in NewTypeNames(file) \/ LiveTypes(m) # {},
         NEW n \in TypeNames, n \in NewTypeNames(file) \/ LiveTypes(n) # {},
         ResolvedTypes(file, typeIds)[m] = ResolvedTypes(file, typeIds)[n]
  PROVE  m = n
<1>1. \A x \in NewTypeNames(file) : types[typeIds[x]].state = "absent"
  BY DEF TypesMade
<1>2. CASE m \in NewTypeNames(file) /\ n \in NewTypeNames(file)
  BY <1>2 DEF TypesMade, ResolvedTypes
<1>3. CASE m \notin NewTypeNames(file) /\ n \notin NewTypeNames(file)
  BY <1>3, TypeFound DEF ResolvedTypes
<1>4. CASE m \in NewTypeNames(file) /\ n \notin NewTypeNames(file)
  BY <1>1, <1>4, TypeFound DEF ResolvedTypes
<1>5. CASE m \notin NewTypeNames(file) /\ n \in NewTypeNames(file)
  BY <1>1, <1>5, TypeFound DEF ResolvedTypes
<1> QED
  BY <1>2, <1>3, <1>4, <1>5

ImportIInv == ImportTypeOK /\ ImportSettles /\ NoTwins /\ OnePrimary

LEMMA ImportKeeps ==
  ASSUME ImportIInv, NEW file \in Files, Plannable(file), NEW typeIds, NEW ids, ImportMade(file, typeIds, ids)
  PROVE  ImportIInv'
<1> DEFINE rows == RowsOf(file)
           resolved == ResolvedTypes(file, typeIds)
           created == CreatedRows(file, typeIds)
<1>1. /\ ImportTypeOK /\ TypesMade(file, typeIds) /\ SuppliersMade(file, typeIds, ids)
      /\ suppliers \in [Suppliers -> SupplierRow] /\ created \subseteq rows
  BY DEF ImportIInv, ImportTypeOK, ImportMade, CreatedRows
<1>2. \A r \in rows : /\ IdentityKey(r) \in Identity
                      /\ IdentityKey(r).name = Canon(r.name) /\ IdentityKey(r).type = TypeNamed(r)
                      /\ TypeNamed(r) \in TypeNames
                      /\ TypeNamed(r) \in NewTypeNames(file) \/ LiveTypes(TypeNamed(r)) # {}
  BY RowsAreRaw DEF RowsOf, NewTypeNames
<1>3. \A r, q \in rows : IdentityKey(r) = IdentityKey(q) => r = q
  BY DEF Plannable, RowsOf
<1>4. ImportTypeOK'
  <2>1. ASSUME NEW v \in Suppliers
        PROVE  suppliers'[v] \in SupplierRow
    BY <1>1 DEF SuppliersMade
  <2>2. suppliers' \in [Suppliers -> SupplierRow] /\ types' \in [TypeRows -> TypeRow]
    BY <2>1 DEF ImportMade
  <2>3. imported' \subseteq Identity
    BY <1>2 DEF ImportMade
  <2> QED
    BY <2>2, <2>3 DEF ImportTypeOK
<1>5. OnePrimary'
  <2>1. ASSUME NEW v \in Suppliers
        PROVE  suppliers'[v].primaries <= 1
    <3>1. CASE \E r \in created : ids[r] = v
      BY <1>1, <3>1 DEF SuppliersMade
    <3>2. CASE \A r \in created : ids[r] # v
      <4>1. suppliers'[v].primaries \in {1, suppliers[v].primaries} /\ suppliers[v].primaries <= 1
        BY <1>1, <3>2 DEF SuppliersMade, ImportIInv, OnePrimary
      <4> QED
        BY <4>1
    <3> QED
      BY <3>1, <3>2
  <2> QED
    BY <2>1 DEF OnePrimary
<1>6. ASSUME NEW r \in created, NEW v \in Suppliers, suppliers[v].state = "live",
             suppliers[v].name = Canon(r.name), suppliers[v].type = resolved[TypeNamed(r)]
      PROVE  FALSE
  <2>1. v \in Matching(IdentityKey(r), resolved)
    BY <1>1, <1>2, <1>6 DEF Matching
  <2> QED
    BY <2>1 DEF CreatedRows
<1>7. ASSUME NEW r \in created, NEW q \in created, Canon(r.name) = Canon(q.name),
             resolved[TypeNamed(r)] = resolved[TypeNamed(q)]
      PROVE  r = q
  <2>1. r \in rows /\ q \in rows
    BY <1>1
  <2>2. TypeNamed(r) = TypeNamed(q)
    BY <1>1, <1>2, <1>7, <2>1, ResolvedApart
  <2>3. IdentityKey(r) = IdentityKey(q)
    BY <1>7, <2>2 DEF IdentityKey
  <2> QED
    BY <1>3, <2>1, <2>3
<1>8. NoTwins'
  <2> SUFFICES ASSUME NEW v \in Suppliers, NEW w \in Suppliers,
                      suppliers'[v].state = "live", suppliers'[w].state = "live",
                      suppliers'[v].name = suppliers'[w].name, suppliers'[v].type = suppliers'[w].type
               PROVE  v = w
    BY DEF NoTwins
  <2> DEFINE Made(x) == \E r \in created : ids[r] = x
             Kept(x) == /\ suppliers'[x].state = suppliers[x].state /\ suppliers'[x].name = suppliers[x].name
                        /\ suppliers'[x].type = suppliers[x].type
  <2>1. \A x \in Suppliers : ~Made(x) => Kept(x)
    BY <1>1 DEF SuppliersMade
  <2>2. CASE ~Made(v) /\ ~Made(w)
    <3>1. Kept(v) /\ Kept(w)
      BY <2>1, <2>2
    <3> QED
      BY <3>1 DEF ImportIInv, NoTwins
  <2>3. CASE Made(v) /\ ~Made(w)
    <3>1. PICK r \in created : ids[r] = v
      BY <2>3
    <3>2. suppliers'[v].name = Canon(r.name) /\ suppliers'[v].type = resolved[TypeNamed(r)]
      BY <1>1, <3>1 DEF SuppliersMade
    <3> QED
      BY <1>6, <2>1, <2>3, <3>2
  <2>4. CASE ~Made(v) /\ Made(w)
    <3>1. PICK r \in created : ids[r] = w
      BY <2>4
    <3>2. suppliers'[w].name = Canon(r.name) /\ suppliers'[w].type = resolved[TypeNamed(r)]
      BY <1>1, <3>1 DEF SuppliersMade
    <3> QED
      BY <1>6, <2>1, <2>4, <3>2
  <2>5. CASE Made(v) /\ Made(w)
    <3>1. PICK r \in created : ids[r] = v
      BY <2>5
    <3>2. PICK q \in created : ids[q] = w
      BY <2>5
    <3>3. /\ suppliers'[v].name = Canon(r.name) /\ suppliers'[v].type = resolved[TypeNamed(r)]
          /\ suppliers'[w].name = Canon(q.name) /\ suppliers'[w].type = resolved[TypeNamed(q)]
      BY <1>1, <3>1, <3>2 DEF SuppliersMade
    <3>4. r = q
      BY <1>7, <3>3
    <3> QED
      BY <3>1, <3>2, <3>4
  <2> QED
    BY <2>2, <2>3, <2>4, <2>5
<1>9. ASSUME NEW r \in rows
      PROVE  \E v \in Suppliers : /\ suppliers'[v].state = "live" /\ suppliers'[v].name = Canon(r.name)
                                  /\ suppliers'[v].type = resolved[TypeNamed(r)]
  <2>1. CASE r \in created
    BY <1>1, <2>1 DEF SuppliersMade
  <2>2. CASE r \notin created
    <3>1. PICK v \in Matching(IdentityKey(r), resolved) : TRUE
      BY <2>2 DEF CreatedRows
    <3>2. v \in Suppliers /\ suppliers[v].state = "live" /\ suppliers[v].name = Canon(r.name)
          /\ suppliers[v].type = resolved[TypeNamed(r)]
      BY <1>2, <3>1 DEF Matching
    <3>3. \A q \in created : ids[q] # v
      BY <1>1, <3>2 DEF SuppliersMade
    <3>4. suppliers'[v].state = suppliers[v].state /\ suppliers'[v].name = suppliers[v].name
          /\ suppliers'[v].type = suppliers[v].type
      BY <1>1, <3>2, <3>3 DEF SuppliersMade
    <3> QED
      BY <3>2, <3>4
  <2> QED
    BY <2>1, <2>2
<1>10. ImportSettles'
  <2> SUFFICES ASSUME NEW k \in imported'
               PROVE  /\ LiveTypes(k.type)' # {}
                      /\ {v \in Suppliers : /\ suppliers'[v].state = "live" /\ suppliers'[v].name = k.name
                                            /\ suppliers'[v].type = [n \in TypeNames |-> TypeId(n)'][k.type]} # {}
    BY DEF ImportSettles, ToCreate, Matching
  <2>1. PICK r \in rows : k = IdentityKey(r)
    BY DEF ImportMade
  <2>2. k.name = Canon(r.name) /\ k.type = TypeNamed(r) /\ TypeNamed(r) \in TypeNames
    BY <1>2, <2>1
  <2>3. LiveTypes(k.type)' # {} /\ TypeId(k.type)' = resolved[TypeNamed(r)]
    BY <1>1, <1>2, <2>1, <2>2, ResolvedStays
  <2>4. [n \in TypeNames |-> TypeId(n)'][k.type] = resolved[TypeNamed(r)]
    BY <2>2, <2>3
  <2> QED
    BY <1>9, <2>2, <2>3, <2>4
<1> QED
  BY <1>4, <1>5, <1>8, <1>10 DEF ImportIInv

LEMMA ImportInductive == ImportIInv /\ [ImportNext]_importVars => ImportIInv'
<1> SUFFICES ASSUME ImportIInv, [ImportNext]_importVars PROVE ImportIInv'
  OBVIOUS
<1>1. types \in [TypeRows -> TypeRow] /\ suppliers \in [Suppliers -> SupplierRow] /\ imported \subseteq Identity
  BY DEF ImportIInv, ImportTypeOK
<1>2. ASSUME NEW file \in {f \in Files : Plannable(f)}, NEW updateExisting \in BOOLEAN, NEW contact \in BOOLEAN,
             Import(file, updateExisting, contact)
      PROVE  ImportIInv'
  <2>1. PICK typeIds, ids : ImportMade(file, typeIds, ids)
    BY <1>2, ImportMakes DEF ImportIInv
  <2> QED
    BY <2>1, ImportKeeps
\* After any other change there is nothing just imported.
<1>3. ASSUME imported' = {}
      PROVE  ImportSettles'
  BY <1>3 DEF ImportSettles, ToCreate
<1>4. ASSUME NEW t \in TypeRows, TypeChanges(t)
      PROVE  ImportIInv'
  <2>1. imported' = {} /\ suppliers' = suppliers
    BY <1>4 DEF TypeChanges
  <2>2. types' \in [TypeRows -> TypeRow]
    BY <1>1, <1>4 DEF TypeChanges, TypeRow
  <2>3. NoTwins' /\ OnePrimary'
    BY <2>1 DEF ImportIInv, NoTwins, OnePrimary
  <2> QED
    BY <1>1, <1>3, <2>1, <2>2, <2>3 DEF ImportIInv, ImportTypeOK
<1>5. ASSUME NEW v \in Suppliers, SupplierChanges(v)
      PROVE  ImportIInv'
  <2>1. imported' = {} /\ types' = types
    BY <1>5 DEF SupplierChanges
  <2> DEFINE Harmless ==
               /\ suppliers' \in [Suppliers -> SupplierRow]
               /\ \A w \in Suppliers : /\ suppliers'[w].state = "live" => suppliers[w].state = "live"
                                       /\ suppliers'[w].name = suppliers[w].name
                                       /\ suppliers'[w].type = suppliers[w].type
  <2>2. Harmless
    <3>1. ASSUME NEW n \in 0..1, suppliers' = [suppliers EXCEPT ![v].primaries = n]
          PROVE  Harmless
      BY <1>1, <3>1 DEF SupplierRow
    <3>2. CASE suppliers' = [suppliers EXCEPT ![v].state = "deleted"]
      BY <1>1, <3>2 DEF SupplierRow
    <3> QED
      BY <1>5, <3>1, <3>2 DEF SupplierChanges
  <2>3. \A w \in Suppliers : suppliers'[w].primaries \in {0, 1, suppliers[w].primaries}
    BY <1>1, <1>5 DEF SupplierChanges, SupplierRow
  <2>4. NoTwins'
    BY <2>2 DEF ImportIInv, NoTwins
  <2>5. OnePrimary'
    BY <2>3 DEF ImportIInv, OnePrimary
  <2> QED
    BY <1>1, <1>3, <2>1, <2>2, <2>4, <2>5 DEF ImportIInv, ImportTypeOK
<1>6. CASE UNCHANGED importVars
  BY <1>6 DEF importVars, ImportIInv, ImportTypeOK, ImportSettles, ToCreate, Matching, LiveTypes, TypeId, NoTwins,
              OnePrimary
<1> QED
  BY <1>2, <1>4, <1>5, <1>6 DEF ImportNext

LEMMA ImportStart == ImportInit => ImportIInv
<1> SUFFICES ASSUME ImportInit PROVE ImportIInv
  OBVIOUS
<1>1. (CHOOSE n \in Companies : TRUE) \in Companies /\ (CHOOSE t \in TypeRows : TRUE) \in TypeRows
  BY ImportAssumption
<1>2. ImportTypeOK
  BY <1>1, ImportAssumption DEF ImportInit, ImportTypeOK, TypeRow, SupplierRow
<1>3. ImportSettles /\ NoTwins /\ OnePrimary
  BY DEF ImportInit, ImportSettles, ToCreate, NoTwins, OnePrimary
<1> QED
  BY <1>2, <1>3 DEF ImportIInv

\* Vendor types and imported vendors keep their types.
THEOREM ImportTypeCorrect == ImportSpec => []ImportTypeOK
<1>1. ImportIInv => ImportTypeOK
  BY DEF ImportIInv
<1> QED
  BY <1>1, ImportStart, ImportInductive, PTL DEF ImportSpec

\* A file that was just imported would create nothing if it were imported again, however
\* its names are spelled and whichever types it brought (validate, matchExisting).
THEOREM ImportsSettle == ImportSpec => []ImportSettles
<1>1. ImportIInv => ImportSettles
  BY DEF ImportIInv
<1> QED
  BY <1>1, ImportStart, ImportInductive, PTL DEF ImportSpec

\* Imports make no two vendors of one name and type, and contacts that come by imports and
\* by edits have one primary among them (identityKey, savePrimaryContact).
THEOREM ImportsMakeNoTwins == ImportSpec => [](NoTwins /\ OnePrimary)
<1>1. ImportIInv => NoTwins /\ OnePrimary
  BY DEF ImportIInv
<1> QED
  BY <1>1, ImportStart, ImportInductive, PTL DEF ImportSpec

=============================================================================
