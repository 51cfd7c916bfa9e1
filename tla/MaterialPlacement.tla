-------------------------- MODULE MaterialPlacement --------------------------
(***************************************************************************)
(* Under which category and group a material is filed, by the handlers of  *)
(* MaterialService and by the import of a file, which creates the          *)
(* categories and groups it names and does not find. A call reads and      *)
(* validates first and writes in a transaction later, when what it has read*)
(* may have changed: they are steps of their own here. It saves whole rows,*)
(* so a material that was deleted in between is back.                      *)
(*                                                                         *)
(* Abstracted: the unit of measurement, which an import resolves like a    *)
(* category; every other column of a material, its lock and its documents, *)
(* which Material.tla is about; upper case and plurals of a name. Of the   *)
(* materials that have one name the one written last is kept.              *)
(***************************************************************************)
EXTENDS Integers

CONSTANTS
  Materials,              \* materials, each by its name
  CategoryIds, GroupIds,
  Words,                  \* names of categories and groups
  Calls,                  \* calls under way at once
  Missing                 \* the id of what a file names and the import did not find

ASSUME PlacementAssumption ==
  /\ Missing \notin CategoryIds \cup GroupIds
  /\ CategoryIds # {} /\ GroupIds # {} /\ Words # {}

VARIABLES
  materialCategories,
  materialGroups,
  filed,      \* the row of each material
  plans       \* the rows each call is about to write

placementVars == <<materialCategories, materialGroups, filed, plans>>

MasterStates == {"absent", "active", "inactive", "deleted"}

CategoryRow == [state: MasterStates, name: Words]

\* A group stays in the category it was created in.
GroupRow == [state: MasterStates, name: Words, materialCategoryId: CategoryIds]

FiledRow == [state: {"absent", "live", "deleted"}, materialCategoryId: CategoryIds, materialGroupId: GroupIds]

PlannedRow == [material: Materials, categoryName: Words, categoryId: CategoryIds \cup {Missing},
               groupName: Words, groupId: GroupIds \cup {Missing}]

PlacementTypeOK ==
  /\ materialCategories \in [CategoryIds -> CategoryRow]
  /\ materialGroups \in [GroupIds -> GroupRow]
  /\ filed \in [Materials -> FiledRow]
  /\ plans \in [Calls -> SUBSET PlannedRow]

PlacementInit ==
  LET w == CHOOSE w \in Words : TRUE
      c == CHOOSE c \in CategoryIds : TRUE
      g == CHOOSE g \in GroupIds : TRUE
  IN  /\ materialCategories = [i \in CategoryIds |-> [state |-> "absent", name |-> w]]
      /\ materialGroups = [i \in GroupIds |-> [state |-> "absent", name |-> w, materialCategoryId |-> c]]
      /\ filed = [m \in Materials |-> [state |-> "absent", materialCategoryId |-> c, materialGroupId |-> g]]
      /\ plans = [k \in Calls |-> {}]

-----------------------------------------------------------------------------
(* The masters, by their own services.                                     *)

NewCategory(c, word) ==
  /\ materialCategories[c].state = "absent"
  /\ materialCategories' = [materialCategories EXCEPT ![c] = [state |-> "active", name |-> word]]
  /\ UNCHANGED <<materialGroups, filed, plans>>

NewGroup(g, word, c) ==
  /\ materialGroups[g].state = "absent" /\ materialCategories[c].state = "active"
  /\ materialGroups' = [materialGroups EXCEPT ![g] = [state |-> "active", name |-> word, materialCategoryId |-> c]]
  /\ UNCHANGED <<materialCategories, filed, plans>>

LiveStates == {"active", "inactive"}

CategoryMoves(c, state) ==
  /\ materialCategories[c].state \in LiveStates
  /\ materialCategories' = [materialCategories EXCEPT ![c].state = state]
  /\ UNCHANGED <<materialGroups, filed, plans>>

GroupMoves(g, state) ==
  /\ materialGroups[g].state \in LiveStates
  /\ materialGroups' = [materialGroups EXCEPT ![g].state = state]
  /\ UNCHANGED <<materialCategories, filed, plans>>

-----------------------------------------------------------------------------
(* Reading.                                                                *)

\* validateCategory and validateGroup.
Placeable(c, g) ==
  /\ materialCategories[c].state = "active" /\ materialGroups[g].state = "active"
  /\ materialGroups[g].materialCategoryId = c

Plan(k, rows) ==
  /\ plans[k] = {}
  /\ plans' = [plans EXCEPT ![k] = rows]
  /\ UNCHANGED <<materialCategories, materialGroups, filed>>

\* create, clone and update, whose request names ids; an update that names neither
\* writes those it has read.
ReadPlacement(k, m, c, g) ==
  /\ filed[m].state # "deleted"
  /\ \/ Placeable(c, g)
     \/ filed[m] = [state |-> "live", materialCategoryId |-> c, materialGroupId |-> g]
  /\ Plan(k, {[material |-> m, categoryName |-> materialCategories[c].name, categoryId |-> c,
               groupName |-> materialGroups[g].name, groupId |-> g]})

\* Mutant: a group is looked for in every category.
FoundGroups_Anywhere(c, word) ==
  {g \in GroupIds : materialGroups[g].state \in LiveStates /\ materialGroups[g].name = word}

\* The groups of that name in the category that was found.
FoundGroups(c, word) ==
  {g \in GroupIds : /\ materialGroups[g].state \in LiveStates /\ materialGroups[g].name = word
                    /\ materialGroups[g].materialCategoryId = c}

\* What may become of a row of the file: one of the categories and groups of these
\* names if there are any, which must be active; a missing category has no groups.
Understood(m, categoryWord, groupWord) ==
  LET found   == {c \in CategoryIds : materialCategories[c].state \in LiveStates /\ materialCategories[c].name = categoryWord}
      OrMissing(ids) == IF ids = {} THEN {Missing} ELSE ids
  IN  {row \in PlannedRow :
         /\ row.material = m /\ row.categoryName = categoryWord /\ row.groupName = groupWord
         /\ row.categoryId \in OrMissing(found)
         /\ row.categoryId # Missing => materialCategories[row.categoryId].state = "active"
         /\ row.groupId \in IF row.categoryId = Missing THEN {Missing}
                            ELSE OrMissing(FoundGroups(row.categoryId, groupWord))
         /\ row.groupId # Missing => materialGroups[row.groupId].state = "active"}

\* readPlan and validate: every row of the file or none.
ReadFile(k, file) ==
  \E rows \in SUBSET UNION {Understood(m, file[m][1], file[m][2]) : m \in DOMAIN file} :
    /\ \A m \in DOMAIN file : \E row \in rows : row.material = m
    /\ \A r, s \in rows : r.material = s.material => r = s
    /\ \A m \in DOMAIN file : filed[m].state # "deleted"
    /\ Plan(k, rows)

-----------------------------------------------------------------------------
(* Writing.                                                                *)

\* resolveMasterData: a missing category is created once for its name, a missing group
\* once for its name and category; then the materials are saved.
WritePlan(k) ==
  LET rows == plans[k]
      lackedCategories == {row.categoryName : row \in {r \in rows : r.categoryId = Missing}}
  IN  /\ rows # {}
      /\ \E newCategory \in [lackedCategories -> {c \in CategoryIds : materialCategories[c].state = "absent"}] :
           LET CategoryOf(row) == IF row.categoryId = Missing THEN newCategory[row.categoryName] ELSE row.categoryId
               lackedGroups == {<<CategoryOf(row), row.groupName>> : row \in {r \in rows : r.groupId = Missing}}
           IN  /\ \A v, w \in lackedCategories : newCategory[v] = newCategory[w] => v = w
               /\ \E newGroup \in [lackedGroups -> {g \in GroupIds : materialGroups[g].state = "absent"}] :
                    LET GroupOf(row) == IF row.groupId = Missing THEN newGroup[<<CategoryOf(row), row.groupName>>]
                                        ELSE row.groupId
                    IN  /\ \A v, w \in lackedGroups : newGroup[v] = newGroup[w] => v = w
                        /\ materialGroups' =
                             [g \in GroupIds |->
                                IF \E v \in lackedGroups : newGroup[v] = g
                                THEN LET v == CHOOSE v \in lackedGroups : newGroup[v] = g
                                     IN  [state |-> "active", name |-> v[2], materialCategoryId |-> v[1]]
                                ELSE materialGroups[g]]
                        /\ filed' =
                             [m \in Materials |->
                                IF \E row \in rows : row.material = m
                                THEN LET row == CHOOSE row \in rows : row.material = m
                                     IN  [state |-> "live", materialCategoryId |-> CategoryOf(row),
                                          materialGroupId |-> GroupOf(row)]
                                ELSE filed[m]]
               /\ materialCategories' =
                    [c \in CategoryIds |->
                       IF \E v \in lackedCategories : newCategory[v] = c
                       THEN [state |-> "active", name |-> CHOOSE v \in lackedCategories : newCategory[v] = c]
                       ELSE materialCategories[c]]
      /\ plans' = [plans EXCEPT ![k] = {}]

\* The transaction is rolled back, or never begun.
Abandon(k) ==
  /\ plans[k] # {}
  /\ plans' = [plans EXCEPT ![k] = {}]
  /\ UNCHANGED <<materialCategories, materialGroups, filed>>

Unfile(m) ==
  /\ filed[m].state = "live"
  /\ filed' = [filed EXCEPT ![m].state = "deleted"]
  /\ UNCHANGED <<materialCategories, materialGroups, plans>>

PlacementNext ==
  \/ \E c \in CategoryIds :
       \/ \E word \in Words : NewCategory(c, word) \/ \E g \in GroupIds : NewGroup(g, word, c)
       \/ \E state \in {"active", "inactive", "deleted"} : CategoryMoves(c, state)
  \/ \E g \in GroupIds, state \in {"active", "inactive", "deleted"} : GroupMoves(g, state)
  \/ \E k \in Calls :
       \/ \E m \in Materials, c \in CategoryIds, g \in GroupIds : ReadPlacement(k, m, c, g)
       \/ \E named \in SUBSET Materials \ {{}} : \E file \in [named -> Words \X Words] : ReadFile(k, file)
       \/ WritePlan(k)
       \/ Abandon(k)
  \/ \E m \in Materials : Unfile(m)

PlacementSpec == PlacementInit /\ [][PlacementNext]_placementVars

-----------------------------------------------------------------------------
(* Properties.                                                             *)

\* Whichever calls were under way together and whatever became of the masters in
\* between: a material's group is a group of the material's category.
PlacedTogether ==
  \A m \in Materials : filed[m].state # "absent" =>
    materialGroups[filed[m].materialGroupId].materialCategoryId = filed[m].materialCategoryId

=============================================================================
