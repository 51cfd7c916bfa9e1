---------------------------- MODULE OrgStructure ----------------------------
(***************************************************************************)
(* Departments, disciplines, the department-discipline mappings and the    *)
(* activities that hang off them: DepartmentService, DisciplineService,    *)
(* DepartmentDisciplineService and ActivityService. A row is deleted by a  *)
(* flag, and no service asks whether another row needs it. The unique keys *)
(* of mappings and of activity names count deleted rows, the services'     *)
(* checks do not: what the key refuses fails without a trace. Handlers run *)
(* one at a time; their code is drawn as in MasterCodes.                   *)
(*                                                                         *)
(* Abstracted: names of departments and disciplines, which need not be     *)
(* unique; isActive of an activity, which decides nothing here. Old        *)
(* disciplines without a department are left out.                          *)
(***************************************************************************)
EXTENDS Integers

CONSTANTS Departments, Disciplines, Activities, ActivityNames   \* rows and names there may be

ASSUME StructureAssumption == Departments # {} /\ Disciplines # {} /\ ActivityNames # {}

VARIABLES
  departments,   \* the state of each department
  disciplines,   \* each discipline's state and own department
  mappings,      \* mappings[d][x]: the row of department d and discipline x
  activities

structureVars == <<departments, disciplines, mappings, activities>>

RowState == {"absent", "active", "inactive", "deleted"}

\* The department of a discipline that is absent means nothing.
DisciplineRow == [state: RowState, departmentId: Departments]

\* departmentId and disciplineId are columns of the activity, next to its mapping.
ActivityRow == [state: {"absent", "live", "deleted"}, isSystem: BOOLEAN,
                mapping: Departments \X Disciplines, departmentId: Departments,
                disciplineId: Disciplines, name: ActivityNames]

StructureTypeOK ==
  /\ departments \in [Departments -> RowState]
  /\ disciplines \in [Disciplines -> DisciplineRow]
  /\ mappings \in [Departments -> [Disciplines -> RowState]]
  /\ activities \in [Activities -> ActivityRow]

StructureInit ==
  /\ departments = [d \in Departments |-> "absent"]
  /\ disciplines = [x \in Disciplines |->
                      [state |-> "absent", departmentId |-> CHOOSE d \in Departments : TRUE]]
  /\ mappings = [d \in Departments |-> [x \in Disciplines |-> "absent"]]
  /\ activities = [a \in Activities |->
                     LET d == CHOOSE d \in Departments : TRUE
                         x == CHOOSE x \in Disciplines : TRUE
                     IN  [state |-> "absent", isSystem |-> FALSE, mapping |-> <<d, x>>,
                          departmentId |-> d, disciplineId |-> x, name |-> CHOOSE n \in ActivityNames : TRUE]]

-----------------------------------------------------------------------------
(* Departments.                                                            *)

CreateDepartment(d, state) ==
  /\ departments[d] = "absent"
  /\ departments' = [departments EXCEPT ![d] = state]
  /\ UNCHANGED <<disciplines, mappings, activities>>

UpdateDepartment(d, state) ==
  /\ departments[d] \in {"active", "inactive"}
  /\ departments' = [departments EXCEPT ![d] = state]
  /\ UNCHANGED <<disciplines, mappings, activities>>

RemoveDepartment(d) ==
  /\ departments[d] \in {"active", "inactive"}
  /\ departments' = [departments EXCEPT ![d] = "deleted"]
  /\ UNCHANGED <<disciplines, mappings, activities>>

\* assertActiveDepartment and validateDepartment.
ActiveDepartment(d) == departments[d] = "active"

-----------------------------------------------------------------------------
(* Disciplines.                                                            *)

CreateDiscipline(x, d, state) ==
  /\ disciplines[x].state = "absent"
  /\ ActiveDepartment(d)
  /\ disciplines' = [disciplines EXCEPT ![x] = [state |-> state, departmentId |-> d]]
  /\ UNCHANGED <<departments, mappings, activities>>

\* update: a department that stays may have been deactivated or deleted.
UpdateDiscipline(x, d, state) ==
  /\ disciplines[x].state \in {"active", "inactive"}
  /\ d # disciplines[x].departmentId => ActiveDepartment(d)
  /\ disciplines' = [disciplines EXCEPT ![x] = [state |-> state, departmentId |-> d]]
  /\ UNCHANGED <<departments, mappings, activities>>

RemoveDiscipline(x) ==
  /\ disciplines[x].state \in {"active", "inactive"}
  /\ disciplines' = [disciplines EXCEPT ![x].state = "deleted"]
  /\ UNCHANGED <<departments, mappings, activities>>

\* validateDiscipline.
ActiveDiscipline(x) == disciplines[x].state = "active"

-----------------------------------------------------------------------------
(* Mappings, whose department need not be the discipline's own.            *)

\* create: assertUnique looks at live rows, the key refuses to insert over a deleted one.
CreateMapping(d, x, state) ==
  /\ ActiveDepartment(d) /\ ActiveDiscipline(x)
  /\ mappings[d][x] = "absent"
  /\ mappings' = [mappings EXCEPT ![d][x] = state]
  /\ UNCHANGED <<departments, disciplines, activities>>

\* bulkCreate: those that are mapped already are skipped; a deleted one fails them all.
BulkCreateMappings(d, listed) ==
  /\ ActiveDepartment(d) /\ \A x \in listed : ActiveDiscipline(x)
  /\ \A x \in listed : mappings[d][x] # "deleted"
  /\ mappings' = [mappings EXCEPT ![d] =
                    [x \in Disciplines |-> IF x \in listed /\ @[x] = "absent" THEN "active" ELSE @[x]]]
  /\ UNCHANGED <<departments, disciplines, activities>>

UpdateMapping(d, x, state) ==
  /\ mappings[d][x] \in {"active", "inactive"}
  /\ mappings' = [mappings EXCEPT ![d][x] = state]
  /\ UNCHANGED <<departments, disciplines, activities>>

\* remove: its activities are not asked about and stay.
RemoveMapping(d, x) ==
  /\ mappings[d][x] \in {"active", "inactive"}
  /\ mappings' = [mappings EXCEPT ![d][x] = "deleted"]
  /\ UNCHANGED <<departments, disciplines, activities>>

-----------------------------------------------------------------------------
(* Activities.                                                             *)

\* What resolveMapping makes of the mappings for discipline x: its row with the
\* department the discipline has now is found, or inserted, or revived. This is
\* saved at once, whatever becomes of the call.
Resolved(x) == [mappings EXCEPT ![disciplines[x].departmentId][x] = "active"]

\* Where resolveMapping refuses.
Resolvable(x) ==
  /\ ActiveDiscipline(x)
  /\ mappings[disciplines[x].departmentId][x] # "inactive"

\* assertUniqueName, and the key over (mapping, name), which counts deleted rows too.
NameFree(m, name) == \A a \in Activities : activities[a].state # "absent" /\ activities[a].mapping = m
                                             => activities[a].name # name

\* Mutant: the department is read off the discipline.
Placed_ByDiscipline(m, name, isSystem) ==
  [state |-> "live", isSystem |-> isSystem, mapping |-> m,
   departmentId |-> disciplines[m[2]].departmentId, disciplineId |-> m[2], name |-> name]

\* The row of a new activity.
Placed(m, name, isSystem) ==
  [state |-> "live", isSystem |-> isSystem, mapping |-> m,
   departmentId |-> m[1], disciplineId |-> m[2], name |-> name]

\* create and bulkCreate once the mapping is there: all of the rows or none. Only create
\* makes a system activity.
Insert(m, ids, naming, isSystem) ==
  /\ \A a \in ids : activities[a].state = "absent" /\ NameFree(m, naming[a])
  /\ \A a, b \in ids : isSystem \/ naming[a] = naming[b] => a = b
  /\ activities' = [a \in Activities |->
                      IF a \in ids THEN Placed(m, naming[a], isSystem) ELSE activities[a]]

\* The mapping is named by its discipline.
CreateInDiscipline(x, ids, naming, isSystem) ==
  /\ Resolvable(x)
  /\ mappings' = Resolved(x)
  /\ Insert(<<disciplines[x].departmentId, x>>, ids, naming, isSystem)
  /\ UNCHANGED <<departments, disciplines>>

\* The mapping is named by its id; its department and discipline are not looked at.
CreateInMapping(d, x, ids, naming, isSystem) ==
  /\ mappings[d][x] = "active"
  /\ Insert(<<d, x>>, ids, naming, isSystem)
  /\ UNCHANGED <<departments, disciplines, mappings>>

\* update of the name and of isSystem; the rest of the row stays where it is.
UpdateActivity(a, name, isSystem) ==
  /\ activities[a].state = "live"
  /\ name # activities[a].name => NameFree(activities[a].mapping, name)
  /\ activities' = [activities EXCEPT ![a].name = name, ![a].isSystem = isSystem]
  /\ UNCHANGED <<departments, disciplines, mappings>>

RemoveActivity(a) ==
  /\ activities[a].state = "live" /\ ~activities[a].isSystem
  /\ activities' = [activities EXCEPT ![a].state = "deleted"]
  /\ UNCHANGED <<departments, disciplines, mappings>>

-----------------------------------------------------------------------------
DepartmentStep ==
  \E d \in Departments :
    \/ \E state \in {"active", "inactive"} : CreateDepartment(d, state) \/ UpdateDepartment(d, state)
    \/ RemoveDepartment(d)

DisciplineStep ==
  \E x \in Disciplines :
    \/ \E d \in Departments, state \in {"active", "inactive"} :
         CreateDiscipline(x, d, state) \/ UpdateDiscipline(x, d, state)
    \/ RemoveDiscipline(x)

MappingStep ==
  \E d \in Departments :
    \/ \E x \in Disciplines, state \in {"active", "inactive"} :
         CreateMapping(d, x, state) \/ UpdateMapping(d, x, state)
    \/ \E x \in Disciplines : RemoveMapping(d, x)
    \/ \E listed \in SUBSET Disciplines : BulkCreateMappings(d, listed)

ActivityStep ==
  \/ \E x \in Disciplines, ids \in SUBSET Activities, isSystem \in BOOLEAN :
       \E naming \in [ids -> ActivityNames] :
         \/ CreateInDiscipline(x, ids, naming, isSystem)
         \/ \E d \in Departments : CreateInMapping(d, x, ids, naming, isSystem)
  \/ \E a \in Activities :
       \/ \E name \in ActivityNames, isSystem \in BOOLEAN : UpdateActivity(a, name, isSystem)
       \/ RemoveActivity(a)

StructureNext == DepartmentStep \/ DisciplineStep \/ MappingStep \/ ActivityStep

StructureSpec == StructureInit /\ [][StructureNext]_structureVars

-----------------------------------------------------------------------------
(* Properties.                                                             *)

\* An activity's own department and discipline are those of the mapping it hangs off,
\* though its discipline may have moved and the mapping been deleted and revived: the
\* lists by department and by mapping agree.
ActivityFollowsMapping ==
  \A a \in Activities : activities[a].state # "absent" =>
    /\ activities[a].mapping = <<activities[a].departmentId, activities[a].disciplineId>>
    /\ mappings[activities[a].departmentId][activities[a].disciplineId] # "absent"

=============================================================================
