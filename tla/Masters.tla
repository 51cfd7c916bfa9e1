------------------------------ MODULE Masters ------------------------------
(***************************************************************************)
(* The master tables of an organization that stand on their own: industry  *)
(* categories, material categories and groups, units of measurement, and   *)
(* vendor, project and client types. Their services are written alike and  *)
(* differ in which rules they have, so there is one table here, of a kind  *)
(* chosen at the start. Rows are deleted by a flag. Handlers run one at a  *)
(* time; codes are drawn as in MasterCodes.                                *)
(*                                                                         *)
(* Abstracted: columns other than the name, isActive, isSystem and the     *)
(* category of a group. assertNotInUse refuses nothing: its body is empty  *)
(* in each of the services. No table has a unique key over names.          *)
(***************************************************************************)
EXTENDS Integers

CONSTANTS
  Masters,      \* rows there may be in the table
  MasterNames,
  Categories    \* material categories, the parents of material groups

ASSUME MastersAssumption == MasterNames # {} /\ Categories # {}

VARIABLES
  rules,        \* the kind of the table, which stays
  masters,      \* the rows
  categories    \* the state of each category

masterVars == <<rules, masters, categories>>

-----------------------------------------------------------------------------
(* The routes of each controller that change a row.                        *)

IndustryCategoryRoutes  == {"create", "update", "enable", "disable", "remove"}
MaterialCategoryRoutes  == {"create", "update", "enable", "disable", "remove"}
MaterialGroupRoutes     == {"create", "update", "enable", "disable", "remove"}
UnitOfMeasurementRoutes == {"create", "update", "remove"}
VendorTypeRoutes        == {"create", "update", "remove"}
ProjectTypeRoutes       == {"create", "update", "remove"}
ClientTypeRoutes        == {"create", "update", "remove"}

(* What each service has: names that must be free, system rows, a parent.  *)

IndustryCategory ==
  [kind |-> "industry category", uniqueNames |-> TRUE, systemRows |-> TRUE, parent |-> FALSE,
   routes |-> IndustryCategoryRoutes]
MaterialCategory ==
  [kind |-> "material category", uniqueNames |-> TRUE, systemRows |-> TRUE, parent |-> FALSE,
   routes |-> MaterialCategoryRoutes]
MaterialGroup ==
  [kind |-> "material group", uniqueNames |-> TRUE, systemRows |-> TRUE, parent |-> TRUE,
   routes |-> MaterialGroupRoutes]
UnitOfMeasurement ==
  [kind |-> "unit", uniqueNames |-> TRUE, systemRows |-> FALSE, parent |-> FALSE,
   routes |-> UnitOfMeasurementRoutes]
VendorType ==
  [kind |-> "vendor type", uniqueNames |-> FALSE, systemRows |-> FALSE, parent |-> FALSE,
   routes |-> VendorTypeRoutes]
ProjectType ==
  [kind |-> "project type", uniqueNames |-> FALSE, systemRows |-> FALSE, parent |-> FALSE,
   routes |-> ProjectTypeRoutes]
ClientType ==
  [kind |-> "client type", uniqueNames |-> FALSE, systemRows |-> FALSE, parent |-> FALSE,
   routes |-> ClientTypeRoutes]

MasterKinds ==
  {IndustryCategory, MaterialCategory, MaterialGroup, UnitOfMeasurement, VendorType, ProjectType, ClientType}

MasterRow == [state: {"absent", "active", "inactive", "deleted"}, isSystem: BOOLEAN,
              name: MasterNames, categoryId: Categories]

MastersTypeOK ==
  /\ rules \in MasterKinds
  /\ masters \in [Masters -> MasterRow]
  /\ categories \in [Categories -> {"active", "inactive", "deleted"}]

\* Where a row has no parent its categoryId means nothing and stays what it is here.
MastersInit ==
  /\ rules \in MasterKinds
  /\ masters = [i \in Masters |-> [state |-> "absent", isSystem |-> FALSE,
                                   name |-> CHOOSE n \in MasterNames : TRUE,
                                   categoryId |-> CHOOSE c \in Categories : TRUE]]
  /\ categories = [c \in Categories |-> "active"]

-----------------------------------------------------------------------------
\* The categories, by their own service, which does not ask for their groups.
CategoryTurns(c, state) ==
  /\ rules.parent /\ categories[c] \in {"active", "inactive"}
  /\ categories' = [categories EXCEPT ![c] = state]
  /\ UNCHANGED <<rules, masters>>

LiveMaster(i) == masters[i].state \in {"active", "inactive"}

\* assertUniqueName, in the category of a group; the row itself does not count.
MasterNameFree(i, name, c) ==
  rules.uniqueNames =>
    \A j \in Masters \ {i} : LiveMaster(j) /\ masters[j].categoryId = c => masters[j].name # name

\* create; only these services have an isSystem in the request.
CreateMaster(i, state, isSystem, name, c) ==
  /\ masters[i].state = "absent"
  /\ isSystem => rules.systemRows
  /\ IF rules.parent THEN categories[c] = "active" ELSE c = masters[i].categoryId
  /\ MasterNameFree(i, name, c)
  /\ masters' = [masters EXCEPT ![i] = [state |-> state, isSystem |-> isSystem, name |-> name, categoryId |-> c]]
  /\ UNCHANGED <<rules, categories>>

\* Mutant: a new name is not asked for.
UpdateMaster_Unasked(i, state, name) ==
  /\ LiveMaster(i)
  /\ masters' = [masters EXCEPT ![i].state = state, ![i].name = name]
  /\ UNCHANGED <<rules, categories>>

\* update: isActive may be in the request, the category of a group is not asked then.
UpdateMaster(i, state, name) ==
  /\ LiveMaster(i)
  /\ name # masters[i].name => MasterNameFree(i, name, masters[i].categoryId)
  /\ masters' = [masters EXCEPT ![i].state = state, ![i].name = name]
  /\ UNCHANGED <<rules, categories>>

\* enable; a group asks whether its category is active.
EnableMaster(i) ==
  /\ masters[i].state = "inactive"
  /\ rules.parent => categories[masters[i].categoryId] = "active"
  /\ masters' = [masters EXCEPT ![i].state = "active"]
  /\ UNCHANGED <<rules, categories>>

DisableMaster(i) ==
  /\ masters[i].state = "active"
  /\ masters' = [masters EXCEPT ![i].state = "inactive"]
  /\ UNCHANGED <<rules, categories>>

RemoveMaster(i) ==
  /\ LiveMaster(i) /\ ~masters[i].isSystem
  /\ masters' = [masters EXCEPT ![i].state = "deleted"]
  /\ UNCHANGED <<rules, categories>>

MastersNext ==
  \/ \E c \in Categories, state \in {"active", "inactive", "deleted"} : CategoryTurns(c, state)
  \/ \E i \in Masters :
       \/ \E state \in {"active", "inactive"}, name \in MasterNames :
            \/ \E isSystem \in BOOLEAN, c \in Categories :
                 "create" \in rules.routes /\ CreateMaster(i, state, isSystem, name, c)
            \/ "update" \in rules.routes /\ UpdateMaster(i, state, name)
       \/ "enable" \in rules.routes /\ EnableMaster(i)
       \/ "disable" \in rules.routes /\ DisableMaster(i)
       \/ "remove" \in rules.routes /\ RemoveMaster(i)

MastersSpec == MastersInit /\ [][MastersNext]_masterVars

-----------------------------------------------------------------------------
\* No two rows that are not deleted have one name, in one category where there are
\* categories, for those services that promise it: create and update keep it together,
\* and a name that a deletion set free may be taken.
MasterNamesAreUnique ==
  rules.uniqueNames =>
    \A i, j \in Masters :
      /\ i # j /\ LiveMaster(i) /\ LiveMaster(j)
      /\ masters[i].categoryId = masters[j].categoryId
      => masters[i].name # masters[j].name

=============================================================================
