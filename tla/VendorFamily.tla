---------------------------- MODULE VendorFamily ----------------------------
(***************************************************************************)
(* The vendors of an organization next to one another: their names, their  *)
(* parent companies and the ways a vendor comes into being, which are      *)
(* create, clone and the import of a file by VendorImportService. A handler*)
(* runs to its end before the next one begins; the import validates, reads *)
(* and writes all of its rows in one step or none.                         *)
(*                                                                         *)
(* Abstracted: a kind stands for a vendor type and a material category; the*)
(* statutory numbers; everything Vendor.tla is about, pending requests and *)
(* dependencies among it, which may refuse a removal.                      *)
(***************************************************************************)
EXTENDS Integers, FiniteSets

CONSTANTS
  Vendors, VendorNames, Kinds,
  NoParent,
  MaxFamilyDepth   \* MAX_PARENT_DEPTH of vendor.service.ts

ASSUME FamilyAssumption ==
  /\ IsFiniteSet(Vendors) /\ VendorNames # {} /\ Kinds # {}
  /\ NoParent \notin Vendors /\ MaxFamilyDepth \in Nat \ {0}

VARIABLES
  vendors,   \* the row of each vendor
  kinds      \* the vendor types and material categories there are

familyVars == <<vendors, kinds>>

\* `imported` is kept by nothing: the row was inserted by an import.
VendorRow == [state: {"absent", "live", "deleted"}, vendorName: VendorNames, kind: Kinds,
              parentCompanyId: Vendors \cup {NoParent}, imported: BOOLEAN]

FamilyTypeOK ==
  /\ vendors \in [Vendors -> VendorRow]
  /\ kinds \in [Kinds -> {"absent", "active", "inactive"}]

FamilyInit ==
  /\ vendors = [v \in Vendors |->
                  [state |-> "absent", vendorName |-> CHOOSE n \in VendorNames : TRUE,
                   kind |-> CHOOSE k \in Kinds : TRUE, parentCompanyId |-> NoParent, imported |-> FALSE]]
  /\ kinds = [k \in Kinds |-> "absent"]

-----------------------------------------------------------------------------
LiveVendors == {v \in Vendors : vendors[v].state = "live"}

Unborn(v) == vendors[v].state = "absent"

\* The company n generations above v, whether it is deleted or not.
CompanyAbove(v) ==
  LET up[n \in 0..Cardinality(Vendors) + MaxFamilyDepth] ==
        IF n = 0 THEN v
        ELSE IF up[n - 1] = NoParent THEN NoParent ELSE vendors[up[n - 1]].parentCompanyId
  IN  up

\* Mutant: only the parent's own parent is looked at.
MayBelongTo_Near(v, parent) ==
  parent # NoParent => parent # v /\ parent \in LiveVendors /\ vendors[parent].parentCompanyId # v

\* validateParentCompany of a vendor there is.
MayBelongTo(v, parent) ==
  parent # NoParent =>
    /\ parent # v /\ parent \in LiveVendors
    /\ \A n \in 1..MaxFamilyDepth : CompanyAbove(parent)[n] # v
    /\ CompanyAbove(parent)[MaxFamilyDepth] = NoParent

\* Mutant: an update may take any name.
VendorNameFree_Unasked(v, name) == vendors[v].state = "live" \/ \A w \in LiveVendors : vendors[w].vendorName # name

\* assertNoDuplicate, as far as names go.
VendorNameFree(v, name) == \A w \in LiveVendors \ {v} : vendors[w].vendorName # name

\* validateVendorType.
KindUsable(k) == kinds[k] = "active"

KindTurns(k, state) ==
  /\ kinds' = [kinds EXCEPT ![k] = state]
  /\ UNCHANGED vendors

NewVendor(v, name, k, parent, imported) ==
  [state |-> "live", vendorName |-> name, kind |-> k, parentCompanyId |-> parent, imported |-> imported]

\* create: a new vendor is below nobody's subsidiary, however deep the parent is.
CreateVendor(v, name, k, parent) ==
  /\ Unborn(v) /\ KindUsable(k)
  /\ parent \in LiveVendors \cup {NoParent}
  /\ VendorNameFree(v, name)
  /\ vendors' = [vendors EXCEPT ![v] = NewVendor(v, name, k, parent, FALSE)]
  /\ UNCHANGED kinds

\* clone, under the name given or derived, below the parent of its source.
CloneVendor(v, source, name) ==
  /\ Unborn(v) /\ source \in LiveVendors /\ KindUsable(vendors[source].kind)
  /\ VendorNameFree(v, name)
  /\ vendors' = [vendors EXCEPT ![v] =
                   NewVendor(v, name, vendors[source].kind, vendors[source].parentCompanyId, FALSE)]
  /\ UNCHANGED kinds

\* update: the parent sent is validated even if it stays, a name only if it changes.
UpdateVendor(v, name, k, parent) ==
  /\ v \in LiveVendors
  /\ MayBelongTo(v, parent)
  /\ k # vendors[v].kind => KindUsable(k)
  /\ name # vendors[v].vendorName => VendorNameFree(v, name)
  /\ vendors' = [vendors EXCEPT ![v].vendorName = name, ![v].kind = k, ![v].parentCompanyId = parent]
  /\ UNCHANGED kinds

\* remove: refused to the parent of a vendor that is not deleted.
RemoveVendor(v) ==
  /\ v \in LiveVendors
  /\ \A w \in LiveVendors : vendors[w].parentCompanyId # v
  /\ vendors' = [vendors EXCEPT ![v].state = "deleted"]
  /\ UNCHANGED kinds

-----------------------------------------------------------------------------
(* The import.                                                             *)

\* matchExisting: by name, type and category together, and not by name alone.
Matched(row) == {w \in LiveVendors : vendors[w].vendorName = row.name /\ vendors[w].kind = row.kind}

\* A file of rows, one for each name and kind, whose new vendors are to be those of
\* `ids`. A kind that is missing is created on the way; a row with a match updates
\* that vendor's contact or is skipped.
ImportVendors(ids, rowOf) ==
  /\ \A v \in ids : /\ Unborn(v) /\ kinds[rowOf[v].kind] # "inactive"
                    /\ Matched(rowOf[v]) = {}
  /\ \A v, w \in ids : rowOf[v] = rowOf[w] => v = w
  /\ vendors' = [v \in Vendors |->
                   IF v \in ids THEN NewVendor(v, rowOf[v].name, rowOf[v].kind, NoParent, TRUE) ELSE vendors[v]]
  /\ kinds' = [k \in Kinds |-> IF k \in {rowOf[v].kind : v \in ids} THEN "active" ELSE kinds[k]]

FamilyNext ==
  \/ \E k \in Kinds, state \in {"active", "inactive"} : KindTurns(k, state)
  \/ \E v \in Vendors, name \in VendorNames :
       \/ \E k \in Kinds, parent \in Vendors \cup {NoParent} :
            CreateVendor(v, name, k, parent) \/ UpdateVendor(v, name, k, parent)
       \/ \E source \in Vendors : CloneVendor(v, source, name)
  \/ \E v \in Vendors : RemoveVendor(v)
  \/ \E ids \in SUBSET Vendors \ {{}} : \E rowOf \in [ids -> [name: VendorNames, kind: Kinds]] : ImportVendors(ids, rowOf)

FamilySpec == FamilyInit /\ [][FamilyNext]_familyVars

-----------------------------------------------------------------------------
(* Properties.                                                             *)

\* However vendors were created, cloned, moved and removed: a vendor that is not
\* deleted has a parent that is not, and no company is above itself, though neither
\* create nor clone looks further up than the parent.
FamilyIsSound ==
  \A v \in LiveVendors :
    /\ vendors[v].parentCompanyId \in LiveVendors \cup {NoParent}
    /\ CompanyAbove(v)[Cardinality(Vendors)] = NoParent

\* Vendor names are unique in the organization but for what imports insert, which do
\* not ask: of two vendors of one name at least one came by an import.
NamesClashByImport ==
  \A v, w \in LiveVendors :
    v # w /\ vendors[v].vendorName = vendors[w].vendorName => vendors[v].imported \/ vendors[w].imported

=============================================================================
