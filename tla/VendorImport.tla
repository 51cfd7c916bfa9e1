---------------------------- MODULE VendorImport ----------------------------
(***************************************************************************)
(* How VendorImportService reads a file and finds its vendors again: names *)
(* are compared by `canon`, without regard to case and plural; a row       *)
(* without a vendor type is a supplier; a type nobody has is created on    *)
(* the way; a row matches a vendor by name, type and category together.    *)
(* VendorFamily has what an import does to vendors that are created and    *)
(* edited by other means; here the import meets its own earlier result.    *)
(*                                                                         *)
(* Abstracted: the category, which is read, created and matched as the type*)
(* is, but is never left blank; codes; the well-formedness of emails and   *)
(* numbers, and which rows have contact cells: all of them or none. Imports*)
(* run one after the other.                                                *)
(*                                                                         *)
(* Bound: MaxRows, the rows of a file.                                     *)
(***************************************************************************)
EXTENDS Naturals, Sequences, FiniteSets

CONSTANTS
  Companies,      \* vendor names, by what canon makes of them
  TypeNames,      \* names of vendor types, by what canon makes of them
  DefaultType,    \* DEFAULT_VENDOR_TYPE_NAME
  Blank,          \* an empty cell
  TypeRows,       \* ids of vendor types
  Suppliers,      \* ids of vendors
  MaxRows

ASSUME ImportAssumption ==
  /\ Companies # {} /\ TypeRows # {}
  /\ DefaultType \in TypeNames
  /\ Blank \notin Companies \cup TypeNames
  /\ MaxRows \in Nat

VARIABLES
  types,          \* the vendor types
  suppliers,      \* the vendors the imports made, and their primary contacts
  imported        \* history: what the import just made planned, if nothing happened since

importVars == <<types, suppliers, imported>>

TypeRow == [state: {"absent", "active", "inactive", "deleted"}, name: TypeNames]

\* `primaries`: how many live contacts of the vendor are primary.
SupplierRow == [state: {"absent", "live", "deleted"}, name: Companies, type: TypeRows, primaries: Nat]

\* What a planned row is known by (identityKey).
Identity == [name: Companies, type: TypeNames]

ImportTypeOK ==
  /\ types \in [TypeRows -> TypeRow]
  /\ suppliers \in [Suppliers -> SupplierRow]
  /\ imported \subseteq Identity

ImportInit ==
  /\ types = [t \in TypeRows |-> [state |-> "absent", name |-> DefaultType]]
  /\ suppliers = [v \in Suppliers |-> [state |-> "absent", name |-> CHOOSE n \in Companies : TRUE,
                                       type |-> CHOOSE t \in TypeRows : TRUE, primaries |-> 0]]
  /\ imported = {}

-----------------------------------------------------------------------------
(* Reading a file.                                                         *)

\* A cell as it is spelled; canon of it is what it says.
Spelled(words) == [says: words, plural: BOOLEAN]
Canon(cell) == cell.says

RawRow == [name: Spelled(Companies), type: TypeNames \cup {Blank}]

\* The rows parse hands over; blank rows are skipped there.
Files == UNION {[1..n -> RawRow] : n \in 1..MaxRows}

TypeNamed(row) == IF row.type = Blank THEN DefaultType ELSE row.type
IdentityKey(row) == [name |-> Canon(row.name), type |-> TypeNamed(row)]

LiveTypes(name) == {t \in TypeRows : types[t].state \in {"active", "inactive"} /\ types[t].name = name}

\* vendorTypeByName: the first one found.
TypeId(name) == CHOOSE t \in LiveTypes(name) : TRUE

\* Mutant: only rows spelled the same are duplicates.
Plannable_Spelled(file) ==
  /\ \A i, j \in DOMAIN file :
       file[i].name = file[j].name /\ TypeNamed(file[i]) = TypeNamed(file[j]) => i = j
  /\ \A i \in DOMAIN file : LET n == TypeNamed(file[i]) IN LiveTypes(n) # {} => types[TypeId(n)].state = "active"

\* validate finds no error in any row.
Plannable(file) ==
  /\ \A i, j \in DOMAIN file : IdentityKey(file[i]) = IdentityKey(file[j]) => i = j
  /\ \A i \in DOMAIN file : LET n == TypeNamed(file[i]) IN LiveTypes(n) # {} => types[TypeId(n)].state = "active"

NewTypeNames(file) == {n \in {TypeNamed(file[i]) : i \in DOMAIN file} : LiveTypes(n) = {}}

\* matchExisting, with the type a name is resolved to; nothing matches a type that is
\* yet to be created.
Matching(key, resolved) ==
  {v \in Suppliers : /\ suppliers[v].state = "live" /\ suppliers[v].name = key.name
                     /\ suppliers[v].type = resolved[key.type]}

\* preview's toCreate of a plan.
ToCreate(keys) == {k \in keys : LiveTypes(k.type) = {} \/ Matching(k, [n \in TypeNames |-> TypeId(n)]) = {}}

-----------------------------------------------------------------------------
(* The handlers.                                                           *)

Injective(f) == \A x, y \in DOMAIN f : f[x] = f[y] => x = y

\* Mutant: the contact of the sheet is always a new one.
WithContact_Another(row, sent) == [row EXCEPT !.primaries = IF sent THEN @ + 1 ELSE @]

\* savePrimaryContact, if contact cells were sent.
WithContact(row, sent) == [row EXCEPT !.primaries = IF sent /\ @ = 0 THEN 1 ELSE @]

\* import of a plan: the missing types, then each row a new vendor or, if asked, an
\* update.
Import(file, updateExisting, contact) ==
  LET rows     == {file[i] : i \in DOMAIN file}
      missing  == NewTypeNames(file)
      Free     == {t \in TypeRows : types[t].state = "absent"}
      Unborn   == {v \in Suppliers : suppliers[v].state = "absent"}
  IN /\ \E typeIds \in [missing -> Free] :
          LET resolved == [n \in TypeNames |->
                             IF n \in missing THEN typeIds[n] ELSE TypeId(n)]
              matched(r) == Matching(IdentityKey(r), resolved)
              created == {r \in rows : matched(r) = {}}
          IN /\ Injective(typeIds)
             /\ \E ids \in [created -> Unborn] :
                  /\ Injective(ids)
                  /\ types' = [t \in TypeRows |->
                       IF \E n \in missing : typeIds[n] = t
                       THEN [state |-> "active", name |-> CHOOSE n \in missing : typeIds[n] = t]
                       ELSE types[t]]
                  /\ suppliers' = [v \in Suppliers |->
                       IF \E r \in created : ids[r] = v
                       THEN LET r == CHOOSE x \in created : ids[x] = v
                            IN WithContact([state |-> "live", name |-> Canon(r.name),
                                            type |-> resolved[TypeNamed(r)], primaries |-> 0], contact)
                       ELSE IF updateExisting /\ \E r \in rows \ created : v = CHOOSE w \in matched(r) : TRUE
                       THEN LET r == CHOOSE x \in rows \ created : v = CHOOSE w \in matched(x) : TRUE
                            IN WithContact(suppliers[v], contact)
                       ELSE suppliers[v]]
     /\ imported' = {IdentityKey(r) : r \in rows}

\* VendorTypeService: enable, disable, rename, remove. Its check of the name compares
\* spellings, so two types may say the same.
TypeChanges(t) ==
  /\ types[t].state \in {"active", "inactive"}
  /\ \/ \E st \in {"active", "inactive", "deleted"} : types' = [types EXCEPT ![t].state = st]
     \/ \E n \in TypeNames : types' = [types EXCEPT ![t].name = n]
  /\ imported' = {}
  /\ UNCHANGED suppliers

\* VendorService: update with a list of contacts, of which one may be primary; remove.
SupplierChanges(v) ==
  /\ suppliers[v].state = "live"
  /\ \/ \E n \in 0..1 : suppliers' = [suppliers EXCEPT ![v].primaries = n]
     \/ suppliers' = [suppliers EXCEPT ![v].state = "deleted"]
  /\ imported' = {}
  /\ UNCHANGED types

ImportNext ==
  \/ \E file \in {f \in Files : Plannable(f)} :
       \E updateExisting, contact \in BOOLEAN : Import(file, updateExisting, contact)
  \/ \E t \in TypeRows : TypeChanges(t)
  \/ \E v \in Suppliers : SupplierChanges(v)

ImportSpec == ImportInit /\ [][ImportNext]_importVars

-----------------------------------------------------------------------------
(* Properties.                                                             *)

\* A file that was just imported would create nothing if it were imported again, and
\* preview would say so (validate, matchExisting).
ImportSettles == ToCreate(imported) = {}

\* Imports alone never make two vendors of one name and type, however the names are
\* spelled (identityKey, matchExisting).
NoTwins ==
  \A v, w \in Suppliers :
    /\ suppliers[v].state = "live" /\ suppliers[w].state = "live"
    /\ suppliers[v].name = suppliers[w].name /\ suppliers[v].type = suppliers[w].type
    => v = w

\* However contacts come to a vendor, one of them is primary at most
\* (assertSinglePrimary, savePrimaryContact).
OnePrimary == \A v \in Suppliers : suppliers[v].primaries <= 1

=============================================================================
