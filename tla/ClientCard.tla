----------------------------- MODULE ClientCard -----------------------------
(***************************************************************************)
(* The address and contact lists of one client, which ClientService        *)
(* replaces as a whole: syncAddresses and syncContacts update the rows     *)
(* that are named, insert the ones without an id and delete the rest, in   *)
(* one transaction with the client. Two rules span a list: one registered  *)
(* office, one primary contact.                                            *)
(*                                                                         *)
(* Abstracted: names, lines and phone numbers; the check of the version an *)
(* update was made from. Rows are never reused: an id is inserted once.    *)
(***************************************************************************)
EXTENDS Integers, FiniteSets

CONSTANTS AddressIds, ContactIds

VARIABLES
  sameAsRegistered,   \* operationalAddressSameAsRegistered
  addresses,
  contacts

cardVars == <<sameAsRegistered, addresses, contacts>>

AddressTypes == {"REGISTERED", "OPERATIONAL"}

ContactFlags == [isPrimary: BOOLEAN, isActive: BOOLEAN]

AddressRow == AddressTypes \cup {"absent", "deleted"}

\* What deletion leaves of a contact.
NoContact == [state |-> "absent", isPrimary |-> FALSE, isActive |-> FALSE]

ContactRow == [state: {"absent", "live", "deleted"}, isPrimary: BOOLEAN, isActive: BOOLEAN]

CardTypeOK ==
  /\ sameAsRegistered \in BOOLEAN
  /\ addresses \in [AddressIds -> AddressRow]
  /\ contacts \in [ContactIds -> ContactRow]

CardInit ==
  /\ sameAsRegistered = TRUE
  /\ addresses = [a \in AddressIds |-> "absent"]
  /\ contacts = [k \in ContactIds |-> NoContact]

-----------------------------------------------------------------------------
LiveAddresses == {a \in AddressIds : addresses[a] \in AddressTypes}

LiveContacts == {k \in ContactIds : contacts[k].state = "live"}

\* A list names rows that are live, and ids to be inserted.
AddressLists == UNION {[S -> AddressTypes] : S \in SUBSET {a \in AddressIds : addresses[a] # "deleted"}}

ContactLists == UNION {[S -> ContactFlags] : S \in SUBSET {k \in ContactIds : contacts[k].state # "deleted"}}

\* assertChildRules of a list of addresses.
AddressRules(list, sameAs) ==
  /\ Cardinality({a \in DOMAIN list : list[a] = "REGISTERED"}) <= 1
  /\ sameAs => \A a \in DOMAIN list : list[a] # "OPERATIONAL"

\* assertChildRules of a list of contacts.
ContactRules(list) ==
  Cardinality({k \in DOMAIN list : list[k].isPrimary /\ list[k].isActive}) <= 1

SyncAddresses(list) ==
  addresses' = [a \in AddressIds |->
                  IF a \in DOMAIN list THEN list[a]
                  ELSE IF a \in LiveAddresses THEN "deleted" ELSE addresses[a]]

\* Mutant: the rows the list leaves out stay.
SyncContacts_Keeps(list) ==
  contacts' = [k \in ContactIds |->
                 IF k \in DOMAIN list
                 THEN [state |-> "live", isPrimary |-> list[k].isPrimary, isActive |-> list[k].isActive]
                 ELSE contacts[k]]

SyncContacts(list) ==
  contacts' = [k \in ContactIds |->
                 IF k \in DOMAIN list
                 THEN [state |-> "live", isPrimary |-> list[k].isPrimary, isActive |-> list[k].isActive]
                 ELSE IF k \in LiveContacts THEN [NoContact EXCEPT !.state = "deleted"] ELSE contacts[k]]

\* create and update with the lists that were sent; a list that was not sent is
\* left as it is, also when the flag changes.
SaveClient(sameAs) ==
  /\ sameAsRegistered' = sameAs
  /\ \/ \E list \in AddressLists : AddressRules(list, sameAs) /\ SyncAddresses(list)
     \/ UNCHANGED addresses
  /\ \/ \E list \in ContactLists : ContactRules(list) /\ SyncContacts(list)
     \/ UNCHANGED contacts

CardNext == \E sameAs \in BOOLEAN : SaveClient(sameAs)

CardSpec == CardInit /\ [][CardNext]_cardVars

-----------------------------------------------------------------------------
\* However often the lists were replaced, a client has one registered office and one
\* active primary contact at most: the list view joins the client with its primary
\* contact and would show the client twice.
OneOfEach ==
  /\ Cardinality({a \in AddressIds : addresses[a] = "REGISTERED"}) <= 1
  /\ Cardinality({k \in LiveContacts : contacts[k].isPrimary /\ contacts[k].isActive}) <= 1

=============================================================================
