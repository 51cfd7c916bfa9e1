-------------------------------- MODULE Office --------------------------------
(***************************************************************************)
(* The components around the requisitions, the vendors and the materials,  *)
(* checked in one run. They share no variable, no handler of one writes    *)
(* another's tables but as its module says, and every property is about one*)
(* of them; so one of them moves in each behavior, the one in focus, and   *)
(* the others rest at their initial states: what is checked of each is what*)
(* a run of its own would check, and their states add up instead of        *)
(* multiplying.                                                            *)
(***************************************************************************)
EXTENDS Accounts, Directory, ClientCard, Assignments, ServiceGroups, OrgStructure, Masters,
        Notifications, VendorRecords, VendorFamily, VendorImport, MaterialPlacement,
        RequisitionSheet, OrganizationFiles, RequisitionDesk,
        VendorMails

CONSTANTS
  SpareClient,   \* who joins in where clients move alone, so that they can form a line of three
  SpareVendor    \* who joins in where the kinds of vendors rest, for the same reason

ASSUME OfficeAssumption == SpareClient \in Clients /\ SpareVendor \in Vendors

VARIABLE focus

OfficeInit ==
  /\ focus \in {"accounts", "clients", "directory", "card", "assignments", "groups", "structure",
                "masters", "notices", "records", "companies", "family", "placement", "sheet", "files", "import", "desk",
                "mailroom"}
  /\ AccountsInit
  /\ DirectoryInit
  /\ CardInit
  /\ AssignmentsInit
  /\ GroupsInit
  /\ StructureInit
  /\ MastersInit
  /\ NoticesInit
  /\ RecordsInit
  /\ FamilyInit
  /\ PlacementInit
  /\ SheetInit
  /\ FilesInit
  /\ ImportInit
  /\ DeskInit
  /\ MailroomInit
  /\ focus # "masters" => rules = VendorType

AccountsMoves ==
  /\ focus = "accounts" /\ AccountsNext
  /\ UNCHANGED <<focus, directoryVars, cardVars, assignmentVars, groupVars, structureVars,
                 masterVars, noticeVars, recordVars, familyVars, placementVars, sheetVars,
                 fileVars, importVars, deskVars, mailroomVars>>

ClientMoves ==
  /\ focus = "clients" /\ ClientStep
  /\ UNCHANGED <<focus, projects, wbsCodes, requisitions, accountVars, cardVars, assignmentVars,
                 groupVars, structureVars, masterVars, noticeVars, recordVars, familyVars,
                 placementVars, sheetVars, fileVars, importVars, deskVars, mailroomVars>>

DirectoryMoves ==
  /\ focus = "directory" /\ DirectoryNext /\ clients'[SpareClient] = clients[SpareClient]
  /\ UNCHANGED <<focus, accountVars, cardVars, assignmentVars, groupVars, structureVars,
                 masterVars, noticeVars, recordVars, familyVars, placementVars, sheetVars,
                 fileVars, importVars, deskVars, mailroomVars>>

CardMoves ==
  /\ focus = "card" /\ CardNext
  /\ UNCHANGED <<focus, accountVars, directoryVars, assignmentVars, groupVars, structureVars,
                 masterVars, noticeVars, recordVars, familyVars, placementVars, sheetVars,
                 fileVars, importVars, deskVars, mailroomVars>>

AssignmentsMoves ==
  /\ focus = "assignments" /\ AssignmentsNext
  /\ UNCHANGED <<focus, accountVars, directoryVars, cardVars, groupVars, structureVars,
                 masterVars, noticeVars, recordVars, familyVars, placementVars, sheetVars,
                 fileVars, importVars, deskVars, mailroomVars>>

GroupsMoves ==
  /\ focus = "groups" /\ GroupsNext
  /\ UNCHANGED <<focus, accountVars, directoryVars, cardVars, assignmentVars, structureVars,
                 masterVars, noticeVars, recordVars, familyVars, placementVars, sheetVars,
                 fileVars, importVars, deskVars, mailroomVars>>

StructureMoves ==
  /\ focus = "structure" /\ StructureNext
  /\ UNCHANGED <<focus, accountVars, directoryVars, cardVars, assignmentVars, groupVars,
                 masterVars, noticeVars, recordVars, familyVars, placementVars, sheetVars,
                 fileVars, importVars, deskVars, mailroomVars>>

MastersMoves ==
  /\ focus = "masters" /\ MastersNext
  /\ UNCHANGED <<focus, accountVars, directoryVars, cardVars, assignmentVars, groupVars,
                 structureVars, noticeVars, recordVars, familyVars, placementVars, sheetVars,
                 fileVars, importVars, deskVars, mailroomVars>>

NoticesMoves ==
  /\ focus = "notices" /\ NoticesNext
  /\ UNCHANGED <<focus, accountVars, directoryVars, cardVars, assignmentVars, groupVars,
                 structureVars, masterVars, recordVars, familyVars, placementVars, sheetVars,
                 fileVars, importVars, deskVars, mailroomVars>>

RecordsMoves ==
  /\ focus = "records" /\ RecordsNext
  /\ UNCHANGED <<focus, accountVars, directoryVars, cardVars, assignmentVars, groupVars,
                 structureVars, masterVars, noticeVars, familyVars, placementVars, sheetVars,
                 fileVars, importVars, deskVars, mailroomVars>>

CompanyMoves ==
  /\ focus = "companies" /\ FamilyNext
  /\ (\E v \in Vendors : ~Unborn(v)) => UNCHANGED kinds
  /\ UNCHANGED <<focus, accountVars, directoryVars, cardVars, assignmentVars, groupVars,
                 structureVars, masterVars, noticeVars, recordVars, placementVars, sheetVars,
                 fileVars, importVars, deskVars, mailroomVars>>

FamilyMoves ==
  /\ focus = "family" /\ FamilyNext /\ vendors'[SpareVendor] = vendors[SpareVendor]
  /\ UNCHANGED <<focus, accountVars, directoryVars, cardVars, assignmentVars, groupVars,
                 structureVars, masterVars, noticeVars, recordVars, placementVars, sheetVars,
                 fileVars, importVars, deskVars, mailroomVars>>

PlacementMoves ==
  /\ focus = "placement" /\ PlacementNext
  /\ UNCHANGED <<focus, accountVars, directoryVars, cardVars, assignmentVars, groupVars,
                 structureVars, masterVars, noticeVars, recordVars, familyVars, sheetVars,
                 fileVars, importVars, deskVars, mailroomVars>>

SheetMoves ==
  /\ focus = "sheet" /\ SheetNext
  /\ UNCHANGED <<focus, accountVars, directoryVars, cardVars, assignmentVars, groupVars,
                 structureVars, masterVars, noticeVars, recordVars, familyVars, placementVars,
                 fileVars, importVars, deskVars, mailroomVars>>

FilesMoves ==
  /\ focus = "files" /\ FilesNext
  /\ UNCHANGED <<focus, accountVars, directoryVars, cardVars, assignmentVars, groupVars,
                 structureVars, masterVars, noticeVars, recordVars, familyVars, placementVars,
                 sheetVars, importVars, deskVars, mailroomVars>>

ImportMoves ==
  /\ focus = "import" /\ ImportNext
  /\ UNCHANGED <<focus, accountVars, directoryVars, cardVars, assignmentVars, groupVars,
                 structureVars, masterVars, noticeVars, recordVars, familyVars, placementVars,
                 sheetVars, fileVars, deskVars, mailroomVars>>

DeskMoves ==
  /\ focus = "desk" /\ DeskNext
  /\ UNCHANGED <<focus, accountVars, directoryVars, cardVars, assignmentVars, groupVars,
                 structureVars, masterVars, noticeVars, recordVars, familyVars, placementVars,
                 sheetVars, fileVars, importVars, mailroomVars>>

MailroomMoves ==
  /\ focus = "mailroom" /\ MailroomNext
  /\ UNCHANGED <<focus, accountVars, directoryVars, cardVars, assignmentVars, groupVars,
                 structureVars, masterVars, noticeVars, recordVars, familyVars, placementVars,
                 sheetVars, fileVars, importVars, deskVars>>

OfficeNext ==
  \/ AccountsMoves
  \/ ClientMoves
  \/ DirectoryMoves
  \/ CardMoves
  \/ AssignmentsMoves
  \/ GroupsMoves
  \/ StructureMoves
  \/ MastersMoves
  \/ NoticesMoves
  \/ RecordsMoves
  \/ CompanyMoves
  \/ FamilyMoves
  \/ PlacementMoves
  \/ SheetMoves
  \/ FilesMoves
  \/ ImportMoves
  \/ DeskMoves
  \/ MailroomMoves

officeVars == <<focus, accountVars, directoryVars, cardVars, assignmentVars, groupVars, structureVars,
                masterVars, noticeVars, recordVars, familyVars, placementVars, sheetVars, fileVars,
                importVars, deskVars, mailroomVars>>

OfficeSpec == OfficeInit /\ [][OfficeNext]_officeVars

-----------------------------------------------------------------------------
(* Properties: those of the modules, some of them together, each looked at *)
(* where its component moves; elsewhere that component is at its initial   *)
(* states.                                                                 *)

\* Every row, list and reference of every component has its type.
OfficeTypeOK ==
  /\ focus = "accounts" => AccountsTypeOK
  /\ focus \in {"clients", "directory"} => DirectoryTypeOK
  /\ focus = "card" => CardTypeOK
  /\ focus = "assignments" => AssignmentsTypeOK
  /\ focus = "groups" => GroupsTypeOK
  /\ focus = "structure" => StructureTypeOK
  /\ focus = "masters" => MastersTypeOK
  /\ focus = "notices" => NoticesTypeOK
  /\ focus = "records" => RecordsTypeOK
  /\ focus \in {"companies", "family"} => FamilyTypeOK
  /\ focus = "placement" => PlacementTypeOK
  /\ focus = "sheet" => SheetTypeOK
  /\ focus = "files" => FilesTypeOK
  /\ focus = "import" => ImportTypeOK
  /\ focus = "desk" => DeskTypeOK
  /\ focus = "mailroom" => MailroomTypeOK

\* Clients and their lists: whatever was re-parented, removed or replaced, no client is
\* above itself or below a deleted one, nor has two registered offices or two active
\* primary contacts (client.service.ts, assertParent and assertChildRules).
ClientsAreSound ==
  /\ focus \in {"clients", "directory"} => ParentsAreSound
  /\ focus = "card" => OneOfEach

\* Vendors next to one another and their papers: no circle of parents, a name twice only
\* by an import, one current document of a singleton type, which has the last number, and
\* no confirmed reference that was not confirmed on this record; and requests against one
\* are decided by who was asked, who also hear of a withdrawal (vendor.service.ts).
VendorsAreSound ==
  /\ focus \in {"companies", "family"} => FamilyIsSound /\ NamesClashByImport
  /\ focus = "records" => CurrentIsLatest /\ VerifiedIsVouched
  /\ focus = "mailroom" => DecidedByAsked /\ AskedHearOfWithdrawal

\* A file imported again would create nothing, imports alone make no vendor twice, and
\* contacts that come by imports and by edits have one primary among them
\* (vendor-import.service.ts).
ImportsAreSound == focus = "import" => ImportSettles /\ NoTwins /\ OnePrimary

\* What the sources of a requisition offer, a save accepts, no sheet lists a material or a
\* covering document twice (material-requisition.service.ts), who is shown a requisition, a
\* button or a notice is let through, and who is offered by a picker is accepted.
SheetsAreSound ==
  /\ focus = "sheet" => OffersAreAccepted /\ ListedOnce
  /\ focus = "desk" => ShownIsAllowed /\ PickedIsAccepted

\* The masters: an activity is where its mapping is, names that are to be unique are,
\* and a material's group is in its category, imports under way or not.
MastersAreSound ==
  /\ focus = "structure" => ActivityFollowsMapping
  /\ focus = "masters" => MasterNamesAreUnique
  /\ focus = "placement" => PlacedTogether

\* Users: whoever holds a session is verified, a project's assignments have one history,
\* and nobody is told of a step of their own or twice of one step.
PeopleAreSound ==
  /\ focus = "accounts" => SignedInIsVerified
  /\ focus = "assignments" => OneTracking
  /\ focus = "notices" => HeardOnce

=============================================================================
