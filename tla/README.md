# pm-api: a verification project

pm-api is the NestJS / TypeORM back end of a procurement application. Organizations keep clients,
projects, materials and vendors, raise material requisitions against projects, have them reviewed and
approved, and follow every document on a workflow timeline. This directory holds TLA+ models of its
core logic, the TLC configurations that check them on small instances, and TLAPS proofs that hold for
every value of the constants.

Paths below are relative to `src/src/`; `MRS` stands for
`modules/material-requisition/material-requisition.service.ts` and `MRW` for
`material-requisition-workflow.service.ts` beside it.

- [Inventory](#inventory): the system's parts
- [Modules](#modules): what models what, and how it corresponds to the code
- [Runs](#runs): what TLC checks, with which bounds
- [Findings](#findings): where code and comments part
- [Proofs](#proofs): what is proved, and along which argument
- [Not modelled](#what-is-abstracted-and-what-is-not-modelled)
- [Growing it](#growing-it)

## Inventory

All state is in one SQL database; a handler is an HTTP request served by a single `async` method that
reads rows, checks them and writes them, sometimes inside `dataSource.transaction`. Any number of
requests run at once, in one process or several: between two `await`s of one, any step of another may
happen. Only a few handlers take a row lock (`pessimistic_write`). No queue and no scheduler is part
of the repository; emails are sent after the transaction and their failure is logged and ignored.
That is where the hard behaviour comes from: state that was read and checked outside a transaction
and saved inside it, long legal sequences of calls, and three or four rows that must keep agreeing.

| component | state | operations | interacts with | hard behaviour | what makes it correct |
|---|---|---|---|---|---|
| **Material requisition workflow** (`modules/material-requisition`) | the requisition row (status, status before hold, round, lock, deletion), its lines, one participant row per role and user | create, update, submit, updateParticipants, review, approve, changeStatus, lockForPurchaseOrder, remove | timeline, users, projects, WBS codes | five handlers save an entity read before their transaction; rounds, holds and re-enabling; participants replaced while people decide | nothing stands reviewed or approved that was not decided in this round on this content; a purchase order freezes it |
| **Workflow tracking** (`modules/workflow-tracking`) | tracking numbers and an append-only list of events per document | allocate, record, timeline; `assertProjectEditable` and its like | requisitions, projects, clients | written in the caller's transaction, read elsewhere | the timeline and the document agree |
| **Vendor lifecycle and maker-checker** (`modules/vendor`) | the vendor row (status, availability, pending mark) and its status change requests | create, clone, update, addEvaluation, enable, disable, remove; raise, approve, reject, cancel, expire | notifications, emailed one-time links | a request and its mark on two tables; decisions racing edits, withdrawals and expiry | one person never blacklists a vendor or lifts it alone |
| **Material lifecycle and documents** (`modules/material`) | the material row (status, purchase order lock), versioned document rows, deprecated URL columns | create, clone, update, import, addDocument, removeDocument, backfill, markPurchaseOrderIssued, enable, disable, obsolete, remove | purchase orders (outside), material masters | version chains under replacement and deletion; columns derived from rows; what an order froze | chains do not fork, history is not lost, what an order was priced against stays |
| **Master code counters** (`common/services/master-code.service.ts`) | one counter row per organization and master | next code, under `FOR UPDATE`, in the caller's transaction | every master with a code | two first inserts; a rollback after drawing; counters locked in opposite orders; two seedings of the client types at once | no code twice, no gap, defaults seeded once, every call ends |
| **Vendor import** (`modules/vendor/vendor-import.service.ts`) | vendor types, categories, vendors, primary contacts | preview, import | vendors, masters, codes | matches by spelling, creates masters on the way, does not look for names | a file imported again creates nothing |
| **Users, roles and sessions** (`modules/auth`, `modules/user`) | users, verification codes, refresh tokens | register, verify, resend, login, updateUser, toggleStatus, adminResetPassword, deleteUser | everything that names a user | no transaction anywhere; accounts registered again; sessions that outlive a role | a session means a verified address; no deletion takes the last administrator |
| **Notifications** (`modules/notification`) | one row per user and source | fan-out, backfill, read, archive, remove | timeline, emails | repeated and interrupted fan-out; saves of rows read earlier | one per step, never about one's own; only a save undoes what its user did |
| **Requisition emails and audience** | nothing of their own | submitted, reviewed, joined, ended; who is concerned | requisitions, users, assignments | started after the commit, read what stands by then, are lost | whoever is to decide was asked |
| **Project assignments** (`modules/user-project-mapping`) | one row per project and user, revived and never deleted | create, update, updateStatus, remove | projects, access scope | sets computed before the transaction | nobody comes back whom no call added; one tracking id |
| **Projects, clients, WBS / cost codes** | one row each; a client's addresses and contacts | create, read, update, switch, soft delete | purchase order lock of requisitions | three services ask for one lock along different references; lists replaced as a whole | what an order was placed for does not change; no circle of parents |
| **Organizational masters** (departments, disciplines, mappings, activities) | one row each, deleted by a flag | create (singly, in bulk), update, remove | each other | columns repeated in an activity; mappings created and revived on the way | an activity is where its mapping is |
| **Material masters** (categories, groups, units, industry categories, types) | one row each | create, update, enable, disable, remove | materials, imports | an import that creates what it does not find while others move it | names are unique where they must be; a group lies in its category |
| **Service groups and members** | groups, permissions, members | create, update, clone, copy, assign, sync, enable, disable, remove, in bulk | users, activities | five ways into a group | nobody joins a group that is off |
| **Organizations** (`modules/organization`) | the organization, its verification, its documents and their files | register, verify, profile and documents | accounts, storage | rows and files in two stores, no transaction | a listed document has its file |
| subscriptions and payment, content and support, audit and chat, request pipeline, email and storage, application shell | see `components` in PROJECT.json | | | little: single-row operations, logs or I/O | |

`PROJECT.json` names the source files of each component and says of each whether it is modelled; its
`hazards` list, at the line where each bites, what is hard to test here.

## Modules

| module | models |
|---|---|
| `RequisitionRules` | status tables, permissions, and what each transaction body computes from the row it holds: constant operators |
| `Requisition` | one requisition under all its handlers, one request at a time |
| `RequisitionRaces` | the same, with requests that others overtake between their read and their save |
| `DualControl` | the abstract promise of the maker-checker: whether a subject is barred changes only by a proposal and another person's countersignature |
| `Vendor` | one vendor and its status change requests, one request at a time; implements `DualControl` |
| `VendorRaces` | the same under overtaking |
| `Material` | one material and the register of its documents |
| `MasterCodes` | several transactions that draw codes from the counters of the masters, statement by statement |
| `RequisitionMail` | the emails of one requisition, under way while it moves on |
| `RequisitionSheet` | the lines of requisitions and the four sources they are picked from |
| `RequisitionDesk` | what people are shown of a requisition and a project, beside what the handlers let them do |
| `VendorRecords` | one vendor's documents and project experiences, replaced, removed and cloned |
| `VendorFamily` | vendors next to one another: names, parents, creation, cloning, import |
| `VendorImport` | how an import finds its vendors again |
| `VendorMails` | who is written to about a request against a vendor, and who may then decide |
| `MaterialPlacement` | the category and group of materials, while imports create masters and others move them |
| `Accounts` | an organization's accounts, codes and sessions |
| `Directory`, `ClientCard` | clients, projects, cost codes and the purchase-order lock; a client's lists |
| `Assignments` | the users of a project, under calls decided on an older list |
| `ServiceGroups` | groups, the activities they grant, their members |
| `OrgStructure`, `Masters` | departments, disciplines, mappings, activities; the stand-alone master tables |
| `Notifications` | who is told what, and what they do with it |
| `OrganizationFiles` | an organization's documents and the files behind them |
| `Office` | the sixteen smaller components side by side, one of them moving in each behavior; run as it is |
| `Requisition_proofs`, `Vendor_proofs` | theorems and proofs about the lifecycle and about its race module |
| `RequisitionMail_proofs`, `Material_proofs`, `MasterCodes_proofs` | about the module of that name |
| `Directory_proofs` | about Directory, Accounts, ClientCard and Assignments |
| `Masters_proofs` | about Masters, OrgStructure, MaterialPlacement, VendorRecords, VendorFamily and VendorImport |
| `Office_proofs` | about OrganizationFiles, ServiceGroups, Notifications, VendorMails, RequisitionSheet and RequisitionDesk, and about Office as a whole |
| `MC...` | instances for TLC: who there is, which contents, which requests may be overtaken |

Each race module EXTENDS the sequential one and composes it with a set of requests in flight. To make
that possible a handler that reads before its transaction is written in two parts, as the code is:
`XReads`, what it checks on the row it read, and `XWrites(row, ...)`, what the transaction makes of
the row the handler *holds*. The sequential module joins them on the current row; the race module puts
other steps in between and applies the second part to the stale row, because `save()` writes every
column of the entity that differs from the table.

### Requisition

| variable | code |
|---|---|
| `mr` | `material_requisitions`: status, `statusBeforeHold` (`held`), `reviewRound` (`round`), `lockedAt` set (`locked`), deletion, header columns |
| `participants`, `edited` | `material_requisition_participants`: `decision` and `editedInRound` per role and user |
| `lines` | `material_requisition_items` |
| `timeline`, `shown` | `workflow_events`: which role passed which round; the status `getTimeline` shows |
| `decidedIn`, `signed`, `reopened` | history variables: the round of each decision, the contents approved, whether the round was re-enabled |

| action | handler |
|---|---|
| `Init` | `create`, as a draft or submitted at once |
| `Update` | MRS `update`: header, lines, participants, and a submission with it; `settleRound` if the lists changed, `markParticipantEdit` for an edit by somebody asked |
| `Submit` | MRS `submit`, `startRound` |
| `UpdateParticipants` | MRW `updateParticipants`, `replaceParticipants`, `settleRound` |
| `Decide` | MRW `review` and `approve` (`decide`) |
| `ChangeStatus` | MRS `changeStatus`: hold, release, disable, re-enable, obsolete |
| `LockForPurchaseOrder`, `Remove` | MRS of the same names |

In `RequisitionRaces`, `flight[q]` is the row the request `q` read; `Read` and one `Commit...` per
handler replace its single step. `decide` and `updateParticipants` lock the row first and stay one step.

### Vendor

`vendor` is the `vendors` row (`pending` and `request` are `pendingStatusChange` and
`pendingStatusChangeRequestId`), `requests` the `vendor_status_change_requests` rows in the order
raised, `origin` the status the vendor was created or cloned with. One action per handler: `Update`,
`Enable`, `Disable`, `Evaluate` (`addEvaluation`, which saves and then calls `enable`, whose refusal
leaves the first save in place), `Remove`, `Raise` (`requestBlacklist` and `requestRemoveBlacklist`),
`Cancel`, `Approve`, `Reject`, `ExpireStaleStatusChangeRequests`, and `Elapse` for the passing of
`tokenExpiresAt`. `Init` also covers clones, which keep the standing of their source.

`DualControl` has four variables: whether the subject is barred, whether it has left, the open
proposal and what was agreed so far, by whom and with whom. `Vendor` maps to it through its status,
its deletion, the request it points at and its approved requests (`Control` in `Vendor`).

In `VendorRaces` a call goes through `Begin` (its request is found pending), `Read` (the vendor) and
`Commit`; an expiry through `FindStale` and `ExpireFound`; an evaluation commits twice.

### Material

`material` is the `materials` row, `documents` the `material_documents` rows in the order filed,
`column` what each deprecated URL column shows, as a set of URLs. `createdAt` is the number of the
INSERT: rows of one INSERT share it, and the code's order by `createdAt` leaves their order open.
`purchaseOrderIssuedAt` is stored in whole seconds, rounded, and compared with `createdAt` in
microseconds; so which documents count as filed before the order is a choice of
`MarkPurchaseOrderIssued`. Actions: `AddDocument` (`addDocument`), `RemoveDocument`, `Backfill`
(`backfillLegacyDocuments`), `Update` (with the documents of its payload, filed one after another),
`Import`, `MarkPurchaseOrderIssued`, `Enable`, `Disable`, `Obsolete`, `Remove`. `Register` is the tail every
document handler shares: the rows written and `syncLegacyDocumentColumns` with them, in one
transaction. `Init` covers materials created or cloned with documents and materials older than the
register, whose URLs are in their columns only.

### MasterCodes

`counter` and `stored` are `lastSequence` of each counter row as the transaction that holds it left it
and as committed; `owner`, `shared` and `gap` are the locks on the row and on the place of an absent
one. A call is a transaction: `plan` the sequences it draws from in order, `at` its place there, `read`
the entity it has read, `drawn` its rows, which `Commit` moves to `masters`.

| action | code |
|---|---|
| `Create`, `Batch` | a create of any master; an import or bulk create, which draws for each of its rows |
| `EnsureDefaults` | `ensureDefaults` of the client types: it counts the client types before it begins (`Overtaken` is its second look, once it holds the counter) |
| `Find`, `Insert`, `InsertLoses`, `Relock`, `Increment` | the statements of `generateCode` (`common/services/master-code.service.ts`) |
| `Commit`, `Fail`, `Deadlocked` | the ends of `withGeneratedCode`; a refused or failed statement rolls back all the call drew |

The locks are the database's and marked external. What MySQL does depends on its isolation level, and
the model admits both outcomes: a search for an absent row locks its place (repeatable read, the
default) or does not (read committed). With the place locked by both, the loser of the first insert is
refused as a deadlock and its create fails; without, it gets `ER_DUP_ENTRY`, which the code catches,
and takes the next number.

### RequisitionMail, RequisitionSheet, RequisitionDesk

`RequisitionMail` has the requisition's `row` and `people` under the same rules (`RequisitionRules`), and
`mails`, the emails a handler started after its commit (`afterCommit`, MRW:737) and did not wait for.
`Send` reads the requisition as it is by then, `Lose` is a failure that is logged. `asked` and `excused`
are history: who was asked in this round, and whether an email was lost or the requisition held meanwhile.

`RequisitionSheet` has `stock`, the status of each material, and `sheets`. `FromMaster`, `FromProject`,
`SourceProjects` and `BomLines` are `searchMaterials`, `getProjectItems`, `getSourceProjects` and
`previewBom`; `LinesAccepted` is `resolveLines`, against which a save is checked by other words. `Picked`
keeps the entries at some places of a list in their order, as the loops of these handlers do.

`RequisitionDesk` has `accounts` (role, internal, active, deleted), `project` (status, manager, assigned
users) and `paper`. One operator for each query that shows something (`MyWork`, `MyPapers`, `ShownDecide`,
`ShownSubmit`, `UserOptions`, `EligibleUsers`, `ListsProject`, `ConcernedUsers`) and one for each check
of a handler (`MayOpen`, `MayDecide`, `MaySubmit`, `TakesPart`, `Eligible`, `MayCreateOn`), while
roles, accounts, assignments and the requisition change.

### VendorRecords, VendorFamily, VendorImport, VendorMails

`VendorRecords`: `documents` are the `vendor_documents` rows, of one singleton type and one that keeps several;
`AddDocument`, `AddSuccessor` (with `supersedesId`), `RemoveDocument`, `ReplaceDocuments` (`saveChildren`),
the same for experiences, `VerifyProjectExperience`, and `CloneRecords` (`cloneChildren`).
`VendorFamily`: `vendors` and the `kinds` (types, categories) they need; `CreateVendor`, `CloneVendor`,
`UpdateVendor`, `RemoveVendor`, `ImportVendors`. `VendorImport`: `Canon` is the comparison of names
without case and plural, `Plannable` `validate`, `Import` the transaction; types and vendors
are edited in between. `imported` is history.
`VendorMails`: `petitions` are the requests, `outbox` the emails handlers have still to send, `reached`
whom each reached; `Raise`, `DecidePetition` and `WithdrawPetition` are the handlers up to their commit,
`Send` and `Lose` what follows. `posts` says which of the three lists of roles somebody is in.

### MaterialPlacement, Masters, OrgStructure

`MaterialPlacement`: `plans` holds the rows each call under way has validated (`ReadPlacement` for create,
clone and update, `ReadFile` for an import); `WritePlan` is `resolveMasterData` and the save, `Abandon` the
rollback. `Masters` is one table of a kind chosen at the start: the services are written alike and differ in
the rules they have and in the routes their controllers have (`MasterKinds`). `OrgStructure`: `mappings[d][x]` are the rows of
`department_disciplines`; `Resolved` is `resolveMapping`, which creates or revives one.

### Accounts, Directory, ClientCard

`Accounts`: `org` is the organization with its code, `users` the accounts by address, `sessions` the
live refresh tokens. Codes are right or wrong by choice. One action per handler (`SignUpStep`, `AccountStep` and
`AdministrationStep` put together those of a controller); `VerifyOrgEmail` may
stop before it has created the administrator, as the code may. `Directory`: `Locked(r)` is
`WorkflowLockService.lockedQuery`, `ProjectEditable`, `ClientEditable` and `WbsEditable` the three questions
asked of it; `MayBeParent` is `assertParent`, which a create calls without a client of its own (`None`); one
action per handler that writes a reference, a status or a deletion. `ClientCard`:
`SaveClient` is `update` with its two lists.

### Assignments, ServiceGroups, Notifications, OrganizationFiles

`Assignments`: `asks[k]` is what the call `k` has read and decided, `Write` its transaction, `GiveUp` its
failure; `fresh` says that nothing was written since it read. `ServiceGroups`: one action per handler,
with the five ways in (`AssignUsers`, `SyncUsers`, `EnableMember`, `BulkStatusChange`, `EnableGroup`).
`Notifications`: `events` and `emails` are the sources, `notices[u][s]` the rows, `inFlight` one that a call
read and has not saved. `OrganizationFiles`: `papers` are the rows, `bucket` the files; `SyncDocuments` saves a
form's rows one after the other and may stop, and then deletes what no row shows any more.

## Runs

| run | instance | distinct states | time | shows |
|---|---|---|---|---|
| Requisition | 3 users (requester, writer, one who can be assigned), complete and incomplete header and lines, 2 rounds, symmetry over the two complete lines | 1,076 | 4 s | approved content is what an approver saw |
| RequisitionRounds | 2 users in either role or both, one content, 2 rounds; and, beside it, the emails of one requisition with 2 users, 2 rounds, 2 emails under way at once | 745,425 | 1 min 40 s | stages are backed by decisions of this round; rounds alone clear decisions; row, participants and timeline agree; whoever is to decide was asked |
| RequisitionRaces | 5 requests in flight at once (edit, submission, hold, lock, deletion), 1 round | 424,087 | 2 min | what survives every interleaving |
| Vendor | 3 users of different standing, 2 versions of the details, 3 status change requests | 357,088 | 30 s | the vendor and its requests agree and implement `DualControl` |
| VendorRaces | 7 calls of which 2 in flight at once, 1 status change request | 2,417,972 | 95 s | rows are never torn, a blacklisting always goes back to an agreement |
| Material | 3 types (single, side by side, listed), 3 documents, 2 per request | 102,850 | 55 s | chains, columns, version numbers, what an order froze |
| MasterCodes | 3 transactions at once, 3 sequences of which one is the client types, batches over two of them in either order, 2 default types | 177,416 | 1 min 45 s | no number twice or out of order, no gap, one seeding; every call ends |
| Office | the components around the three lifecycles, one moving at a time (below) | 412,807 | 2 min | see the table below |
| ClaimApprovalNeverRestored, RaceLockStays, RaceNobodyBlacklistsAlone, NothingFiledIsDiscarded | smaller ones | | seconds | the findings below |

`Office` and `RequisitionRounds` check several components in one run. These share no variable, no handler
of one writes another's tables but as its module says, and every property is about one of them; so a
behavior chooses one component at its start (`focus`, `moving`), which moves while the others rest
at their initial states. Each is checked as in a run of its own, and their states add up
instead of multiplying. `Directory` is in focus twice: its clients alone (a line of three), and all of it
with the third client at rest; so is `VendorFamily`: three vendors (`companies`), whose types and categories rest once there is a vendor,
and two with everything moving. The properties of `Office`:

| property | components | what could be wrong |
|---|---|---|
| OfficeTypeOK | all | a reference to a row that is not there, a counter past its limit |
| ClientsAreSound | Directory (`ParentsAreSound`), ClientCard (`OneOfEach`) | a circle of clients, a live client below a deleted one; two registered offices or primary contacts |
| VendorsAreSound | VendorFamily (`FamilyIsSound`, `NamesClashByImport`), VendorRecords (`CurrentIsLatest`, `VerifiedIsVouched`), VendorMails (`DecidedByAsked`, `AskedHearOfWithdrawal`) | a circle of companies; an old licence current again; a reference confirmed on another record; a decision by somebody never asked |
| ImportsAreSound | VendorImport (`ImportSettles`, `NoTwins`, `OnePrimary`) | a file imported twice creates its vendors twice |
| SheetsAreSound | RequisitionSheet (`OffersAreAccepted`, `ListedOnce`), RequisitionDesk (`ShownIsAllowed`, `PickedIsAccepted`) | a line, person or project that is offered and then refused; work that is shown and cannot be opened |
| FilesAreKept | OrganizationFiles | a save that stops half way leaves a row without its file |
| MastersAreSound | OrgStructure (`ActivityFollowsMapping`), Masters (`MasterNamesAreUnique`), MaterialPlacement (`PlacedTogether`) | an activity left behind by its mapping; a material in a group of another category |
| PeopleAreSound | Accounts (`SignedInIsVerified`), Assignments (`OneTracking`), Notifications (`HeardOnce`) | a session on an address nobody verified; one project with two histories; news of one's own step |
| DeletionLeavesAdmin | Accounts | the last administrator is deleted |
| OrderedIsFrozen | Directory | a purchase order's project, client or cost code changes under it |
| OffStaysOff | Assignments | a call decided on an old list brings somebody back |
| NobodyJoinsOff | ServiceGroups | a group that is off gains a member |
| OnlySavesUndo | Notifications | backfill brings a removed notification back |

A conjunction is one property to TLC, and PROJECT.json has one mutant for it; each conjunct was broken by a
mutant of its own as well, of which only those needed there are kept in the modules.

Why these bounds are enough for what they are used for:

- `MaxRound = 2`: a decision can only be carried wrongly from one round into the next. `RequisitionRaces`
  uses one round: its properties are about the row and the timeline, not about rounds.
- Two users who may hold both roles give two reviewers, two approvers, one person in both roles, and a
  replacement of either; a third adds no new relation between them.
- `MaxRequests = 3` status change requests: raise, decide, raise again, and one more after that, so that approvals
  alternate over an interposed rejection. `VendorRaces` has one request with everything in flight
  around it, `RaceNobodyBlacklistsAlone` two.
- `MaxFlight = 2`: a stale save needs one call that read and one that committed meanwhile; the second
  slot lets a stale save be overtaken by another stale save.
- `MaxDocuments = 3`, `MaxInputs = 2`: a document, its replacement, and one that would fork the chain or
  repeat the version; two of one type in one request.
- Three transactions: the winner of the first insert, its loser, and a third that waits behind both; two
  batches in opposite orders deadlock and the third waits for the one that is refused. Two default
  types make a seeding that can fail half way.

- `Office`: three clients and three vendors make a circle that the check of a direct parent does not see;
  the vendors' depth limit is 2, so that it is reached (clients are assumed not to exceed theirs, 20:
  `DirectoryAssumption`). Two calls under way for assignments and placements: one that read and one that
  wrote meanwhile. Three vendor documents: one, its replacement, and one more after a removal. Two rows a
  file, two attempts per code, one session, two people of whom one's account changes: each property relates no more than that.
  One person, step and request for notifications and vendor emails: their properties are about one of
  each; the proofs are about any number.
- `MaxMails = 2`: an email that reads the requisition late, and one that was started meanwhile.

The bounds stand in guards (`BeginRound`, `RaiseWrites`, `Register`, `Backfill`, `Read`, `Post`, `Login`)
or are sets of ids of which each is used once, and are constants; the proofs hold for all of them. All runs set `CHECK_DEADLOCK FALSE`: a requisition, a
vendor or a material really may come to its end, deleted or obsolete, a call runs once, and a row once deleted stays so.

**Fairness.** `FairSpec` of `MasterCodes` states that a transaction nothing blocks executes its next
statement (an `await` resolves) and that the database refuses a call of a deadlock (InnoDB detects them at
once). Nothing else is assumed: calls need not begin and may or may not fail. Under it every call that
begins comes to its end (`EveryCallEnds`), because every way out of `withGeneratedCode` releases the locks.
The other specifications assume no fairness and claim no liveness. Every step there is a person's request: nobody owes a review, an approval or a decision. The one thing that ought to happen
by itself, the expiry of stale status change requests, is called by nothing in the repository
(`modules/vendor/vendor.service.ts:2763`); it is an action that a host may take.

**Mutants.** Every property of a passing run has a mutant in PROJECT.json: the definition `X` of the
model with the body of `X_Something`, a plausible slip in the code `X` stands for (a guard dropped, a
reset forgotten, the wrong table row), under which TLC finds the property violated. They are defined
next to what they alter and used by nothing else. The type invariants of `Requisition`, `RequisitionMail`, `Vendor`,
`Material` and `MasterCodes` are not among the runs' properties: they are proved.

## Findings

Each is a run whose only property is the quoted sentence and which TLC violates.

- **ApprovalNeverRestored** (doc and code differ). `changeStatus` re-enables a disabled requisition to
  UNDER_REVIEW and keeps the decisions of its round; `settleRound`, called when participants change,
  finds them and moves it on to REVIEWED and then APPROVED, although nobody decides.
  `enums/material-requisition.enums.ts:28`: "an approval is never silently restored".
- **LockStays** (bug). `changeStatus` checks `lockedAt` on an entity read at MRS:559 and saves that
  entity at MRS:585: a purchase order lock taken in between is written back to null. MRS:512: "from
  then on the requisition ... cannot be edited".
- **NobodyBlacklistsAlone** (bug). `update` of a vendor saves at `vendor.service.ts:1992` what it read
  at 1933: an edit in flight while an un-blacklist request is approved blacklists the vendor again.
  2141: "a single person can never blacklist a vendor on their own".
- **NothingFiledIsDiscarded** (bug). `syncLegacyDocumentColumns` (`material.service.ts:330`) rewrites
  every deprecated URL column from the rows. On a material whose URLs were never backfilled, the first
  document filed empties or overwrites them, and the backfill skips the material from then on. 1101:
  "Nothing already filed is discarded".

The race modules also say what *does* survive: no stale save brings a review or an approval nobody
gave, locks what is not approved, deletes what is not a draft, tears a vendor's status from its
availability, or blacklists a vendor that two people never agreed to blacklist.

## Proofs

`tlapm` checks every theorem to its last leaf; they hold for all users, contents, details, types and
bounds. The assumptions are those the modules state by name: who is a subset of whom, that bounds are
naturals, that rows and document types are finitely many, that there is a name, a category, a department to give at all (a row that is not there
has to show something), that an empty mark is none of the values, and that clients are no more than `assertParent` looks at. TLC evaluates them on every run.

**Requisition_proofs.** Proving the invariants action by action would repeat the same argument for
`Update` and `UpdateParticipants`, and again for `Submit`. So every step is first shown to be of one
of five kinds (`StepKinds`) that keep only what the invariants need: a round starts (`Starts`), a
requisition is revised in its round (`Revises`), somebody decides, a status is moved by hand, the row
is marked locked or deleted. `IInv`, the conjunction of the invariants, is inductive: that a
released hold stands where it stood needs `HeldIsSubmitted`; that `settleRound` never grants a step
needs `WaitingIsUndecided`; that a lock stands on an approved row needs `LockedIsApproved`. From
`IInv` follow the state properties, and with the kinds the action properties `LockIsForGood`,
`ApprovedIsFinal`, `DecisionsClearOnlyByRound` and `EndIsForGood`.

**Vendor_proofs.** The same way: under `IInv` a step keeps the requests (`Keeps`), raises one
(`Raises`), closes the pending one (`Closes`), or lets it go stale (`Elapses`). `IInv` adds two facts
the run does not check by name: only the last request raised can be pending (`PointsAtLast`) and it
asks for the opposite of what stands (`AsksForTheOpposite`); without the second, approving would
not alternate. The kinds also give the refinement `ControlImplemented == Spec => DualControlled`: `Raises`
is `Propose`, `Closes` is `Countersign` or `Drop`, a deletion is `Retire`, the rest stutters.

**Material_proofs.** Everything is said of a register by itself: `Sound` (chains are linear, numbers
beside others are new, `createdAt` does not run ahead) and of two registers, `Grows` (the later one keeps the
earlier one's rows but for their marks, and the frozen ones altogether) and `Few` (no singleton type
gets a second current row). One upload keeps `Sound` and is an instance of `Grows` and `Few`, which are transitive;
so are all the uploads of one update, by induction. The library's induction theorem takes an operator
and cannot be used with the installed provers, so `Induction` is proved here for a *set* of naturals
from the well-foundedness of `<`, and with it that the recursive function of `AppendedAll` exists
and that versions have a greatest. `IInv` adds that columns of a material without rows hold legacy URLs
only (`OnlyLegacy`), which is what makes the backfill agree with `Shows`. All properties of the run follow.

**MasterCodes_proofs.** What a transaction has drawn lies above what is committed, and only the owner
of the counter row has drawn from it (`Held`, `OwnRows`); committed numbers lie below (`Below`). That
gives `NoNumberTwice` and `NumbersInOrder`. `Covered` says of *every* number up to a counter where it
went: into a committed row, a row drawn by the owner, or dropped by an overtaken seeding; from it follow
`NothingIsSkipped` and where a sequence starts: in an empty master the counter is still absent or zero,
so a seeding that finds it empty takes exactly the first numbers (`Seeding`), and a second one finds rows.
One lemma per action shows that `IInv` is kept; those that only wait (`WaitsKeeps`) and those that take the
row (`LockedKeeps`) share theirs. That `Relock` finds a row needs that a lost insert lost to a committed one (`Runs`).

**RequisitionMail_proofs.** `MailsKeepUp` speaks of the moment when no email is under way; the invariant
says what holds in every other: whoever is waited for was asked, or some email that is under
way will ask them when it is sent (`Covered`: a submission's and a completed review's email asks all who
are pending *then*, that of a change those it has added). `OutcomesHold` says that an outcome email still finds the
decision it reports in its round, and `QuietIsExcused` that a requisition put aside by hand is counted as excused. They make
`MailIInv` inductive with the types. That a member who is removed and added again must be asked again is why `asked` is cut
down with the list.

**Directory_proofs.** *Directory*: `OrderedIsFrozen` follows from the three questions of the lock only if the
references resolve: `RowsResolve` says that a submitted requisition has a project and a cost code, a
project a client. Every step is shown to be the change of one row (`ClientChange` and its like) that
respects the lock or a change of one requisition, and the property follows from either. *Clients*: `ParentsAreSound` speaks of
the line of parents above a client, a recursive function. The inductive invariant says the same without recursion:
parents live (`ParentsLive`) and no set of live clients has all its parents within itself (`NoRing`). What `assertParent`
walks is a line (`AncestorLine`, for which `LineExists` shows that the recursive function is one); a line as long as there are clients
meets itself (`LineMeetsItself`, by counting) and would be a ring, so the walk sees all there is above the new parent, and a new ring
would have to go through the client it is asked for (`NewParentNoRing`). That is where
`Cardinality(Clients) <= MaxParentDepth` is needed: `assertParent` gives up after 20. *Accounts*: `SignedInIsVerified` is inductive with the types, since no
handler makes a verified account unverified: `Register` only takes over accounts that are not verified; and a deletion reads the count it depends on in
the same step. *ClientCard*: a list that is written is all there is afterwards, so the rule for the list becomes one for
the table. *Assignments*: as long as a call is `fresh`, whom it adds is not on the project and whom it switches or removes is
(`FreshFits`); a stale one writes to rows by id and un-deletes those it adds only. The rows that are there share an id
and a write gives a new row that of the others (`SharesOne`).

**Masters_proofs.** *Masters*: a handler leaves every row but one as it is (`OneMaster`), and that one under a name it
asked for. *OrgStructure*: a mapping that is there stays, deleted or not, so an activity keeps what it repeats. *MaterialPlacement*: `PlansFit` says of
every call under way that what it validated is still true when it writes, since a group never leaves its category (`GroupsStay`); an import
creates a group in the category of its rows. *VendorRecords*: numbers never exceed the rows filed (`DocumentsFit`), so there is a next one,
and the current row of a singleton type has the highest of its type, whichever way it came. *VendorFamily*: lines and rings as for the clients; but `update`
asks for the end of the line within its depth, and `create`, `clone` and the import need not look up at all, because nobody is below a vendor that is not
there yet. *VendorImport*: a name resolves to the same types before the import, by it and after it (`TypesMade`), so each row of a file is found under
the key it was created under.

**Office_proofs.** *Files*: a save writes row after row, so the argument is about what a form may list:
its own file or one that no other row has (`SharedIsRelisted`), hence what is dropped is nobody's. *Groups*: one lemma for what the group handlers
keep, one for the member handlers, which look at the group first. *Notifications*: `WhoIsTold` keeps
apart those told of a step and those sent its email; `CellStep` says what any step may do to
one notification, from which both theorems follow. *Vendor emails*: those asked remain whom `Raise` found, and one of them who is no
approver now is among those who left (`AskedOrLeft`), so that looking for the approvers again in
`cancelStatusChange` misses nobody else. *RequisitionSheet*: what `Picked` keeps of a list keeps its order, because its places can be
counted off, and so an offer without doubles is a list without doubles. *RequisitionDesk*: what is shown is allowed by the checks themselves but for one thing, that only an approved
requisition is ever locked. *Office*: every step is a step of one component or none of it (`OfficeSteps`); so `OfficeSpec` implements the
specification of each (`OfficeIsItsComponents`), and every theorem about a component is one about `Office`. The run looks at each property where its component
is in focus, to save time; proved are the properties of all components in every state.

**Overtaking.** In `RequisitionRaces` and `VendorRaces` the invariants of the sequential modules fail, as the findings show, so the proofs start from
what every row keeps that some handler ever read. *Requisition_proofs*: `RaceIInv` says that a request in flight carries a row its checks let through (`FlightIsChecked`) and that
decisions are on the timeline (`Backed`); what a transaction makes of *any* such row is again earned, locked only if approved and deleted only as a
draft (`HeldRowWrites`), whatever the table says by then. *Vendor_proofs*: the pending mark may be wrong under overtaking, so `RaceIInv` says nothing of it; it says that a decision in
flight names a request somebody else raised (`DecisionsAreChecked`) and that requests keep their kind and maker (`RequestsGrow`). A save
writes a whole row (`WholeRows`), and a blacklisting is one that some approval made or some earlier row had.

**Induction.** The library's induction theorems take an operator, which the installed provers cannot instantiate. `SetInduction` and
`LineExists` (Directory_proofs), `Induction` (Material_proofs) state what is needed of it for sets of naturals and for functions; they are proved from
`WFMin` and serve every recursive function here.

**Proved, without a run of their own:** the type invariants of `Requisition`, `RequisitionMail`, `Vendor`, `Material` and `MasterCodes`, `RowsResolve`, `EndIsForGood`, `LockIsForGood`, `ApprovedIsFinal`,
`HeldIsSubmitted`, and `ActiveIsAvailable` and `LockedIsApproved` for one request at a time (under
overtaking `WholeRows` and `LockedAndDeletedAgree` check and prove the latter two).

**Only model-checked:** `EveryCallEnds`, since liveness and ENABLED are out of the prover's reach, and the violated claims. Every safety and action
property of the other runs is a theorem.

## What is abstracted, and what is not modelled

- Contents are opaque: a requisition's header and lines are values of which some are complete enough to
  submit; a vendor's details one value; a material's descriptions one value; a document is its place in the
  register, without file, title or dates.
- Timestamps that no handler reads are dropped; so are names, reasons and the text of comments
  (whether a comment was given is kept where a check asks for it). The three negative decisions of a
  participant are one mark, since no handler asks which; the status keeps them apart.
- Lists of participants are sets. That the code takes a list in another order for a change, although
  nobody joins or leaves, is kept: `moved` in `Changed`.
- A transaction is one step. Under read committed, what a transaction reads inside (participants,
  lines) is current; what it holds from before is not.
- Refusals change nothing and are not steps: unknown ids, a project that is not open, a required date in the
  past, a duplicate number, masters that do not exist, a vendor or material referenced elsewhere.
- Tracking numbers of documents other than a project's assignments, and the one-off backfill of the timeline for
  documents older than it, are left out.
- One row of a master is a state and what other rows refer to; handlers of the modules in `Office` run one at a time
  unless the module says otherwise (Assignments, MaterialPlacement and Notifications have calls that read and write
  later; VendorMails and RequisitionMail emails that are under way; Accounts and OrganizationFiles calls cut short).
- What a module abstracts beyond this is said at its head.
- The purchase order module is not part of the repository; `LockForPurchaseOrder` and
  `MarkPurchaseOrderIssued` are the calls it would make. A material seeded with the lock but no
  timestamp is not modelled.
- A code is its number; padding never truncates it. An overtaken seeding commits the number it drew
  without a row: a gap the code makes on purpose, and the one exception in `NothingIsSkipped`. Masters are
  not deleted in `MasterCodes`: deletion is soft, and the count of client types includes deleted ones.
- Who may call a handler is the set its action takes the caller from: the guards' role lists.

Not modelled, with the reason:

- Passwords, one-time codes and links as texts, the rendering of emails (`shared/email/templates`, some 10,000 lines) and of
  lists: strings and layout, of which no property speaks.
- Subscriptions, plans and payment: rows whose dates a request sets; nothing in the repository ends a subscription by itself, and
  payment stores nothing. Blog, contact, country, dashboard, chat and the audit log: no rule between two rows or two steps.
- The request pipeline as such: guards are the sets of callers; the timeout interceptor answers the
  client and stops nothing.
- Bank accounts, documents and audit entries of a client, statutory numbers, bank accounts and price rows of a vendor: lists replaced
  and checked as the ones that are modelled, or checks of one request on its own payload.
- Two handlers at once on one material, client, project, account or master. The pattern (read, check, later save) is
  explored where it reaches a decision of a person: `RequisitionRaces`, `VendorRaces`, `Assignments`. What
  would be lost elsewhere is in `hazards` with a note: a material's purchase order
  flag, a chain forked by two uploads, a name given to two masters, a project edited while its order is placed.
- What the code does and no sentence of the repository denies, met while modelling and kept in the models: a re-enabled
  requisition skips the completeness check; the release of a hold asks nobody again; `updateStatus` of a project and the activation
  of a client do not ask for the lock; a deleted group's or department's code cannot be used again; members of a deleted group are still listed;
  a deactivated user works on until their token ends.

## Growing it

A new handler is an action of the module of its table, with its map entry; a rule between two components belongs in a module
that EXTENDS both. A component that shares no variable with the others joins `Office` with a focus of its own, a line in
`OfficeSteps`, and carries its theorems over. A material race module beside `Material` would be next.
