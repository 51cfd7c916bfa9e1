-------------------------- MODULE Directory_proofs --------------------------
(***************************************************************************)
(* Proofs about Directory, Accounts, ClientCard and Assignments, for any   *)
(* clients, projects, cost codes, requisitions, users and calls under way. *)
(*                                                                         *)
(* A purchase order freezes rows of three other tables, which are found by *)
(* following references from the requisition. OrderedIsFrozen therefore    *)
(* rests on RowsResolve: the references of a requisition lead to rows that *)
(* have been created, and one that was submitted has a cost code. Every    *)
(* step writes one row of one table; the rows of a locked requisition are  *)
(* those the lock keeps it from writing (ClientChange and the like).       *)
(***************************************************************************)
EXTENDS Accounts, Directory, ClientCard, Assignments, FiniteSetTheorems, WellFoundedInduction, TLAPS

-----------------------------------------------------------------------------
(* Induction over the naturals, in terms of sets: from the fact that they  *)
(* are well-founded. And lines, which go on from one element to the next:  *)
(* what a function that is defined by recursion amounts to.                *)

\* A set of numbers has a least one.
LEMMA LeastOf ==
  ASSUME NEW T \in SUBSET Nat, T # {}
  PROVE  \E m \in T : \A k \in T : m <= k
<1>1. PICK m \in T : \A k \in T : ~ (<<k, m>> \in OpToRel(<, Nat))
  BY WFMin, NatLessThanWellFounded, Zenon
<1>2. \A k \in T : ~(k < m)
  BY <1>1 DEF OpToRel
<1>3. \A k \in T : m <= k
  BY <1>2
<1> QED
  BY <1>3

\* Induction, for a set instead of a predicate.
LEMMA SetInduction ==
  ASSUME NEW S, 0 \in S, \A n \in Nat : n \in S => n + 1 \in S
  PROVE  Nat \subseteq S
<1> SUFFICES ASSUME Nat \ S # {} PROVE FALSE
  OBVIOUS
<1>1. PICK x \in Nat \ S : \A y \in Nat \ S : ~ (<<y, x>> \in OpToRel(<, Nat))
  BY WFMin, NatLessThanWellFounded, Zenon
<1>2. \A y \in Nat \ S : ~(y < x)
  BY <1>1 DEF OpToRel
<1>3. x # 0 /\ x - 1 \in Nat
  OBVIOUS
<1>4. x - 1 \in S
  BY <1>2, <1>3
<1> QED
  BY <1>3, <1>4

\* f starts at x and goes on by `next`, N steps of it.
IsLine(f, X, next, x, N) ==
  f \in [0..N -> X] /\ f[0] = x /\ \A n \in 1..N : f[n] = next[f[n - 1]]

LEMMA LineExists ==
  ASSUME NEW X, NEW next \in [X -> X], NEW x \in X, NEW N \in Nat
  PROVE  \E f : IsLine(f, X, next, x, N)
<1> DEFINE Reached == {k \in Nat : \E f : IsLine(f, X, next, x, k)}
<1>1. 0 \in Reached
  <2>1. IsLine([n \in 0..0 |-> x], X, next, x, 0)
    BY DEF IsLine
  <2> QED
    BY <2>1
<1>2. ASSUME NEW k \in Nat, k \in Reached
      PROVE  k + 1 \in Reached
  <2>0. PICK f : IsLine(f, X, next, x, k)
    BY <1>2
  <2>1. f \in [0..k -> X] /\ f[0] = x /\ \A n \in 1..k : f[n] = next[f[n - 1]]
    BY <2>0 DEF IsLine
  <2> DEFINE g == [n \in 0..k + 1 |-> IF n <= k THEN f[n] ELSE next[f[k]]]
  <2>2. f[k] \in X /\ next[f[k]] \in X
    BY <2>1
  <2>3. g \in [0..k + 1 -> X]
    BY <2>1, <2>2
  <2>4. ASSUME NEW n \in 1..k + 1
        PROVE  g[n] = next[g[n - 1]]
    <3>1. n - 1 \in 0..k /\ g[n - 1] = f[n - 1]
      OBVIOUS
    <3>2. CASE n <= k
      BY <2>1, <3>1, <3>2
    <3>3. CASE n = k + 1
      BY <3>1, <3>3
    <3> QED
      BY <3>2, <3>3
  <2>5. g[0] = x
    BY <2>1
  <2> HIDE DEF g
  <2>6. IsLine(g, X, next, x, k + 1)
    BY <2>3, <2>4, <2>5 DEF IsLine
  <2> QED
    BY <2>6
<1>3. N \in Reached
  <2> HIDE DEF Reached
  <2>1. Nat \subseteq Reached
    BY <1>1, <1>2, SetInduction
  <2> QED
    BY <2>1
<1> QED
  BY <1>3

\* Some places of a line lead to one another.
HasRing(f, next, N) ==
  \E S : S # {} /\ \A s \in S : next[s] \in S /\ \E n \in 0..N - 1 : s = f[n]

LEMMA LineMeetsItself ==
  ASSUME NEW X, IsFiniteSet(X), NEW next, NEW N \in Nat, Cardinality(X) <= N,
         NEW x, NEW f, IsLine(f, X, next, x, N)
  PROVE  HasRing(f, next, N)
<1>0. f \in [0..N -> X] /\ \A n \in 1..N : f[n] = next[f[n - 1]]
  BY DEF IsLine
<1>1. IsFiniteSet(0..N) /\ Cardinality(0..N) = N + 1
  BY FS_Interval
<1>2. Cardinality(X) \in Nat
  BY FS_CardinalityType
<1>3. \E i, j \in 0..N : i # j /\ f[i] = f[j]
  <2>1. Cardinality(X) < Cardinality(0..N)
    BY <1>1, <1>2
  <2> QED
    BY <1>0, <1>1, <2>1, FS_PigeonHole
<1>4. PICK i, j \in 0..N : i < j /\ f[i] = f[j]
  BY <1>3
<1> DEFINE S == {f[n] : n \in i..j - 1}
<1>5. f[i] \in S /\ \A s \in S : \E n \in 0..N - 1 : s = f[n]
  BY <1>4
<1>6. ASSUME NEW s \in S
      PROVE  next[s] \in S
  <2>1. PICK n \in i..j - 1 : s = f[n]
    BY <1>6
  <2>2. n + 1 \in 1..N /\ f[n + 1] = next[f[n]]
    BY <1>0, <1>4, <2>1
  <2>3. CASE n + 1 = j
    BY <1>4, <1>5, <2>1, <2>2, <2>3
  <2>4. CASE n + 1 # j
    <3>1. n \in Int /\ i \in Int /\ j \in Int /\ i <= n /\ n <= j - 1
      BY <1>4, <2>1
    <3>2. n + 1 \in i..j - 1
      BY <2>4, <3>1
    <3> QED
      BY <2>1, <2>2, <3>2
  <2> QED
    BY <2>3, <2>4
<1> HIDE DEF S
<1>7. S # {} /\ \A s \in S : next[s] \in S /\ \E n \in 0..N - 1 : s = f[n]
  BY <1>5, <1>6
<1> QED
  BY <1>7 DEF HasRing

-----------------------------------------------------------------------------
(* Directory.                                                              *)

\* Where the references lead.
RowsResolve ==
  /\ \A p \in Projects : projects[p].state # "absent" =>
       projects[p].clientId \in Clients /\ clients[projects[p].clientId].state # "absent"
  /\ \A r \in Requisitions : requisitions[r].state # "absent" =>
       /\ requisitions[r].projectId \in Projects
       /\ projects[requisitions[r].projectId].state # "absent"
       /\ requisitions[r].wbsCostCodeId # None =>
            /\ requisitions[r].wbsCostCodeId \in WbsCodes
            /\ wbsCodes[requisitions[r].wbsCostCodeId].state # "absent"
  /\ \A r \in Requisitions : requisitions[r].state \in {"submitted", "locked"} =>
       requisitions[r].wbsCostCodeId # None

DirectoryIInv == DirectoryTypeOK /\ RowsResolve

\* A row is created, changed as the lock allows, or deleted.
ClientChange(c, new) ==
  /\ clients' = [clients EXCEPT ![c] = new] /\ UNCHANGED <<projects, wbsCodes, requisitions>>
  /\ new.state # "absent"
  /\ clients[c].state # "absent" /\ ~ClientEditable(c) =>
       /\ new.parentClientId = clients[c].parentClientId
       /\ clients[c].state # "deleted" => new.state # "deleted"

ProjectChange(p, new) ==
  /\ projects' = [projects EXCEPT ![p] = new] /\ UNCHANGED <<clients, wbsCodes, requisitions>>
  /\ new.state # "absent"
  /\ new.clientId \in Clients /\ clients[new.clientId].state # "absent"
  /\ projects[p].state # "absent" /\ ~ProjectEditable(p) =>
       /\ new.clientId = projects[p].clientId
       /\ projects[p].state # "deleted" => new.state # "deleted"

WbsChange(w, new) ==
  /\ wbsCodes' = [wbsCodes EXCEPT ![w] = new] /\ UNCHANGED <<clients, projects, requisitions>>
  /\ new.state # "absent"
  /\ wbsCodes[w].state # "absent" => WbsEditable(w)

RequisitionChange(r, new) ==
  /\ requisitions' = [requisitions EXCEPT ![r] = new] /\ UNCHANGED <<clients, projects, wbsCodes>>
  /\ ~Locked(r)
  /\ new.projectId \in Projects /\ projects[new.projectId].state # "absent"
  /\ new.wbsCostCodeId # None =>
       new.wbsCostCodeId \in WbsCodes /\ wbsCodes[new.wbsCostCodeId].state # "absent"
  /\ new.state \in {"submitted", "locked"} => new.wbsCostCodeId # None

DirectoryChange ==
  \/ \E c \in Clients, new \in ClientRow : ClientChange(c, new)
  \/ \E p \in Projects, new \in ProjectRow : ProjectChange(p, new)
  \/ \E w \in WbsCodes, new \in WbsRow : WbsChange(w, new)
  \/ \E r \in Requisitions, new \in RequisitionRow : RequisitionChange(r, new)

-----------------------------------------------------------------------------
(* Every step is such a change.                                            *)

LEMMA ClientStepChanges ==
  ASSUME DirectoryIInv, ClientStep
  PROVE  \E c \in Clients, new \in ClientRow : ClientChange(c, new)
<1>1. clients \in [Clients -> ClientRow]
  BY DEF DirectoryIInv, DirectoryTypeOK
<1>2. PICK c \in Clients, parent \in Clients \cup {None} :
        \/ \E status \in {"ACTIVE", "INACTIVE"} : CreateClient(c, status, parent)
        \/ UpdateClient(c, parent)
        \/ ActivateClient(c)
        \/ DeactivateClient(c)
        \/ RemoveClient(c)
  BY DEF ClientStep
<1>3. ASSUME NEW status \in {"ACTIVE", "INACTIVE"}, CreateClient(c, status, parent)
      PROVE  \E new \in ClientRow : ClientChange(c, new)
  <2> DEFINE new == [state |-> status, parentClientId |-> parent]
  <2>1. new \in ClientRow /\ new.state # "absent"
    BY DEF ClientRow
  <2>2. ClientChange(c, new)
    BY <1>3 DEF CreateClient, ClientChange
  <2> QED
    BY <2>1, <2>2
<1>4. CASE UpdateClient(c, parent)
  <2> DEFINE new == [clients[c] EXCEPT !.parentClientId = parent]
  <2>1. new \in ClientRow /\ new.state = clients[c].state
    BY <1>1 DEF ClientRow
  <2>2. clients' = [clients EXCEPT ![c] = new]
    BY <1>1, <1>4 DEF UpdateClient
  <2> HIDE DEF new
  <2>3. ClientChange(c, new)
    BY <1>4, <2>1, <2>2 DEF UpdateClient, LiveClient, ClientChange
  <2> QED
    BY <2>1, <2>3
<1>5. CASE ActivateClient(c) \/ DeactivateClient(c)
  <2>1. PICK status \in {"ACTIVE", "INACTIVE"} : clients' = [clients EXCEPT ![c].state = status]
    BY <1>5 DEF ActivateClient, DeactivateClient
  <2> DEFINE new == [clients[c] EXCEPT !.state = status]
  <2>2. new \in ClientRow /\ new.state = status /\ new.parentClientId = clients[c].parentClientId
    BY <1>1 DEF ClientRow
  <2>3. clients' = [clients EXCEPT ![c] = new]
    BY <1>1, <2>1
  <2> HIDE DEF new
  <2>4. ClientChange(c, new)
    BY <1>5, <2>2, <2>3 DEF ActivateClient, DeactivateClient, ClientChange
  <2> QED
    BY <2>2, <2>4
<1>6. CASE RemoveClient(c)
  <2> DEFINE new == [clients[c] EXCEPT !.state = "deleted"]
  <2>1. new \in ClientRow /\ new.state = "deleted"
    BY <1>1 DEF ClientRow
  <2>2. clients' = [clients EXCEPT ![c] = new]
    BY <1>1, <1>6 DEF RemoveClient
  <2> HIDE DEF new
  <2>3. ClientChange(c, new)
    BY <1>6, <2>1, <2>2 DEF RemoveClient, ClientChange
  <2> QED
    BY <2>1, <2>3
<1> QED
  BY <1>2, <1>3, <1>4, <1>5, <1>6

LEMMA ProjectStepChanges ==
  ASSUME DirectoryIInv, ProjectStep
  PROVE  \E p \in Projects, new \in ProjectRow : ProjectChange(p, new)
<1>1. /\ projects \in [Projects -> ProjectRow]
      /\ \A p \in Projects : projects[p].state # "absent" =>
           projects[p].clientId \in Clients /\ clients[projects[p].clientId].state # "absent"
  BY DEF DirectoryIInv, DirectoryTypeOK, RowsResolve
<1>2. PICK p \in Projects :
        \/ \E c \in Clients : UpdateProject(p, c) \/ \E status \in ProjectStatus : CreateProject(p, c, status)
        \/ \E status \in ProjectStatus : UpdateProjectStatus(p, status)
        \/ RemoveProject(p)
  BY DEF ProjectStep
<1>3. ASSUME NEW c \in Clients, NEW status \in ProjectStatus, CreateProject(p, c, status)
      PROVE  \E new \in ProjectRow : ProjectChange(p, new)
  <2> DEFINE new == [state |-> status, clientId |-> c]
  <2>1. new \in ProjectRow /\ new.state # "absent"
    BY DEF ProjectRow, ProjectStatus
  <2>2. ProjectChange(p, new)
    BY <1>3, <2>1 DEF CreateProject, ClientUsable, ProjectChange
  <2> QED
    BY <2>1, <2>2
<1>4. ASSUME NEW c \in Clients, UpdateProject(p, c)
      PROVE  \E new \in ProjectRow : ProjectChange(p, new)
  <2> DEFINE new == [projects[p] EXCEPT !.clientId = c]
  <2>1. new \in ProjectRow /\ new.state = projects[p].state /\ new.clientId = c
    BY <1>1 DEF ProjectRow
  <2>2. projects' = [projects EXCEPT ![p] = new]
    BY <1>1, <1>4 DEF UpdateProject
  <2>3. projects[p].state \in ProjectStatus /\ projects[p].state # "absent"
    BY <1>4 DEF UpdateProject, LiveProject, ProjectStatus
  <2>4. clients[c].state # "absent"
    BY <1>1, <1>4, <2>3 DEF UpdateProject, ClientUsable
  <2> HIDE DEF new
  <2>5. ProjectChange(p, new)
    BY <1>4, <2>1, <2>2, <2>3, <2>4 DEF UpdateProject, ProjectChange
  <2> QED
    BY <2>1, <2>5
<1>5. ASSUME NEW status \in ProjectStatus, UpdateProjectStatus(p, status)
      PROVE  \E new \in ProjectRow : ProjectChange(p, new)
  <2> DEFINE new == [projects[p] EXCEPT !.state = status]
  <2>1. new \in ProjectRow /\ new.state = status /\ new.clientId = projects[p].clientId
    BY <1>1 DEF ProjectRow
  <2>2. projects' = [projects EXCEPT ![p] = new]
    BY <1>1, <1>5 DEF UpdateProjectStatus
  <2>3. projects[p].state # "absent" /\ status \notin {"absent", "deleted"}
    BY <1>5 DEF UpdateProjectStatus, LiveProject, ProjectStatus
  <2> HIDE DEF new
  <2>4. ProjectChange(p, new)
    BY <1>1, <1>5, <2>1, <2>2, <2>3 DEF UpdateProjectStatus, ProjectChange
  <2> QED
    BY <2>1, <2>4
<1>6. CASE RemoveProject(p)
  <2> DEFINE new == [projects[p] EXCEPT !.state = "deleted"]
  <2>1. new \in ProjectRow /\ new.state = "deleted" /\ new.clientId = projects[p].clientId
    BY <1>1 DEF ProjectRow
  <2>2. projects' = [projects EXCEPT ![p] = new]
    BY <1>1, <1>6 DEF RemoveProject
  <2> HIDE DEF new
  <2>3. ProjectChange(p, new)
    BY <1>1, <1>6, <2>1, <2>2 DEF RemoveProject, ProjectChange
  <2> QED
    BY <2>1, <2>3
<1> QED
  BY <1>2, <1>3, <1>4, <1>5, <1>6

LEMMA WbsStepChanges ==
  ASSUME DirectoryIInv, WbsStep
  PROVE  \E w \in WbsCodes, new \in WbsRow : WbsChange(w, new)
<1>1. wbsCodes \in [WbsCodes -> WbsRow]
  BY DEF DirectoryIInv, DirectoryTypeOK
<1>2. PICK w \in WbsCodes :
        \/ \E p \in Projects \cup {None}, state \in {"active", "inactive"} :
             CreateWbs(w, p, state) \/ UpdateWbs(w, p, state)
        \/ RemoveWbs(w)
  BY DEF WbsStep
<1>3. ASSUME NEW p \in Projects \cup {None}, NEW state \in {"active", "inactive"},
             CreateWbs(w, p, state) \/ UpdateWbs(w, p, state)
      PROVE  \E new \in WbsRow : WbsChange(w, new)
  <2> DEFINE new == [state |-> state, projectId |-> p]
  <2>1. new \in WbsRow /\ new.state # "absent"
    BY DEF WbsRow
  <2>2. WbsChange(w, new)
    BY <1>3 DEF CreateWbs, UpdateWbs, WbsChange
  <2> QED
    BY <2>1, <2>2
<1>4. CASE RemoveWbs(w)
  <2> DEFINE new == [wbsCodes[w] EXCEPT !.state = "deleted"]
  <2>1. new \in WbsRow /\ new.state = "deleted"
    BY <1>1 DEF WbsRow
  <2>2. wbsCodes' = [wbsCodes EXCEPT ![w] = new]
    BY <1>1, <1>4 DEF RemoveWbs
  <2> HIDE DEF new
  <2>3. WbsChange(w, new)
    BY <1>4, <2>1, <2>2 DEF RemoveWbs, WbsChange
  <2> QED
    BY <2>1, <2>3
<1> QED
  BY <1>2, <1>3, <1>4

LEMMA RequisitionStepChanges ==
  ASSUME DirectoryIInv, RequisitionStep
  PROVE  \E r \in Requisitions, new \in RequisitionRow : RequisitionChange(r, new)
<1>1. /\ requisitions \in [Requisitions -> RequisitionRow]
      /\ \A r \in Requisitions : requisitions[r].state # "absent" =>
           /\ requisitions[r].projectId \in Projects
           /\ projects[requisitions[r].projectId].state # "absent"
           /\ requisitions[r].wbsCostCodeId # None =>
                /\ requisitions[r].wbsCostCodeId \in WbsCodes
                /\ wbsCodes[requisitions[r].wbsCostCodeId].state # "absent"
      /\ \A r \in Requisitions : requisitions[r].state \in {"submitted", "locked"} =>
           requisitions[r].wbsCostCodeId # None
  BY DEF DirectoryIInv, DirectoryTypeOK, RowsResolve
<1>2. PICK r \in Requisitions :
        \/ \E p \in Projects, w \in WbsCodes \cup {None} : CreateRequisition(r, p, w) \/ EditRequisition(r, p, w)
        \/ SubmitRequisition(r)
        \/ RaiseOrder(r)
        \/ RemoveRequisition(r)
  BY DEF RequisitionStep
<1>3. ASSUME NEW w \in WbsCodes \cup {None}, NEW p \in Projects, WbsBelongs(w, p)
      PROVE  w # None => w \in WbsCodes /\ wbsCodes[w].state # "absent"
  BY <1>3 DEF WbsBelongs
<1>4. ASSUME NEW p \in Projects, OpenProject(p)
      PROVE  projects[p].state # "absent"
  BY <1>4 DEF OpenProject
<1>5. ASSUME NEW p \in Projects, NEW w \in WbsCodes \cup {None}, CreateRequisition(r, p, w)
      PROVE  \E new \in RequisitionRow : RequisitionChange(r, new)
  <2> DEFINE new == [state |-> "draft", projectId |-> p, wbsCostCodeId |-> w]
  <2>1. new \in RequisitionRow
    BY DEF RequisitionRow
  <2>2. RequisitionChange(r, new)
    BY <1>3, <1>4, <1>5 DEF CreateRequisition, RequisitionChange, Locked
  <2> QED
    BY <2>1, <2>2
<1>6. ASSUME NEW p \in Projects, NEW w \in WbsCodes \cup {None}, EditRequisition(r, p, w)
      PROVE  \E new \in RequisitionRow : RequisitionChange(r, new)
  <2> DEFINE new == [requisitions[r] EXCEPT !.projectId = p, !.wbsCostCodeId = w]
  <2>1. /\ new \in RequisitionRow /\ new.state = requisitions[r].state
        /\ new.projectId = p /\ new.wbsCostCodeId = w
    BY <1>1 DEF RequisitionRow
  <2>2. requisitions' = [requisitions EXCEPT ![r] = new]
    BY <1>1, <1>6 DEF EditRequisition
  <2>3. /\ requisitions[r].state \in {"draft", "submitted"} /\ WbsBelongs(w, p)
        /\ requisitions[r].state = "submitted" => w # None
        /\ UNCHANGED <<clients, projects, wbsCodes>>
    BY <1>6 DEF EditRequisition
  <2>4. projects[p].state # "absent"
    BY <1>1, <1>4, <1>6, <2>3 DEF EditRequisition
  <2> HIDE DEF new
  <2>5. RequisitionChange(r, new)
    BY <1>3, <2>1, <2>2, <2>3, <2>4 DEF RequisitionChange, Locked
  <2> QED
    BY <2>1, <2>5
<1>7. CASE SubmitRequisition(r) \/ RaiseOrder(r) \/ RemoveRequisition(r)
  <2>1. PICK state \in {"submitted", "locked", "deleted"} :
          /\ requisitions' = [requisitions EXCEPT ![r].state = state]
          /\ UNCHANGED <<clients, projects, wbsCodes>>
          /\ requisitions[r].state \in {"draft", "submitted"}
          /\ state \in {"submitted", "locked"} => requisitions[r].wbsCostCodeId # None
    BY <1>1, <1>7 DEF SubmitRequisition, RaiseOrder, RemoveRequisition
  <2> DEFINE new == [requisitions[r] EXCEPT !.state = state]
  <2>2. /\ new \in RequisitionRow /\ new.state = state
        /\ new.projectId = requisitions[r].projectId /\ new.wbsCostCodeId = requisitions[r].wbsCostCodeId
    BY <1>1 DEF RequisitionRow
  <2>3. requisitions' = [requisitions EXCEPT ![r] = new]
    BY <1>1, <2>1
  <2> HIDE DEF new
  <2>4. RequisitionChange(r, new)
    BY <1>1, <2>1, <2>2, <2>3 DEF RequisitionChange, Locked
  <2> QED
    BY <2>2, <2>4
<1> QED
  BY <1>2, <1>5, <1>6, <1>7

LEMMA DirectoryStepChanges ==
  ASSUME DirectoryIInv, DirectoryNext
  PROVE  DirectoryChange
BY ClientStepChanges, ProjectStepChanges, WbsStepChanges, RequisitionStepChanges
   DEF DirectoryNext, DirectoryChange

-----------------------------------------------------------------------------
(* The invariant: references keep leading to rows that exist, since no row *)
(* goes back to not existing.                                              *)

LEMMA DirectoryInductive ==
  ASSUME DirectoryIInv, DirectoryNext
  PROVE  DirectoryIInv'
<1>1. /\ clients \in [Clients -> ClientRow] /\ projects \in [Projects -> ProjectRow]
      /\ wbsCodes \in [WbsCodes -> WbsRow] /\ requisitions \in [Requisitions -> RequisitionRow]
      /\ RowsResolve
  BY DEF DirectoryIInv, DirectoryTypeOK
<1>2. ASSUME NEW c \in Clients, NEW new \in ClientRow, ClientChange(c, new)
      PROVE  DirectoryIInv'
  <2>1. /\ UNCHANGED <<projects, wbsCodes, requisitions>>
        /\ clients' \in [Clients -> ClientRow]
        /\ \A d \in Clients : clients'[d].state = "absent" => clients[d].state = "absent"
    BY <1>1, <1>2 DEF ClientChange
  <2> QED
    BY <1>1, <2>1 DEF DirectoryIInv, DirectoryTypeOK, RowsResolve
<1>3. ASSUME NEW p \in Projects, NEW new \in ProjectRow, ProjectChange(p, new)
      PROVE  DirectoryIInv'
  <2>1. /\ UNCHANGED <<clients, wbsCodes, requisitions>>
        /\ projects' \in [Projects -> ProjectRow]
        /\ \A q \in Projects : \/ projects'[q] = projects[q]
                              \/ /\ projects'[q].state # "absent"
                                 /\ projects'[q].clientId \in Clients
                                 /\ clients[projects'[q].clientId].state # "absent"
    BY <1>1, <1>3 DEF ProjectChange
  <2> QED
    BY <1>1, <2>1 DEF DirectoryIInv, DirectoryTypeOK, RowsResolve
<1>4. ASSUME NEW w \in WbsCodes, NEW new \in WbsRow, WbsChange(w, new)
      PROVE  DirectoryIInv'
  <2>1. /\ UNCHANGED <<clients, projects, requisitions>>
        /\ wbsCodes' \in [WbsCodes -> WbsRow]
        /\ \A v \in WbsCodes : wbsCodes'[v].state = "absent" => wbsCodes[v].state = "absent"
    BY <1>1, <1>4 DEF WbsChange
  <2> QED
    BY <1>1, <2>1 DEF DirectoryIInv, DirectoryTypeOK, RowsResolve
<1>5. ASSUME NEW r \in Requisitions, NEW new \in RequisitionRow, RequisitionChange(r, new)
      PROVE  DirectoryIInv'
  <2>1. /\ UNCHANGED <<clients, projects, wbsCodes>>
        /\ requisitions' \in [Requisitions -> RequisitionRow]
        /\ requisitions'[r] = new /\ \A q \in Requisitions \ {r} : requisitions'[q] = requisitions[q]
    BY <1>1, <1>5 DEF RequisitionChange
  <2>2. ASSUME NEW q \in Requisitions
        PROVE  /\ requisitions'[q].state # "absent" =>
                    /\ requisitions'[q].projectId \in Projects
                    /\ projects[requisitions'[q].projectId].state # "absent"
                    /\ requisitions'[q].wbsCostCodeId # None =>
                         /\ requisitions'[q].wbsCostCodeId \in WbsCodes
                         /\ wbsCodes[requisitions'[q].wbsCostCodeId].state # "absent"
               /\ requisitions'[q].state \in {"submitted", "locked"} => requisitions'[q].wbsCostCodeId # None
    <3>1. CASE q = r
      BY <1>5, <2>1, <3>1 DEF RequisitionChange
    <3>2. CASE q # r
      BY <1>1, <2>1, <3>2 DEF RowsResolve
    <3> QED
      BY <3>1, <3>2
  <2>3. RowsResolve'
    BY <1>1, <2>1, <2>2 DEF RowsResolve
  <2> QED
    BY <1>1, <2>1, <2>3 DEF DirectoryIInv, DirectoryTypeOK
<1> QED
  BY <1>2, <1>3, <1>4, <1>5, DirectoryStepChanges DEF DirectoryChange

LEMMA DirectoryInitial == DirectoryInit => DirectoryIInv
BY DEF DirectoryInit, DirectoryIInv, DirectoryTypeOK, RowsResolve, ClientRow, ProjectRow, WbsRow, RequisitionRow

\* What a locked requisition leads to is what each change asks the lock about.
LEMMA OrderedStep ==
  ASSUME DirectoryIInv, DirectoryNext, NEW r \in Requisitions, Locked(r)
  PROVE  LET p == requisitions[r].projectId
             w == requisitions[r].wbsCostCodeId
             c == projects[p].clientId
         IN  /\ requisitions'[r] = requisitions[r]
             /\ wbsCodes'[w] = wbsCodes[w]
             /\ projects'[p].clientId = c
             /\ clients'[c].parentClientId = clients[c].parentClientId
             /\ projects[p].state # "deleted" => projects'[p].state # "deleted"
             /\ clients[c].state # "deleted" => clients'[c].state # "deleted"
<1> DEFINE p == requisitions[r].projectId
           w == requisitions[r].wbsCostCodeId
           c == projects[p].clientId
<1>1. /\ clients \in [Clients -> ClientRow] /\ projects \in [Projects -> ProjectRow]
      /\ wbsCodes \in [WbsCodes -> WbsRow] /\ requisitions \in [Requisitions -> RequisitionRow]
  BY DEF DirectoryIInv, DirectoryTypeOK
<1>2. /\ p \in Projects /\ projects[p].state # "absent"
      /\ w \in WbsCodes /\ wbsCodes[w].state # "absent"
      /\ c \in Clients /\ clients[c].state # "absent"
  BY DEF DirectoryIInv, RowsResolve, Locked
<1>3. ~ProjectEditable(p) /\ ~WbsEditable(w) /\ ~ClientEditable(c)
  BY DEF ProjectEditable, WbsEditable, ClientEditable
<1> HIDE DEF p, w, c
<1>4. ASSUME NEW d \in Clients, NEW new \in ClientRow, ClientChange(d, new)
      PROVE  /\ clients'[c].parentClientId = clients[c].parentClientId
             /\ clients[c].state # "deleted" => clients'[c].state # "deleted"
             /\ UNCHANGED <<projects, wbsCodes, requisitions>>
  BY <1>1, <1>2, <1>3, <1>4 DEF ClientChange
<1>5. ASSUME NEW q \in Projects, NEW new \in ProjectRow, ProjectChange(q, new)
      PROVE  /\ projects'[p].clientId = projects[p].clientId
             /\ projects[p].state # "deleted" => projects'[p].state # "deleted"
             /\ UNCHANGED <<clients, wbsCodes, requisitions>>
  BY <1>1, <1>2, <1>3, <1>5 DEF ProjectChange
<1>6. ASSUME NEW v \in WbsCodes, NEW new \in WbsRow, WbsChange(v, new)
      PROVE  wbsCodes'[w] = wbsCodes[w] /\ UNCHANGED <<clients, projects, requisitions>>
  BY <1>1, <1>2, <1>3, <1>6 DEF WbsChange
<1>7. ASSUME NEW s \in Requisitions, NEW new \in RequisitionRow, RequisitionChange(s, new)
      PROVE  requisitions'[r] = requisitions[r] /\ UNCHANGED <<clients, projects, wbsCodes>>
  BY <1>1, <1>7 DEF RequisitionChange
<1> QED
  BY <1>4, <1>5, <1>6, <1>7, DirectoryStepChanges DEF DirectoryChange, p, w, c

-----------------------------------------------------------------------------
(* The theorems.                                                           *)

LEMMA DirectoryInvariant == DirectorySpec => []DirectoryIInv
<1>1. DirectoryIInv /\ [DirectoryNext]_directoryVars => DirectoryIInv'
  <2>1. ASSUME DirectoryIInv, UNCHANGED directoryVars
        PROVE  DirectoryIInv'
    BY <2>1 DEF directoryVars, DirectoryIInv, DirectoryTypeOK, RowsResolve
  <2> QED
    BY <2>1, DirectoryInductive
<1> QED
  BY <1>1, DirectoryInitial, PTL DEF DirectorySpec

\* Clients, projects, cost codes and requisitions keep their types.
THEOREM DirectoryTypeCorrect == DirectorySpec => []DirectoryTypeOK
<1>1. DirectoryIInv => DirectoryTypeOK
  BY DEF DirectoryIInv
<1> QED
  BY <1>1, DirectoryInvariant, PTL

\* The references of projects and requisitions lead to rows that were created.
THEOREM ReferencesResolve == DirectorySpec => []RowsResolve
<1>1. DirectoryIInv => RowsResolve
  BY DEF DirectoryIInv
<1> QED
  BY <1>1, DirectoryInvariant, PTL

\* From a purchase order on, its requisition, project, client and cost code stay.
THEOREM OrderedStaysFrozen == DirectorySpec => OrderedIsFrozen
<1>1. DirectoryIInv /\ [DirectoryNext]_directoryVars =>
        [\A r \in Requisitions : Locked(r) =>
           LET p == requisitions[r].projectId
               w == requisitions[r].wbsCostCodeId
               c == projects[p].clientId
           IN  /\ requisitions'[r] = requisitions[r]
               /\ wbsCodes'[w] = wbsCodes[w]
               /\ projects'[p].clientId = c
               /\ clients'[c].parentClientId = clients[c].parentClientId
               /\ projects[p].state # "deleted" => projects'[p].state # "deleted"
               /\ clients[c].state # "deleted" => clients'[c].state # "deleted"]_directoryVars
  BY OrderedStep
<1> QED
  BY <1>1, DirectoryInvariant, PTL DEF DirectorySpec, OrderedIsFrozen

-----------------------------------------------------------------------------
(* Clients below one another. What assertParent looks at, going up from a  *)
(* new parent, is a line; and there is a ring below the client it is for if*)
(* and only if that line leads back to it, since it is followed for as many*)
(* steps as there are clients.                                             *)

ParentOf == [c \in Clients \cup {None} |-> IF c = None THEN None ELSE clients[c].parentClientId]

LEMMA ParentOfType ==
  ASSUME DirectoryTypeOK
  PROVE  ParentOf \in [Clients \cup {None} -> Clients \cup {None}]
BY DEF ParentOf, DirectoryTypeOK, ClientRow

LEMMA AncestorLine ==
  ASSUME DirectoryTypeOK, NEW c \in Clients \cup {None}
  PROVE  IsLine(Ancestor(c), Clients \cup {None}, ParentOf, c, MaxParentDepth)
<1> DEFINE IsUp(up) == up = [n \in 0..MaxParentDepth |->
                               IF n = 0 THEN c
                               ELSE IF up[n - 1] = None THEN None ELSE clients[up[n - 1]].parentClientId]
<1>1. Ancestor(c) = CHOOSE up : IsUp(up)
  BY DEF Ancestor
<1>2. MaxParentDepth \in Nat
  BY DirectoryAssumption
<1>0. PICK f : IsLine(f, Clients \cup {None}, ParentOf, c, MaxParentDepth)
  BY <1>2, ParentOfType, LineExists
<1>3. /\ f \in [0..MaxParentDepth -> Clients \cup {None}] /\ f[0] = c
      /\ \A n \in 1..MaxParentDepth : f[n] = ParentOf[f[n - 1]]
  BY <1>0 DEF IsLine
<1>4. ASSUME NEW n \in 0..MaxParentDepth
      PROVE  f[n] = IF n = 0 THEN c ELSE IF f[n - 1] = None THEN None ELSE clients[f[n - 1]].parentClientId
  <2>1. CASE n = 0
    BY <1>3, <2>1
  <2>2. CASE n # 0
    <3>1. n \in 1..MaxParentDepth /\ n - 1 \in 0..MaxParentDepth
      BY <1>2, <2>2
    <3>2. f[n - 1] \in Clients \cup {None} /\ f[n] = ParentOf[f[n - 1]]
      BY <1>3, <3>1
    <3> QED
      BY <2>2, <3>2 DEF ParentOf
  <2> QED
    BY <2>1, <2>2
<1>5. IsUp(f)
  BY <1>3, <1>4
<1>6. IsUp(Ancestor(c))
  <2> HIDE DEF IsUp
  <2> QED
    BY <1>1, <1>5
<1> DEFINE up == Ancestor(c)
<1>7. \A n \in 0..MaxParentDepth :
        up[n] = IF n = 0 THEN c ELSE IF up[n - 1] = None THEN None ELSE clients[up[n - 1]].parentClientId
  BY <1>6
<1>8. up[0] = c
  BY <1>2, <1>7
<1> HIDE DEF up
<1>9. \A n \in 0..MaxParentDepth : up[n] \in Clients \cup {None}
  <2> DEFINE Typed == {n \in Nat : n \in 0..MaxParentDepth => up[n] \in Clients \cup {None}}
  <2>1. 0 \in Typed
    BY <1>8
  <2>2. ASSUME NEW n \in Nat, n \in Typed
        PROVE  n + 1 \in Typed
    <3>1. CASE n + 1 \in 0..MaxParentDepth
      <4>1. up[n] \in Clients \cup {None}
        BY <1>2, <2>2, <3>1
      <4>2. up[n + 1] = IF up[n] = None THEN None ELSE clients[up[n]].parentClientId
        BY <1>7, <3>1
      <4> QED
        BY <4>1, <4>2 DEF DirectoryTypeOK, ClientRow
    <3> QED
      BY <3>1
  <2> HIDE DEF Typed
  <2>3. Nat \subseteq Typed
    BY <2>1, <2>2, SetInduction
  <2> QED
    BY <1>2, <2>3 DEF Typed
<1>10. \A n \in 1..MaxParentDepth : up[n] = ParentOf[up[n - 1]]
  BY <1>2, <1>7, <1>9 DEF ParentOf
<1>11. up = [n \in 0..MaxParentDepth |-> up[n]]
  BY <1>6 DEF up
<1> QED
  BY <1>8, <1>9, <1>10, <1>11 DEF IsLine, up

LiveClients == {c \in Clients : LiveClient(c)}

ParentsLive == \A c \in LiveClients : clients[c].parentClientId \in LiveClients \cup {None}

\* No live clients are below one another all round.
NoRing == \A S \in SUBSET LiveClients : S # {} => \E c \in S : clients[c].parentClientId \notin S

ParentsFit == ParentsLive /\ NoRing

\* A line of live clients as long as there are clients would hold a ring.
LEMMA LongLineNoRing ==
  ASSUME NEW N \in Nat, Cardinality(Clients) <= N, NEW c, NEW f, IsLine(f, Clients, ParentOf, c, N),
         \A n \in 0..N - 1 : f[n] \in LiveClients, NoRing
  PROVE  FALSE
<1>1. IsFiniteSet(Clients)
  BY DirectoryAssumption
<1>2. HasRing(f, ParentOf, N)
  BY <1>1, LineMeetsItself
<1>3. PICK T : T # {} /\ \A t \in T : ParentOf[t] \in T /\ \E n \in 0..N - 1 : t = f[n]
  BY <1>2 DEF HasRing
<1>4. T \in SUBSET LiveClients /\ T \subseteq Clients
  BY <1>3 DEF LiveClients
<1>5. \A t \in T : clients[t].parentClientId \in T
  BY <1>3, <1>4, DirectoryAssumption DEF ParentOf
<1> QED
  BY <1>3, <1>4, <1>5 DEF NoRing

\* A new parent brings no ring: the line above it is looked at and would lead round it.
LEMMA NewParentNoRing ==
  ASSUME DirectoryTypeOK, ParentsFit, NEW c \in Clients, NEW parent \in Clients, MayBeParent(c, parent),
         NEW S \in SUBSET LiveClients, parent \in S,
         \A s \in S \ {c} : clients[s].parentClientId \in S
  PROVE  FALSE
<1> DEFINE up == Ancestor(parent)
           M == MaxParentDepth
<1>1. M \in Nat /\ IsFiniteSet(Clients) /\ Cardinality(Clients) <= M /\ None \notin Clients
  BY DirectoryAssumption
<1>2. IsLine(up, Clients \cup {None}, ParentOf, parent, M)
  BY AncestorLine
<1>3. up[0] = parent /\ \A n \in 1..M : up[n] = ParentOf[up[n - 1]]
  BY <1>2 DEF IsLine
<1>4. /\ parent # c
      /\ \A n \in 0..M - 1 : up[n] # None => LiveClient(up[n]) /\ clients[up[n]].parentClientId # c
  BY <1>1 DEF MayBeParent
<1> HIDE DEF up
<1>5. S \subseteq Clients
  BY DEF LiveClients
<1> DEFINE Within == {n \in Nat : n <= M => up[n] \in S \ {c}}
<1>6. Nat \subseteq Within
  <2>1. 0 \in Within
    BY <1>3, <1>4
  <2>2. ASSUME NEW n \in Nat, n \in Within
        PROVE  n + 1 \in Within
    <3>1. CASE n + 1 <= M
      <4>1. n \in 0..M - 1 /\ n + 1 \in 1..M /\ (n + 1) - 1 = n
            /\ up[n] \in S \ {c} /\ up[n] \in Clients
        BY <1>1, <1>5, <2>2, <3>1
      <4>2. up[n + 1] = clients[up[n]].parentClientId
        BY <1>1, <1>3, <4>1 DEF ParentOf
      <4>3. clients[up[n]].parentClientId # c /\ clients[up[n]].parentClientId \in S
        BY <1>1, <1>4, <4>1
      <4> QED
        BY <4>2, <4>3
    <3> QED
      BY <3>1
  <2> HIDE DEF Within
  <2> QED
    BY <2>1, <2>2, SetInduction
<1>7. \A n \in 0..M : up[n] \in S /\ up[n] \in Clients
  BY <1>1, <1>5, <1>6
<1> DEFINE f == [n \in 0..M |-> up[n]]
<1>8. IsLine(f, Clients, ParentOf, parent, M) /\ \A n \in 0..M - 1 : f[n] \in LiveClients
  BY <1>1, <1>3, <1>7 DEF IsLine
<1> HIDE DEF f, Within
<1> QED
  BY <1>1, <1>8, LongLineNoRing DEF ParentsFit

LEMMA ClientKeepsParents ==
  ASSUME DirectoryTypeOK, ParentsFit, ClientStep
  PROVE  ParentsFit'
<1>1. clients \in [Clients -> ClientRow] /\ None \notin Clients /\ 0 \in 0..MaxParentDepth
  BY DirectoryAssumption DEF DirectoryTypeOK
<1>2. PICK c \in Clients, parent \in Clients \cup {None} :
        \/ \E status \in {"ACTIVE", "INACTIVE"} : CreateClient(c, status, parent)
        \/ UpdateClient(c, parent)
        \/ ActivateClient(c)
        \/ DeactivateClient(c)
        \/ RemoveClient(c)
  BY DEF ClientStep
\* A parent that is accepted is live.
<1>3. ASSUME NEW x, MayBeParent(x, parent), parent # None
      PROVE  parent \in LiveClients
  <2>1. Ancestor(parent)[0] = parent
    BY AncestorLine DEF IsLine
  <2>2. CASE MaxParentDepth = 0
    <3>1. Cardinality(Clients) = 0 /\ IsFiniteSet(Clients)
      BY <2>2, DirectoryAssumption, FS_CardinalityType
    <3> QED
      BY <3>1, FS_EmptySet
  <2>3. CASE MaxParentDepth # 0
    <3>1. 0 \in 0..MaxParentDepth - 1
      BY <2>3, DirectoryAssumption
    <3> QED
      BY <1>3, <2>1, <3>1 DEF MayBeParent, LiveClients
  <2> QED
    BY <2>2, <2>3
<1>4. ASSUME NEW status \in {"ACTIVE", "INACTIVE"}, CreateClient(c, status, parent)
      PROVE  ParentsFit'
  <2>1. /\ c \notin LiveClients /\ LiveClients' = LiveClients \cup {c}
        /\ clients'[c].parentClientId = parent
        /\ \A d \in Clients \ {c} : clients'[d] = clients[d]
    BY <1>1, <1>4 DEF CreateClient, LiveClients, LiveClient
  <2>2. parent \in LiveClients \cup {None}
    BY <1>3, <1>4 DEF CreateClient
  <2>3. LiveClients \subseteq Clients
    BY DEF LiveClients
  <2>4. ParentsLive'
    BY <2>1, <2>2, <2>3 DEF ParentsFit, ParentsLive
  <2>5. ASSUME NEW S \in SUBSET LiveClients', S # {}
        PROVE  \E d \in S : clients'[d].parentClientId \notin S
    <3>1. CASE S \subseteq {c}
      BY <1>1, <2>1, <2>2, <2>3, <2>5, <3>1
    <3>2. CASE ~(S \subseteq {c})
      <4>1. PICK d \in S \ {c} : clients[d].parentClientId \notin S \ {c}
        BY <2>1, <3>2 DEF ParentsFit, NoRing
      <4>2. d \in LiveClients /\ clients[d].parentClientId # c
        BY <1>1, <2>1, <4>1 DEF ParentsFit, ParentsLive
      <4> QED
        BY <2>1, <2>3, <4>1, <4>2
    <3> QED
      BY <3>1, <3>2
  <2> QED
    BY <2>4, <2>5 DEF ParentsFit, NoRing
<1>5. CASE UpdateClient(c, parent)
  <2>1. /\ c \in LiveClients /\ LiveClients' = LiveClients
        /\ clients'[c].parentClientId = parent
        /\ \A d \in Clients \ {c} : clients'[d] = clients[d]
    BY <1>1, <1>5 DEF UpdateClient, LiveClients, LiveClient, ClientRow
  <2>2. LiveClients \subseteq Clients
    BY DEF LiveClients
  <2>3. CASE parent = clients[c].parentClientId
    <3>1. \A d \in Clients : clients'[d].parentClientId = clients[d].parentClientId
      BY <2>1, <2>3
    <3> QED
      BY <2>1, <2>2, <3>1 DEF ParentsFit, ParentsLive, NoRing
  <2>4. CASE parent # clients[c].parentClientId
    <3>1. MayBeParent(c, parent)
      BY <1>5, <2>4 DEF UpdateClient
    <3>2. parent \in LiveClients \cup {None}
      BY <1>3, <3>1
    <3>3. ParentsLive'
      BY <2>1, <2>2, <3>2 DEF ParentsFit, ParentsLive
    <3>4. ASSUME NEW S \in SUBSET LiveClients, S # {}, \A d \in S : clients'[d].parentClientId \in S
          PROVE  FALSE
      <4>1. \A d \in S \ {c} : clients[d].parentClientId \in S
        BY <2>1, <2>2, <3>4
      <4>2. c \in S
        BY <3>4, <4>1 DEF ParentsFit, NoRing
      <4>3. parent \in S /\ parent \in Clients
        BY <1>1, <2>1, <2>2, <3>4, <4>2
      <4> QED
        BY <3>1, <4>1, <4>3, NewParentNoRing
    <3> QED
      BY <2>1, <3>3, <3>4 DEF ParentsFit, NoRing
  <2> QED
    BY <2>3, <2>4
<1>6. CASE ActivateClient(c) \/ DeactivateClient(c)
  <2>1. /\ LiveClients' = LiveClients
        /\ \A d \in Clients : clients'[d].parentClientId = clients[d].parentClientId
    BY <1>1, <1>6 DEF ActivateClient, DeactivateClient, LiveClients, LiveClient, ClientRow
  <2>2. LiveClients \subseteq Clients
    BY DEF LiveClients
  <2> QED
    BY <2>1, <2>2 DEF ParentsFit, ParentsLive, NoRing
<1>7. CASE RemoveClient(c)
  <2>1. /\ LiveClients' = LiveClients \ {c}
        /\ \A d \in Clients : clients'[d].parentClientId = clients[d].parentClientId
        /\ \A d \in LiveClients : clients[d].parentClientId # c
    BY <1>1, <1>7 DEF RemoveClient, LiveClients, LiveClient, ClientRow
  <2>2. LiveClients \subseteq Clients
    BY DEF LiveClients
  <2> QED
    BY <2>1, <2>2 DEF ParentsFit, ParentsLive, NoRing
<1> QED
  BY <1>2, <1>4, <1>5, <1>6, <1>7

\* Without a ring, every line ends among its clients.
LEMMA LinesEnd ==
  ASSUME DirectoryTypeOK, ParentsFit
  PROVE  ParentsAreSound
<1> DEFINE N == Cardinality(Clients)
<1>1. MaxParentDepth \in Nat /\ IsFiniteSet(Clients) /\ N \in Nat /\ N <= MaxParentDepth /\ None \notin Clients
  BY DirectoryAssumption, FS_CardinalityType
<1>2. ASSUME NEW c \in LiveClients, Ancestor(c)[N] # None
      PROVE  FALSE
  <2> DEFINE up == Ancestor(c)
             f == [n \in 0..N |-> up[n]]
  <2>1. up[0] = c /\ \A n \in 1..N : up[n] = ParentOf[up[n - 1]]
    BY <1>1, AncestorLine DEF IsLine, LiveClients
  <2> HIDE DEF up
  <2>2. LiveClients \subseteq Clients
    BY DEF LiveClients
  <2> DEFINE Kept == {n \in Nat : n <= N => up[n] \in LiveClients \cup {None}}
  <2>3. Nat \subseteq Kept
    <3>1. 0 \in Kept
      BY <1>2, <2>1
    <3>2. ASSUME NEW n \in Nat, n \in Kept
          PROVE  n + 1 \in Kept
      <4>1. CASE n + 1 <= N
        <5>1. n + 1 \in 1..N /\ (n + 1) - 1 = n /\ up[n] \in LiveClients \cup {None}
          BY <1>1, <3>2, <4>1
        <5>2. up[n + 1] = IF up[n] = None THEN None ELSE clients[up[n]].parentClientId
          BY <2>1, <2>2, <5>1 DEF ParentOf
        <5> QED
          BY <5>1, <5>2 DEF ParentsFit, ParentsLive
      <4> QED
        BY <4>1
    <3> HIDE DEF Kept
    <3> QED
      BY <3>1, <3>2, SetInduction
  <2>4. ASSUME NEW k \in 0..N, up[k] = None
        PROVE  FALSE
    <3> DEFINE Ended == {n \in Nat : k + n <= N => up[k + n] = None}
    <3>1. 0 \in Ended
      BY <2>4
    <3>2. ASSUME NEW n \in Nat, n \in Ended
          PROVE  n + 1 \in Ended
      <4>1. CASE k + (n + 1) <= N
        <5>1. k + (n + 1) \in 1..N /\ (k + (n + 1)) - 1 = k + n /\ up[k + n] = None
          BY <1>1, <3>2, <4>1
        <5>2. up[k + (n + 1)] = None
          BY <2>1, <5>1 DEF ParentOf
        <5> QED
          BY <5>2
      <4> QED
        BY <4>1
    <3> HIDE DEF Ended
    <3>3. N - k \in Ended
      BY <1>1, <3>1, <3>2, SetInduction
    <3>4. N - k \in Nat /\ k + (N - k) = N
      BY <1>1
    <3>5. up[N] = None
      BY <1>1, <3>3, <3>4 DEF Ended
    <3> QED
      BY <1>2, <3>5 DEF up
  <2>5. \A n \in 0..N : up[n] \in LiveClients
    BY <2>3, <2>4
  <2>6. IsLine(f, Clients, ParentOf, c, N) /\ (\A n \in 0..N - 1 : f[n] \in LiveClients) /\ Cardinality(Clients) <= N
    BY <1>1, <2>1, <2>2, <2>5 DEF IsLine
  <2> HIDE DEF f, Kept, N
  <2> QED
    BY <1>1, <2>6, LongLineNoRing DEF ParentsFit
<1> QED
  BY <1>2 DEF ParentsAreSound, ParentsFit, ParentsLive, LiveClients

LEMMA ParentsInductive == DirectoryTypeOK /\ ParentsFit /\ [DirectoryNext]_directoryVars => ParentsFit'
<1> SUFFICES ASSUME DirectoryTypeOK, ParentsFit, [DirectoryNext]_directoryVars
             PROVE  ParentsFit'
  OBVIOUS
<1>1. CASE ClientStep
  BY <1>1, ClientKeepsParents
<1>2. CASE UNCHANGED clients
  <2>1. LiveClients' = LiveClients
    BY <1>2 DEF LiveClients, LiveClient
  <2> QED
    BY <1>2, <2>1 DEF ParentsFit, ParentsLive, NoRing
<1>3. ProjectStep \/ WbsStep \/ RequisitionStep => UNCHANGED clients
  BY DEF ProjectStep, UpdateProject, CreateProject, UpdateProjectStatus, RemoveProject, WbsStep, CreateWbs,
         UpdateWbs, RemoveWbs, RequisitionStep, CreateRequisition, EditRequisition, SubmitRequisition, RaiseOrder,
         RemoveRequisition
<1> QED
  BY <1>1, <1>2, <1>3 DEF DirectoryNext, directoryVars

LEMMA ParentsStart == DirectoryInit => ParentsFit
<1> SUFFICES ASSUME DirectoryInit PROVE ParentsFit
  OBVIOUS
<1>1. LiveClients = {}
  BY DEF DirectoryInit, LiveClients, LiveClient
<1> QED
  BY <1>1 DEF ParentsFit, ParentsLive, NoRing

\* Whichever clients were created below others, re-parented and removed: none is above
\* itself or below a deleted one (assertParent of ClientService, which follows a line for
\* MAX_PARENT_DEPTH steps, and remove).
THEOREM ParentsStaySound == DirectorySpec => []ParentsAreSound
BY DirectoryTypeCorrect, ParentsStart, ParentsInductive, LinesEnd, PTL DEF DirectorySpec

-----------------------------------------------------------------------------
(* Accounts, for any set of addresses, any number of attempts and of       *)
(* sessions. What a handler does to the user rows is one of five changes   *)
(* (RowChanges): none, columns neither property reads, one row registered  *)
(* anew while it is not verified, one row made active and verified, or one *)
(* row deleted. SignedInIsVerified is inductive together with the types.   *)

\* The row e after a step, where all the others stay.
Others(e) == \A f \in Emails \ {e} : users'[f] = users[f]

\* Columns other than those of the two properties: a code, the role, whether the
\* account is active.
Touches(e) ==
  /\ Others(e)
  /\ users'[e].exists = users[e].exists
  /\ users'[e].is_email_verified = users[e].is_email_verified
  /\ users'[e].is_deleted = users[e].is_deleted

\* register, which only an address that is not verified goes through.
Registers(e) ==
  /\ Others(e)
  /\ ~users[e].is_email_verified
  /\ users'[e].is_deleted = users[e].is_deleted

\* verifyEmail, and the organization's first administrator.
Verifies(e) ==
  /\ Others(e)
  /\ users'[e].exists /\ users'[e].is_email_verified
  /\ users'[e].is_deleted => users[e].is_deleted

\* deleteUser.
Deletes(e) ==
  /\ CanDelete(e)
  /\ Others(e)
  /\ users'[e].exists /\ users'[e].is_email_verified = users[e].is_email_verified

\* A step that changes no session but for ending some.
SessionsEnd == \A e \in Emails : sessions'[e] > 0 => sessions[e] > 0

RowChanges == SessionsEnd /\ (users' = users \/ \E e \in Emails : Touches(e) \/ Registers(e) \/ Verifies(e) \/ Deletes(e))

-----------------------------------------------------------------------------
\* Changing one row to a row of the type keeps the type and the other rows.
LEMMA OneRow ==
  ASSUME users \in [Emails -> UserRow], NEW e \in Emails, NEW new \in UserRow,
         users' = [users EXCEPT ![e] = new]
  PROVE  users' \in [Emails -> UserRow] /\ users'[e] = new /\ Others(e)
BY DEF Others

\* The codes of the organization.
LEMMA OrgSteps ==
  ASSUME AccountsTypeOK, SendOrgCode \/ OrgCodeExpires \/ OrgVerifyFails
  PROVE  org' \in OrgRow /\ UNCHANGED <<users, sessions, unsent>>
<1>1. org \in OrgRow /\ MaxTries \in Nat \ {0}
  BY AccountsAssumption DEF AccountsTypeOK
<1>2. CASE SendOrgCode
  <2>1. PICK code \in {"none", "live"} : org' = [org EXCEPT !.signedUp = TRUE, !.code = code, !.attemptCount = 0]
    BY <1>2 DEF SendOrgCode
  <2>2. 0 \in 0..MaxTries
    BY <1>1
  <2> QED
    BY <1>1, <1>2, <2>1, <2>2 DEF SendOrgCode, OrgRow, Codes
<1>3. CASE OrgCodeExpires
  BY <1>1, <1>3 DEF OrgCodeExpires, OrgRow, Codes
<1>4. CASE OrgVerifyFails
  <2>1. org.attemptCount + 1 \in 0..MaxTries
    BY <1>1, <1>4 DEF OrgVerifyFails, CanTryOrgCode, OrgRow
  <2>2. org' = [org EXCEPT !.attemptCount = org.attemptCount + 1]
    BY <1>4 DEF OrgVerifyFails
  <2> QED
    BY <1>1, <1>4, <2>1, <2>2 DEF OrgVerifyFails, OrgRow
<1> QED
  BY <1>2, <1>3, <1>4

LEMMA AccountsTypeStep ==
  ASSUME AccountsTypeOK, AccountsNext
  PROVE  AccountsTypeOK' /\ (RowChanges \/ \E e \in Emails : Login(e))
<1>1. /\ org \in OrgRow /\ users \in [Emails -> UserRow]
      /\ sessions \in [Emails -> 0..MaxSessions] /\ unsent \subseteq Emails
      /\ MaxSessions \in Nat \ {0}
  BY AccountsAssumption DEF AccountsTypeOK
<1>2. CASE SendOrgCode \/ OrgCodeExpires \/ OrgVerifyFails
  BY <1>1, <1>2, OrgSteps DEF AccountsTypeOK, RowChanges, SessionsEnd
<1>3. CASE VerifyOrgEmail
  <2>1. org' \in OrgRow /\ UNCHANGED <<sessions, unsent>>
    BY <1>1, <1>3 DEF VerifyOrgEmail, OrgRow
  <2>2. OrgEmail \in Emails
    BY AccountsAssumption
  <2>3. FirstAdmin \in UserRow /\ FirstAdmin.exists /\ FirstAdmin.is_email_verified /\ ~FirstAdmin.is_deleted
    BY DEF FirstAdmin, NoUser, UserRow, Roles, Codes
  <2>4. CASE users' = users
    BY <1>1, <2>1, <2>4 DEF AccountsTypeOK, RowChanges, SessionsEnd
  <2>5. CASE ~users[OrgEmail].exists /\ users' = [users EXCEPT ![OrgEmail] = FirstAdmin]
    BY <1>1, <2>1, <2>2, <2>3, <2>5, OneRow DEF AccountsTypeOK, RowChanges, SessionsEnd, Verifies
  <2> QED
    BY <1>3, <2>4, <2>5 DEF VerifyOrgEmail
<1>4. ASSUME NEW e \in Emails, NEW role \in Roles, Register(e, role)
      PROVE  AccountsTypeOK' /\ RowChanges
  <2> DEFINE new == [exists |-> TRUE, is_email_verified |-> FALSE, is_active |-> FALSE,
                     is_deleted |-> users[e].is_deleted,
                     role |-> IF users[e].exists THEN users[e].role ELSE role,
                     role_guid |-> role, code |-> "live"]
  <2>1. users' = [users EXCEPT ![e] = new] /\ unsent' \subseteq Emails /\ UNCHANGED <<org, sessions>>
        /\ ~users[e].is_email_verified
    BY <1>1, <1>4 DEF Register, CanRegister
  <2>2. new \in UserRow /\ new.is_deleted = users[e].is_deleted
    BY <1>1 DEF UserRow, Codes
  <2> HIDE DEF new
  <2>3. users' \in [Emails -> UserRow] /\ users'[e] = new /\ Others(e)
    BY <1>1, <2>1, <2>2, OneRow
  <2> QED
    BY <1>1, <2>1, <2>2, <2>3 DEF AccountsTypeOK, RowChanges, SessionsEnd, Registers
<1>5. ASSUME NEW e \in Emails, VerifyEmail(e)
      PROVE  AccountsTypeOK' /\ RowChanges
  <2> DEFINE new == [users[e] EXCEPT !.is_email_verified = TRUE, !.is_active = TRUE, !.code = "none"]
  <2>1. users' = [users EXCEPT ![e] = new] /\ UNCHANGED <<org, sessions, unsent>>
    BY <1>1, <1>5 DEF VerifyEmail
  <2>2. new \in UserRow /\ new.is_deleted = users[e].is_deleted /\ new.exists /\ new.is_email_verified
    BY <1>1, <1>5 DEF VerifyEmail, UserRow, Codes
  <2> HIDE DEF new
  <2>3. users' \in [Emails -> UserRow] /\ users'[e] = new /\ Others(e)
    BY <1>1, <2>1, <2>2, OneRow
  <2> QED
    BY <1>1, <2>1, <2>2, <2>3 DEF AccountsTypeOK, RowChanges, SessionsEnd, Verifies
<1>6. ASSUME NEW e \in Emails,
             \/ ResendCode(e) \/ CodeExpires(e)
             \/ \E role \in Roles : ChangeRole(e, role)
             \/ \E isActive \in BOOLEAN : ToggleStatus(e, isActive)
      PROVE  AccountsTypeOK' /\ RowChanges
  <2>1. UNCHANGED <<org, sessions, unsent>>
    BY <1>6 DEF ResendCode, CodeExpires, ChangeRole, ToggleStatus
  <2>2. PICK new \in UserRow : /\ users' = [users EXCEPT ![e] = new]
                              /\ new.exists = users[e].exists /\ new.is_deleted = users[e].is_deleted
                              /\ new.is_email_verified = users[e].is_email_verified
    <3>1. CASE ResendCode(e) \/ CodeExpires(e)
      <4>1. PICK code \in Codes : users' = [users EXCEPT ![e].code = code]
        BY <3>1 DEF ResendCode, CodeExpires, Codes
      <4> DEFINE new == [users[e] EXCEPT !.code = code]
      <4>2. new \in UserRow
        BY <1>1 DEF UserRow
      <4>3. users' = [users EXCEPT ![e] = new]
        BY <1>1, <4>1
      <4> QED
        BY <1>1, <4>2, <4>3 DEF UserRow
    <3>2. ASSUME NEW role \in Roles, ChangeRole(e, role)
          PROVE  \E new \in UserRow : /\ users' = [users EXCEPT ![e] = new]
                                      /\ new.exists = users[e].exists /\ new.is_deleted = users[e].is_deleted
                                      /\ new.is_email_verified = users[e].is_email_verified
      <4> DEFINE new == [users[e] EXCEPT !.role = role, !.role_guid = role]
      <4>1. new \in UserRow
        BY <1>1 DEF UserRow
      <4>2. users' = [users EXCEPT ![e] = new]
        BY <1>1, <3>2 DEF ChangeRole
      <4> QED
        BY <1>1, <4>1, <4>2 DEF UserRow
    <3>3. ASSUME NEW isActive \in BOOLEAN, ToggleStatus(e, isActive)
          PROVE  \E new \in UserRow : /\ users' = [users EXCEPT ![e] = new]
                                      /\ new.exists = users[e].exists /\ new.is_deleted = users[e].is_deleted
                                      /\ new.is_email_verified = users[e].is_email_verified
      <4> DEFINE new == [users[e] EXCEPT !.is_active = isActive]
      <4>1. new \in UserRow
        BY <1>1 DEF UserRow
      <4>2. users' = [users EXCEPT ![e] = new]
        BY <1>1, <3>3 DEF ToggleStatus
      <4> QED
        BY <1>1, <4>1, <4>2 DEF UserRow
    <3> QED
      BY <1>6, <3>1, <3>2, <3>3
  <2>3. users' \in [Emails -> UserRow] /\ users'[e] = new /\ Others(e)
    BY <1>1, <2>2, OneRow
  <2> QED
    BY <1>1, <2>1, <2>2, <2>3 DEF AccountsTypeOK, RowChanges, SessionsEnd, Touches
\* Sessions that end.
<1>7. ASSUME NEW e \in Emails, SessionExpires(e) \/ RevokeAll(e)
      PROVE  sessions' \in [Emails -> 0..MaxSessions] /\ unsent' \subseteq Emails /\ SessionsEnd
  BY <1>1, <1>7 DEF SessionExpires, RevokeAll, SessionsEnd
<1>8. ASSUME NEW e \in Emails, SessionExpires(e) \/ AdminResetPassword(e)
      PROVE  AccountsTypeOK' /\ RowChanges
  BY <1>1, <1>7, <1>8 DEF SessionExpires, AdminResetPassword, AccountsTypeOK, RowChanges
<1>9. ASSUME NEW e \in Emails, DeleteUser(e)
      PROVE  AccountsTypeOK' /\ RowChanges
  <2> DEFINE new == [users[e] EXCEPT !.is_active = FALSE, !.is_deleted = TRUE]
  <2>1. users' = [users EXCEPT ![e] = new] /\ org' = org /\ RevokeAll(e) /\ CanDelete(e)
    BY <1>1, <1>9 DEF DeleteUser
  <2>2. new \in UserRow /\ new.exists = users[e].exists /\ new.is_email_verified = users[e].is_email_verified
    BY <1>1 DEF UserRow
  <2> HIDE DEF new
  <2>3. users' \in [Emails -> UserRow] /\ users'[e] = new /\ Others(e)
    BY <1>1, <2>1, <2>2, OneRow
  <2>4. users'[e].exists
    BY <2>1, <2>2, <2>3 DEF CanDelete
  <2> QED
    BY <1>1, <1>7, <2>1, <2>2, <2>3, <2>4 DEF AccountsTypeOK, RowChanges, Deletes
<1>10. ASSUME NEW e \in Emails, Login(e)
       PROVE  AccountsTypeOK'
  BY <1>1, <1>10 DEF Login, AccountsTypeOK
<1>11. CASE SendOrgCode \/ OrgCodeExpires \/ OrgVerifyFails \/ VerifyOrgEmail
  BY <1>2, <1>3, <1>11
<1>12. ASSUME NEW e \in Emails,
              \/ \E role \in Roles : Register(e, role) \/ ChangeRole(e, role)
              \/ ResendCode(e) \/ CodeExpires(e) \/ VerifyEmail(e)
              \/ Login(e) \/ SessionExpires(e)
              \/ \E isActive \in BOOLEAN : ToggleStatus(e, isActive)
              \/ AdminResetPassword(e) \/ DeleteUser(e)
       PROVE  AccountsTypeOK' /\ (RowChanges \/ Login(e))
  BY <1>4, <1>5, <1>6, <1>8, <1>9, <1>10, <1>12
<1> QED
  BY <1>11, <1>12 DEF AccountsNext, SignUpStep, AccountStep, AdministrationStep

LEMMA AccountsInitType == AccountsInit => AccountsTypeOK
BY AccountsAssumption DEF AccountsInit, AccountsTypeOK, OrgRow, UserRow, NoUser, Roles, Codes

\* A session is given to a verified address, which stays verified: only an address that
\* is not registers again.
LEMMA SignedInStep ==
  ASSUME AccountsTypeOK, SignedInIsVerified, AccountsNext
  PROVE  SignedInIsVerified'
<1>1. /\ users \in [Emails -> UserRow] /\ sessions \in [Emails -> 0..MaxSessions]
      /\ users' \in [Emails -> UserRow] /\ MaxSessions \in Nat
  BY AccountsAssumption, AccountsTypeStep DEF AccountsTypeOK
<1>2. SUFFICES ASSUME NEW e \in Emails, sessions'[e] > 0
               PROVE  users'[e].exists /\ users'[e].is_email_verified
  BY DEF SignedInIsVerified
<1>3. ASSUME NEW f \in Emails, Login(f)
      PROVE  users'[e].exists /\ users'[e].is_email_verified
  <2>1. /\ users' = users /\ sessions' = [sessions EXCEPT ![f] = @ + 1]
        /\ users[f].exists /\ users[f].is_email_verified
    BY <1>3 DEF Login, MaySignIn
  <2>2. CASE e = f
    BY <2>1, <2>2
  <2>3. CASE e # f
    BY <1>1, <1>2, <2>1, <2>3 DEF SignedInIsVerified
  <2> QED
    BY <2>2, <2>3
<1>4. ASSUME RowChanges
      PROVE  users'[e].exists /\ users'[e].is_email_verified
  <2>1. users[e].exists /\ users[e].is_email_verified
    BY <1>2, <1>4 DEF RowChanges, SessionsEnd, SignedInIsVerified
  <2>2. CASE users' = users
    BY <2>1, <2>2
  <2>3. ASSUME NEW f \in Emails, Touches(f) \/ Registers(f) \/ Verifies(f) \/ Deletes(f)
        PROVE  users'[e].exists /\ users'[e].is_email_verified
    <3>1. CASE e = f
      BY <2>1, <2>3, <3>1 DEF Touches, Registers, Verifies, Deletes
    <3>2. CASE e # f
      BY <2>1, <2>3, <3>2 DEF Touches, Registers, Verifies, Deletes, Others
    <3> QED
      BY <3>1, <3>2
  <2> QED
    BY <1>4, <2>2, <2>3 DEF RowChanges
<1> QED
  BY <1>3, <1>4, AccountsTypeStep

\* Who was counted when an administrator was deleted is still there afterwards.
LEMMA DeletionStep ==
  ASSUME AccountsTypeOK, AccountsNext, NEW e \in Emails,
         users[e].role = "OrganizationAdmin", ~users[e].is_deleted, users'[e].is_deleted
  PROVE  ActiveAdmins' # {}
<1>1. Deletes(e)
  <2>1. users' # users
    OBVIOUS
  <2>2. RowChanges
    <3>1. \A f \in Emails : Login(f) => users' = users
      BY DEF Login
    <3> QED
      BY <2>1, <3>1, AccountsTypeStep
  <2>3. PICK f \in Emails : Touches(f) \/ Registers(f) \/ Verifies(f) \/ Deletes(f)
    BY <2>1, <2>2 DEF RowChanges
  <2>4. f = e
    BY <2>3 DEF Touches, Registers, Verifies, Deletes, Others
  <2> QED
    BY <2>3, <2>4 DEF Touches, Registers, Verifies
<1>2. PICK a \in ActiveAdmins : a # e
  BY <1>1 DEF Deletes, CanDelete
<1>3. a \in Emails /\ users'[a] = users[a]
  BY <1>1, <1>2 DEF Deletes, Others, ActiveAdmins
<1>4. a \in ActiveAdmins'
  BY <1>2, <1>3 DEF ActiveAdmins
<1> QED
  BY <1>4

-----------------------------------------------------------------------------
(* The theorems.                                                           *)

LEMMA AccountsInductive ==
  AccountsSpec => [](AccountsTypeOK /\ SignedInIsVerified)
<1>1. AccountsInit => AccountsTypeOK /\ SignedInIsVerified
  BY AccountsInitType DEF AccountsInit, SignedInIsVerified
<1>2. AccountsTypeOK /\ SignedInIsVerified /\ [AccountsNext]_accountVars
        => (AccountsTypeOK /\ SignedInIsVerified)'
  <2>1. ASSUME AccountsTypeOK, SignedInIsVerified, AccountsNext
        PROVE  (AccountsTypeOK /\ SignedInIsVerified)'
    BY <2>1, AccountsTypeStep, SignedInStep
  <2>2. ASSUME AccountsTypeOK, SignedInIsVerified, UNCHANGED accountVars
        PROVE  (AccountsTypeOK /\ SignedInIsVerified)'
    BY <2>2 DEF accountVars, AccountsTypeOK, SignedInIsVerified
  <2> QED
    BY <2>1, <2>2
<1> QED
  BY <1>1, <1>2, PTL DEF AccountsSpec

\* The accounts and the organization keep their types, and its attempts their limit.
THEOREM AccountsTypeCorrect == AccountsSpec => []AccountsTypeOK
BY AccountsInductive, PTL

\* Whoever holds a session has a verified address.
THEOREM SignedInStaysVerified == AccountsSpec => []SignedInIsVerified
BY AccountsInductive, PTL

\* No deletion of an administrator leaves the organization without an active one.
THEOREM DeletionAlwaysLeavesAdmin == AccountsSpec => DeletionLeavesAdmin
<1>1. AccountsTypeOK /\ [AccountsNext]_accountVars =>
        [\A e \in Emails :
           users[e].role = "OrganizationAdmin" /\ ~users[e].is_deleted /\ users'[e].is_deleted
             => ActiveAdmins' # {}]_accountVars
  BY DeletionStep
<1> QED
  BY <1>1, AccountsInductive, PTL DEF AccountsSpec, DeletionLeavesAdmin

-----------------------------------------------------------------------------
(* Assignments. What a call that is still fresh has decided fits the list  *)
(* it will write to; a write makes every other call stale.                 *)

FreshFits ==
  \A k \in Assigners : asks[k].fresh /\ asks[k].op \in {"create", "update"} =>
    /\ asks[k].added \cap Mapped = {} /\ asks[k].rows \subseteq Mapped
    /\ asks[k].op = "create" => asks[k].rows = {}

AssignmentsIInv == AssignmentsTypeOK /\ FreshFits

LEMMA MappingRowEdited ==
  ASSUME NEW r \in MappingRow, NEW s \in {"absent", "ACTIVE", "INACTIVE"}, NEW d \in BOOLEAN
  PROVE  /\ [r EXCEPT !.state = s, !.isDeleted = d] \in MappingRow
         /\ [r EXCEPT !.state = s, !.isDeleted = d].state = s
         /\ [r EXCEPT !.state = s, !.isDeleted = d].isDeleted = d
BY DEF MappingRow

\* What a write leaves of each row.
LEMMA RewrittenRow ==
  ASSUME AssignmentsTypeOK, NEW ask \in Ask, NEW u \in Staff
  PROVE  /\ Rewritten(ask) \in [Staff -> MappingRow]
         /\ Rewritten(ask)[u].state =
              IF u \in TurnedOn(ask) THEN "ACTIVE" ELSE IF u \in TurnedOff(ask) THEN "INACTIVE" ELSE mapping[u].state
         /\ Rewritten(ask)[u].isDeleted = (u \in Gone(ask) \/ (mapping[u].isDeleted /\ u \notin ask.added))
<1>1. mapping \in [Staff -> MappingRow]
  BY DEF AssignmentsTypeOK
<1> DEFINE State(v) == IF v \in TurnedOn(ask) THEN "ACTIVE"
                       ELSE IF v \in TurnedOff(ask) THEN "INACTIVE" ELSE mapping[v].state
           Deleted(v) == v \in Gone(ask) \/ (mapping[v].isDeleted /\ v \notin ask.added)
<1>2. Rewritten(ask) = [v \in Staff |-> [mapping[v] EXCEPT !.state = State(v), !.isDeleted = Deleted(v)]]
  BY Zenon DEF Rewritten
<1>3. \A v \in Staff : State(v) \in {"absent", "ACTIVE", "INACTIVE"} /\ Deleted(v) \in BOOLEAN
  BY <1>1 DEF MappingRow
<1>4. State(u) = (IF u \in TurnedOn(ask) THEN "ACTIVE" ELSE IF u \in TurnedOff(ask) THEN "INACTIVE" ELSE mapping[u].state)
      /\ Deleted(u) = (u \in Gone(ask) \/ (mapping[u].isDeleted /\ u \notin ask.added))
  OBVIOUS
<1> HIDE DEF State, Deleted
<1> DEFINE Edited(v) == [mapping[v] EXCEPT !.state = State(v), !.isDeleted = Deleted(v)]
<1>5. ASSUME NEW v \in Staff
      PROVE  Edited(v) \in MappingRow /\ Edited(v).state = State(v) /\ Edited(v).isDeleted = Deleted(v)
  <2>1. mapping[v] \in MappingRow /\ State(v) \in {"absent", "ACTIVE", "INACTIVE"} /\ Deleted(v) \in BOOLEAN
    BY <1>1, <1>3
  <2> HIDE DEF State, Deleted
  <2>2. \A s \in {"absent", "ACTIVE", "INACTIVE"}, d \in BOOLEAN :
          /\ [mapping[v] EXCEPT !.state = s, !.isDeleted = d] \in MappingRow
          /\ [mapping[v] EXCEPT !.state = s, !.isDeleted = d].state = s
          /\ [mapping[v] EXCEPT !.state = s, !.isDeleted = d].isDeleted = d
    BY <2>1, MappingRowEdited
  <2>3. /\ [mapping[v] EXCEPT !.state = State(v), !.isDeleted = Deleted(v)] \in MappingRow
        /\ [mapping[v] EXCEPT !.state = State(v), !.isDeleted = Deleted(v)].state = State(v)
        /\ [mapping[v] EXCEPT !.state = State(v), !.isDeleted = Deleted(v)].isDeleted = Deleted(v)
    BY ONLY <2>1, <2>2, Zenon
  <2> QED
    BY <2>3
<1>6. Rewritten(ask) = [v \in Staff |-> Edited(v)]
  BY <1>2
<1> HIDE DEF Edited
<1>7. /\ Rewritten(ask) \in [Staff -> MappingRow]
      /\ Rewritten(ask)[u].state = State(u) /\ Rewritten(ask)[u].isDeleted = Deleted(u)
  BY <1>5, <1>6
<1> QED
  BY <1>4, <1>7

LEMMA TrackedRow ==
  ASSUME NEW rows \in [Staff -> MappingRow], NEW id \in Trackings, NEW u \in Staff
  PROVE  /\ Tracked(rows, id) \in [Staff -> MappingRow]
         /\ Tracked(rows, id)[u].state = rows[u].state /\ Tracked(rows, id)[u].isDeleted = rows[u].isDeleted
BY DEF Tracked, MappingRow

\* A transaction writes what its call has decided, and nothing else.
LEMMA WriteRows ==
  ASSUME AssignmentsTypeOK, NEW k \in Assigners, Write(k), NEW u \in Staff
  PROVE  /\ mapping' \in [Staff -> MappingRow]
         /\ mapping'[u].state =
              IF u \in TurnedOn(asks[k]) THEN "ACTIVE"
              ELSE IF u \in TurnedOff(asks[k]) THEN "INACTIVE" ELSE mapping[u].state
         /\ mapping'[u].isDeleted =
              (u \in Gone(asks[k]) \/ (mapping[u].isDeleted /\ u \notin asks[k].added))
<1>1. asks[k] \in Ask /\ mapping \in [Staff -> MappingRow]
  BY DEF AssignmentsTypeOK
<1> DEFINE rows == Rewritten(asks[k])
<1>2. rows \in [Staff -> MappingRow]
  BY <1>1, RewrittenRow
<1>3. PICK id \in SharedIds(rows) : mapping' = Tracked(rows, id)
  BY DEF Write
<1>4. id \in Trackings
  <2>1. \A v \in Staff : rows[v].trackingId \in Trackings \cup {NoTracking}
    BY <1>2 DEF MappingRow
  <2> HIDE DEF rows
  <2> QED
    BY <1>3, <2>1 DEF SharedIds, Generated
<1> HIDE DEF rows
<1>5. /\ mapping' \in [Staff -> MappingRow]
      /\ mapping'[u].state = rows[u].state /\ mapping'[u].isDeleted = rows[u].isDeleted
  BY <1>2, <1>3, <1>4, TrackedRow
<1> QED
  BY <1>1, <1>5, RewrittenRow DEF rows

\* Reading fixes what to do; nobody else's call changes.
LEMMA DecideAsks ==
  ASSUME AssignmentsIInv, NEW k \in Assigners, NEW op \in {"create", "update", "switchOn", "switchOff", "remove"},
         NEW added \in SUBSET Staff, NEW rows \in SUBSET Staff, Decide(k, op, added, rows),
         op \in {"create", "update"} => added \cap Mapped = {} /\ rows \subseteq Mapped,
         op = "create" => rows = {}
  PROVE  AssignmentsIInv'
<1> DEFINE new == [op |-> op, added |-> added, rows |-> rows, fresh |-> TRUE]
<1>1. new \in Ask
  BY DEF Ask
<1>2. /\ asks' = [asks EXCEPT ![k] = new] /\ UNCHANGED <<projectOpen, mapping>>
      /\ new.op = op /\ new.added = added /\ new.rows = rows
  BY DEF Decide
<1> HIDE DEF new
<1> QED
  BY <1>1, <1>2 DEF AssignmentsIInv, AssignmentsTypeOK, FreshFits, Mapped

LEMMA AssignmentsInductive == AssignmentsIInv /\ [AssignmentsNext]_assignmentVars => AssignmentsIInv'
<1> SUFFICES ASSUME AssignmentsIInv, [AssignmentsNext]_assignmentVars
             PROVE  AssignmentsIInv'
  OBVIOUS
<1>1. /\ AssignmentsTypeOK /\ projectOpen \in BOOLEAN /\ mapping \in [Staff -> MappingRow]
      /\ asks \in [Assigners -> Ask] /\ FreshFits /\ Mapped \subseteq Staff
  BY DEF AssignmentsIInv, AssignmentsTypeOK, Mapped
<1>2. CASE OpenOrClose \/ UNCHANGED assignmentVars
  BY <1>1, <1>2 DEF OpenOrClose, assignmentVars, AssignmentsIInv, AssignmentsTypeOK, FreshFits, Mapped
<1>3. ASSUME NEW k \in Assigners, NEW wanted \in SUBSET Staff, ReadCreate(k, wanted) \/ ReadUpdate(k, wanted)
      PROVE  AssignmentsIInv'
  BY <1>1, <1>3, DecideAsks DEF ReadCreate, ReadUpdate
<1>4. ASSUME NEW k \in Assigners,
             ReadSwitch(k, "switchOn", "ACTIVE") \/ ReadSwitch(k, "switchOff", "INACTIVE") \/ ReadRemove(k)
      PROVE  AssignmentsIInv'
  <2>1. PICK op \in {"switchOn", "switchOff", "remove"}, rows \in SUBSET Staff : Decide(k, op, {}, rows)
    BY <1>1, <1>4 DEF ReadSwitch, ReadRemove
  <2> QED
    BY <2>1, DecideAsks
<1>5. Idle \in Ask /\ Idle.op = "idle"
  BY DEF Idle, Ask
<1>6. ASSUME NEW k \in Assigners, Write(k)
      PROVE  AssignmentsIInv'
  <2>1. mapping' \in [Staff -> MappingRow]
    <3>1. CASE Staff = {}
      <4>1. PICK id : mapping' = Tracked(Rewritten(asks[k]), id)
        BY <1>6 DEF Write
      <4> QED
        BY <3>1, <4>1 DEF Tracked
    <3>2. CASE Staff # {}
      BY <1>1, <1>6, <3>2, WriteRows
    <3> QED
      BY <3>1, <3>2
  <2>2. \A j \in Assigners : asks'[j] = Idle \/ asks'[j] = [asks[j] EXCEPT !.fresh = FALSE]
    BY <1>6 DEF Write
  <2>3. ASSUME NEW j \in Assigners
        PROVE  [asks[j] EXCEPT !.fresh = FALSE] \in Ask /\ ~[asks[j] EXCEPT !.fresh = FALSE].fresh
    BY <1>1 DEF Ask
  <2>4. asks' \in [Assigners -> Ask]
    BY <1>5, <1>6, <2>2, <2>3 DEF Write
  <2>5. FreshFits'
    BY <1>5, <2>2, <2>3 DEF FreshFits
  <2> QED
    BY <1>1, <1>6, <2>1, <2>4, <2>5 DEF Write, AssignmentsIInv, AssignmentsTypeOK
<1>7. ASSUME NEW k \in Assigners, GiveUp(k)
      PROVE  AssignmentsIInv'
  BY <1>1, <1>5, <1>7 DEF GiveUp, AssignmentsIInv, AssignmentsTypeOK, FreshFits, Mapped
<1> QED
  BY <1>2, <1>3, <1>4, <1>6, <1>7 DEF AssignmentsNext

\* OneTracking, row by row.
SharesOne ==
  /\ \A u, v \in Staff : \/ mapping[u].trackingId = mapping[v].trackingId
                         \/ NoTracking \in {mapping[u].trackingId, mapping[v].trackingId}
  /\ \A u \in Staff : mapping[u].state # "absent" => mapping[u].trackingId # NoTracking

LEMMA SharesOneTracking == SharesOne => OneTracking
<1> SUFFICES ASSUME SharesOne PROVE OneTracking
  OBVIOUS
<1> DEFINE Ids == {mapping[u].trackingId : u \in Staff} \ {NoTracking}
<1>1. CASE Ids = {}
  BY <1>1, FS_EmptySet DEF OneTracking, SharesOne
<1>2. CASE Ids # {}
  <2>1. PICK id \in Ids : Ids = {id}
    BY <1>2 DEF SharesOne
  <2>2. Cardinality(Ids) = 1
    BY <2>1, FS_Singleton
  <2> QED
    BY <2>2 DEF OneTracking, SharesOne
<1> QED
  BY <1>1, <1>2

\* A transaction takes over the id the rows have, those of removed users included, or
\* generates one for all of them.
LEMMA WriteShares ==
  ASSUME AssignmentsTypeOK, SharesOne, NEW k \in Assigners, Write(k)
  PROVE  SharesOne'
<1> DEFINE rows == Rewritten(asks[k])
<1>1. asks[k] \in Ask /\ mapping \in [Staff -> MappingRow]
  BY DEF AssignmentsTypeOK
<1>2. \A u \in Staff : rows[u] \in MappingRow
  BY <1>1, RewrittenRow
<1>3. \A u \in Staff : rows[u].trackingId = mapping[u].trackingId
  <2> DEFINE State(v) == IF v \in TurnedOn(asks[k]) THEN "ACTIVE"
                         ELSE IF v \in TurnedOff(asks[k]) THEN "INACTIVE" ELSE mapping[v].state
             Deleted(v) == v \in Gone(asks[k]) \/ (mapping[v].isDeleted /\ v \notin asks[k].added)
  <2>1. rows = [v \in Staff |-> [mapping[v] EXCEPT !.state = State(v), !.isDeleted = Deleted(v)]]
    BY Zenon DEF Rewritten
  <2> HIDE DEF State, Deleted, rows
  <2> QED
    BY <1>1, <2>1 DEF MappingRow
<1>4. PICK id \in SharedIds(rows) : mapping' = Tracked(rows, id)
  BY DEF Write
<1> HIDE DEF rows
<1>5. \A u \in Staff : /\ mapping'[u].state = rows[u].state
                       /\ mapping'[u].trackingId = IF rows[u].state # "absent" /\ rows[u].trackingId = NoTracking
                                                   THEN id ELSE rows[u].trackingId
  BY <1>2, <1>4 DEF Tracked, MappingRow
<1>6. \A u \in Staff : id # NoTracking /\ (rows[u].trackingId \in {id, NoTracking})
  <2>1. CASE {rows[u].trackingId : u \in Staff} \ {NoTracking} = {}
    <3>1. id \in Trackings /\ \A u \in Staff : id # mapping[u].trackingId
      BY <1>4, <2>1 DEF SharedIds, Generated
    <3>2. \A u \in Staff : rows[u].trackingId = NoTracking
      BY <2>1
    <3> QED
      BY <1>3, <3>1, <3>2
  <2>2. CASE {rows[u].trackingId : u \in Staff} \ {NoTracking} # {}
    <3>1. PICK v \in Staff : id = rows[v].trackingId /\ id # NoTracking
      BY <1>4, <2>2 DEF SharedIds
    <3> QED
      BY <1>3, <3>1 DEF SharesOne
  <2> QED
    BY <2>1, <2>2
<1> QED
  BY <1>5, <1>6 DEF SharesOne

LEMMA TrackingInductive == AssignmentsIInv /\ SharesOne /\ [AssignmentsNext]_assignmentVars => SharesOne'
<1> SUFFICES ASSUME AssignmentsIInv, SharesOne, [AssignmentsNext]_assignmentVars
             PROVE  SharesOne'
  OBVIOUS
<1>1. CASE \E k \in Assigners : Write(k)
  BY <1>1, WriteShares DEF AssignmentsIInv
<1>2. CASE mapping' = mapping
  BY <1>2 DEF SharesOne
<1> QED
  BY <1>1, <1>2 DEF AssignmentsNext, OpenOrClose, ReadCreate, ReadUpdate, ReadSwitch, ReadRemove, Decide, GiveUp,
                    assignmentVars

LEMMA AssignmentsStart == AssignmentsInit => AssignmentsIInv /\ SharesOne
BY DEF AssignmentsInit, AssignmentsIInv, AssignmentsTypeOK, FreshFits, SharesOne, Idle, Ask, MappingRow

\* Whichever calls assigned and removed on an older list, the rows of a project are under
\* one tracking id (track of UserProjectMappingService).
THEOREM TrackingStaysOne == AssignmentsSpec => []OneTracking
BY AssignmentsStart, AssignmentsInductive, TrackingInductive, SharesOneTracking, PTL DEF AssignmentsSpec

\* The calls under way and the rows they write keep their types.
THEOREM AssignmentsTypeCorrect == AssignmentsSpec => []AssignmentsTypeOK
<1>1. AssignmentsIInv => AssignmentsTypeOK
  BY DEF AssignmentsIInv
<1>2. AssignmentsInit => AssignmentsIInv
  BY AssignmentsStart
<1> QED
  BY <1>1, <1>2, AssignmentsInductive, PTL DEF AssignmentsSpec

LEMMA OffStaysOffStep ==
  ASSUME AssignmentsIInv, AssignmentsNext
  PROVE  /\ \A u \in Staff : mapping[u].isDeleted /\ ~mapping'[u].isDeleted
             => \E k \in Assigners : u \in asks[k].added /\ asks'[k] = Idle
         /\ \A k \in Assigners :
             asks[k].fresh /\ asks[k].op \in {"create", "update"} /\ mapping' # mapping /\ asks'[k] = Idle
             => /\ Mapped' = (Mapped \cup asks[k].added) \ asks[k].rows
                /\ \A u \in Mapped \cap Mapped' : mapping'[u].state = mapping[u].state
<1>1. AssignmentsTypeOK /\ FreshFits /\ asks \in [Assigners -> Ask]
  BY DEF AssignmentsIInv, AssignmentsTypeOK
<1>2. CASE mapping' = mapping
  BY <1>2
<1>3. CASE mapping' # mapping
  <2>1. PICK k \in Assigners : Write(k)
    BY <1>3 DEF AssignmentsNext, OpenOrClose, ReadCreate, ReadUpdate, ReadSwitch, ReadRemove, Decide, GiveUp
  <2>2. asks'[k] = Idle
    BY <2>1 DEF Write
  <2>3. ASSUME NEW u \in Staff, mapping[u].isDeleted, ~mapping'[u].isDeleted
        PROVE  u \in asks[k].added
    BY <1>1, <2>1, <2>3, WriteRows
  <2>4. ASSUME NEW j \in Assigners, asks[j].op \in {"create", "update"}, asks'[j] = Idle
        PROVE  j = k
    <3>1. CASE j # k
      <4>1. asks[j] \in Ask /\ asks[j] # Idle
        BY <1>1, <2>4 DEF Idle
      <4>2. asks'[j] = [asks[j] EXCEPT !.fresh = FALSE]
        BY <2>1, <3>1, <4>1 DEF Write
      <4>3. asks'[j].op = asks[j].op
        BY <4>1, <4>2 DEF Ask
      <4> QED
        BY <2>4, <4>3 DEF Idle
    <3> QED
      BY <3>1
  <2>5. ASSUME asks[k].fresh, asks[k].op \in {"create", "update"}
        PROVE  /\ Mapped' = (Mapped \cup asks[k].added) \ asks[k].rows
               /\ \A u \in Mapped \cap Mapped' : mapping'[u].state = mapping[u].state
    <3>1. /\ asks[k].added \cap Mapped = {} /\ asks[k].rows \subseteq Mapped
          /\ asks[k].added \subseteq Staff /\ asks[k].rows \subseteq Staff
      BY <1>1, <2>5 DEF FreshFits, Ask
    <3>2. TurnedOn(asks[k]) = asks[k].added /\ TurnedOff(asks[k]) = {}
      BY <2>5 DEF TurnedOn, TurnedOff
    <3>3. Gone(asks[k]) = asks[k].rows
      BY <1>1, <2>5 DEF Gone, FreshFits
    <3>4. ASSUME NEW u \in Staff
          PROVE  /\ mapping'[u].state = IF u \in asks[k].added THEN "ACTIVE" ELSE mapping[u].state
                 /\ mapping'[u].isDeleted =
                      (u \in asks[k].rows \/ (mapping[u].isDeleted /\ u \notin asks[k].added))
      BY <1>1, <2>1, <3>2, <3>3, WriteRows
    <3>5. ASSUME NEW u \in Staff
          PROVE  u \in Mapped' <=> u \in (Mapped \cup asks[k].added) \ asks[k].rows
      <4>1. /\ u \in Mapped <=> mapping[u].state # "absent" /\ ~mapping[u].isDeleted
            /\ u \in Mapped' <=> mapping'[u].state # "absent" /\ ~mapping'[u].isDeleted
        BY DEF Mapped
      <4> QED
        BY <3>1, <3>4, <4>1
    <3>6. Mapped \subseteq Staff /\ Mapped' \subseteq Staff
      BY DEF Mapped
    <3>7. Mapped' = (Mapped \cup asks[k].added) \ asks[k].rows
      BY <3>1, <3>5, <3>6
    <3>8. ASSUME NEW u \in Mapped \cap Mapped'
          PROVE  mapping'[u].state = mapping[u].state
      BY <3>1, <3>4, <3>6
    <3> QED
      BY <3>7, <3>8
  <2> QED
    BY <2>1, <2>2, <2>3, <2>4, <2>5
<1> QED
  BY <1>2, <1>3

\* Whoever was taken off a project comes back only by a call that adds them, and a call
\* that writes on the list it has read leaves exactly what it was asked for.
THEOREM OffAlwaysStaysOff == AssignmentsSpec => OffStaysOff
<1>1. AssignmentsInit => AssignmentsIInv
  BY DEF AssignmentsInit, AssignmentsIInv, AssignmentsTypeOK, FreshFits, Idle, Ask, MappingRow
<1>2. AssignmentsIInv /\ [AssignmentsNext]_assignmentVars =>
        [/\ \A u \in Staff : mapping[u].isDeleted /\ ~mapping'[u].isDeleted
               => \E k \in Assigners : u \in asks[k].added /\ asks'[k] = Idle
         /\ \A k \in Assigners :
               asks[k].fresh /\ asks[k].op \in {"create", "update"} /\ mapping' # mapping /\ asks'[k] = Idle
               => /\ Mapped' = (Mapped \cup asks[k].added) \ asks[k].rows
                  /\ \A u \in Mapped \cap Mapped' : mapping'[u].state = mapping[u].state]_assignmentVars
  BY OffStaysOffStep
<1> QED
  BY <1>1, <1>2, AssignmentsInductive, PTL DEF AssignmentsSpec, OffStaysOff

-----------------------------------------------------------------------------
(* ClientCard. A list that is written is all there is afterwards, so the   *)
(* rule for lists becomes one for the table.                               *)

CardIInv == CardTypeOK /\ OneOfEach

LEMMA CardStart == CardInit => CardIInv
<1> SUFFICES ASSUME CardInit PROVE CardIInv
  OBVIOUS
<1>1. CardTypeOK
  BY DEF CardInit, CardTypeOK, AddressRow, ContactRow, NoContact
<1>2. {a \in AddressIds : addresses[a] = "REGISTERED"} = {}
  BY DEF CardInit
<1>3. {k \in LiveContacts : contacts[k].isPrimary /\ contacts[k].isActive} = {}
  BY DEF CardInit, LiveContacts, NoContact
<1>4. OneOfEach
  BY <1>2, <1>3, FS_EmptySet DEF OneOfEach
<1> QED
  BY <1>1, <1>4 DEF CardIInv

LEMMA CardInductive == CardIInv /\ [CardNext]_cardVars => CardIInv'
<1> SUFFICES ASSUME CardIInv, [CardNext]_cardVars
             PROVE  CardIInv'
  OBVIOUS
<1>1. CardTypeOK /\ OneOfEach
  BY DEF CardIInv
<1>2. CASE UNCHANGED cardVars
  BY <1>1, <1>2 DEF cardVars, CardIInv, CardTypeOK, OneOfEach, LiveContacts
<1>3. ASSUME NEW sameAs \in BOOLEAN, SaveClient(sameAs)
      PROVE  CardIInv'
  <2>1. ASSUME NEW list \in AddressLists, AddressRules(list, sameAs), SyncAddresses(list)
        PROVE  /\ addresses' \in [AddressIds -> AddressRow]
               /\ Cardinality({a \in AddressIds : addresses'[a] = "REGISTERED"}) <= 1
    <3>1. DOMAIN list \subseteq AddressIds /\ \A a \in DOMAIN list : list[a] \in AddressTypes
      BY DEF AddressLists
    <3>2. addresses' \in [AddressIds -> AddressRow]
      BY <1>1, <2>1, <3>1 DEF SyncAddresses, CardTypeOK, AddressRow
    <3>3. {a \in AddressIds : addresses'[a] = "REGISTERED"} = {a \in DOMAIN list : list[a] = "REGISTERED"}
      BY <2>1, <3>1 DEF SyncAddresses, LiveAddresses, AddressTypes
    <3> QED
      BY <2>1, <3>2, <3>3 DEF AddressRules
  <2>2. ASSUME NEW list \in ContactLists, ContactRules(list), SyncContacts(list)
        PROVE  /\ contacts' \in [ContactIds -> ContactRow]
               /\ Cardinality({k \in LiveContacts' : contacts'[k].isPrimary /\ contacts'[k].isActive}) <= 1
    <3>1. DOMAIN list \subseteq ContactIds /\ \A k \in DOMAIN list : list[k] \in ContactFlags
      BY DEF ContactLists
    <3>2. ASSUME NEW k \in ContactIds
          PROVE  /\ contacts'[k] \in ContactRow
                 /\ k \in DOMAIN list => /\ contacts'[k].state = "live"
                                         /\ contacts'[k].isPrimary = list[k].isPrimary
                                         /\ contacts'[k].isActive = list[k].isActive
                 /\ k \notin DOMAIN list => contacts'[k].state # "live"
      <4>1. contacts'[k] = IF k \in DOMAIN list
                           THEN [state |-> "live", isPrimary |-> list[k].isPrimary, isActive |-> list[k].isActive]
                           ELSE IF k \in LiveContacts THEN [NoContact EXCEPT !.state = "deleted"] ELSE contacts[k]
        BY <2>2 DEF SyncContacts
      <4>2. contacts[k] \in ContactRow
        BY <1>1 DEF CardTypeOK
      <4>3. CASE k \in DOMAIN list
        <5>1. list[k].isPrimary \in BOOLEAN /\ list[k].isActive \in BOOLEAN
          BY <3>1, <4>3 DEF ContactFlags
        <5> QED
          BY <4>1, <4>3, <5>1 DEF ContactRow
      <4>4. CASE k \notin DOMAIN list
        BY <4>1, <4>2, <4>4 DEF ContactRow, NoContact, LiveContacts
      <4> QED
        BY <4>3, <4>4
    <3>3. contacts' \in [ContactIds -> ContactRow]
      BY <2>2, <3>2 DEF SyncContacts
    <3>4. {k \in LiveContacts' : contacts'[k].isPrimary /\ contacts'[k].isActive}
            = {k \in DOMAIN list : list[k].isPrimary /\ list[k].isActive}
      BY <3>1, <3>2 DEF LiveContacts
    <3> QED
      BY <2>2, <3>3, <3>4 DEF ContactRules
  <2>3. /\ addresses' \in [AddressIds -> AddressRow]
        /\ Cardinality({a \in AddressIds : addresses'[a] = "REGISTERED"}) <= 1
    BY <1>1, <1>3, <2>1 DEF SaveClient, CardTypeOK, OneOfEach
  <2>4. /\ contacts' \in [ContactIds -> ContactRow]
        /\ Cardinality({k \in LiveContacts' : contacts'[k].isPrimary /\ contacts'[k].isActive}) <= 1
    <3>1. CASE UNCHANGED contacts
      BY <1>1, <3>1 DEF CardTypeOK, OneOfEach, LiveContacts
    <3> QED
      BY <1>3, <2>2, <3>1 DEF SaveClient
  <2> QED
    BY <1>3, <2>3, <2>4 DEF SaveClient, CardIInv, CardTypeOK, OneOfEach
<1> QED
  BY <1>2, <1>3 DEF CardNext

\* The lists of a client keep their types.
THEOREM CardTypeCorrect == CardSpec => []CardTypeOK
<1>1. CardIInv => CardTypeOK
  BY DEF CardIInv
<1> QED
  BY <1>1, CardStart, CardInductive, PTL DEF CardSpec

\* However often a client's lists were replaced, it has one registered office and one
\* active primary contact at most (assertChildRules, syncAddresses, syncContacts).
THEOREM OneStaysOneOfEach == CardSpec => []OneOfEach
<1>1. CardIInv => OneOfEach
  BY DEF CardIInv
<1> QED
  BY <1>1, CardStart, CardInductive, PTL DEF CardSpec

=============================================================================
