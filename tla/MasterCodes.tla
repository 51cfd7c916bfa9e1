----------------------------- MODULE MasterCodes -----------------------------
(***************************************************************************)
(* The codes of master data: master-code.service.ts, and its twins for     *)
(* materials and vendors, draw the next number of a sequence from a        *)
(* counter row of the caller's transaction, taken with SELECT ... FOR      *)
(* UPDATE and created by whoever comes first.                              *)
(*                                                                         *)
(* A call is one transaction: a create, a bulk create, an import, or the   *)
(* seeding of an organization's client types. It draws the numbers of its  *)
(* plan one after the other and commits the rows that bear them, or fails  *)
(* anywhere (a statement, a lost connection, a deadlock) and rolls back.   *)
(* Every statement that can wait for another transaction is a step.        *)
(*                                                                         *)
(* The database is external and modelled from the statements: a row is     *)
(* locked until its transaction ends; searching for an absent row may lock *)
(* the place where it would be (it does under MySQL's default isolation    *)
(* level, not under READ COMMITTED: both are modelled); an insert that     *)
(* finds its row committed fails with ER_DUP_ENTRY and keeps a shared lock *)
(* on it; of the calls that wait for one another in a circle one is        *)
(* refused.                                                                *)
(*                                                                         *)
(* A sequence is one organization's master, or prefix of material or       *)
(* vendor codes; padding the number with zeros, which never truncates, is  *)
(* left out. Bounds: Calls, each of which runs once, and Batches.          *)
(***************************************************************************)
EXTENDS Integers, Sequences

CONSTANTS
  Calls,         \* the calls
  NoCall,        \* nobody
  Sequences,     \* the sequences numbers are drawn from
  ClientTypes,   \* the sequence of the organization's client types
  Batches,       \* the sequences an import or a bulk create draws from, in order
  Defaults       \* the number of default client types

ASSUME MasterCodesAssumption ==
  /\ NoCall \notin Calls
  /\ ClientTypes \in Sequences
  /\ Batches \subseteq Seq(Sequences) \ {<<>>}
  /\ Defaults \in Nat \ {0}

Absent == -1   \* there is no counter row

VARIABLES
  counter,  \* lastSequence of each counter row as its transaction left it, or Absent
  stored,   \* the same, as last committed
  owner,    \* the call that has locked the row, or NoCall
  shared,   \* the calls with a shared lock on the row
  gap,      \* the calls that have locked the place of an absent row
  pc,       \* what each call does next
  plan,     \* the sequences it draws from
  at,       \* its next draw, an index of plan
  read,     \* lastSequence in the entity it has read
  seeds,    \* whether it is a seeding
  drawn,    \* the rows it inserts, not yet committed
  masters,  \* the committed rows
  dropped   \* history: the numbers seedings committed without a row

locks == <<owner, shared, gap>>
call  == <<plan, seeds>>
vars  == <<counter, stored, locks, pc, call, at, read, drawn, masters, dropped>>

Started == {"find", "insert", "relock", "increment", "work"}

\* A row: its sequence and number, the call and draw it comes from, and
\* whether createdBy is "system", which marks the default client types.
Row == [sequence : Sequences, number : Nat, by : Calls, draw : Nat, system : BOOLEAN]

TypeOK ==
  /\ counter \in [Sequences -> Nat \cup {Absent}]
  /\ stored \in [Sequences -> Nat \cup {Absent}]
  /\ owner \in [Sequences -> Calls \cup {NoCall}]
  /\ shared \in [Sequences -> SUBSET Calls]
  /\ gap \in [Sequences -> SUBSET Calls]
  /\ pc \in [Calls -> {"idle", "ended"} \cup Started]
  /\ plan \in [Calls -> Seq(Sequences)]
  /\ at \in [Calls -> Nat \ {0}]
  /\ read \in [Calls -> Nat]
  /\ seeds \in [Calls -> BOOLEAN]
  /\ drawn \in [Calls -> SUBSET Row]
  /\ masters \in SUBSET Row
  /\ dropped \in SUBSET Nat

Init ==
  /\ counter = [s \in Sequences |-> Absent]
  /\ stored = counter
  /\ owner = [s \in Sequences |-> NoCall]
  /\ shared = [s \in Sequences |-> {}]
  /\ gap = shared
  /\ pc = [c \in Calls |-> "idle"]
  /\ plan = [c \in Calls |-> <<>>]
  /\ at = [c \in Calls |-> 1]
  /\ read = [c \in Calls |-> 0]
  /\ seeds = [c \in Calls |-> FALSE]
  /\ drawn = [c \in Calls |-> {}]
  /\ masters = {}
  /\ dropped = {}

-----------------------------------------------------------------------------
(* The calls.                                                              *)

Begin(c, p, seeding) ==
  /\ pc[c] = "idle"
  /\ pc' = [pc EXCEPT ![c] = "find"]
  /\ plan' = [plan EXCEPT ![c] = p]
  /\ seeds' = [seeds EXCEPT ![c] = seeding]
  /\ UNCHANGED <<counter, stored, locks, at, read, drawn, masters, dropped>>

Create(c) == \E s \in Sequences : Begin(c, <<s>>, FALSE)

Batch(c) == \E p \in Batches : Begin(c, p, FALSE)

\* The client types that are committed, deleted ones too.
Types == {r \in masters : r.sequence = ClientTypes}

\* Seeding counts the client types before its transaction.
EnsureDefaults(c) ==
  /\ Types = {}
  /\ Begin(c, [i \in 1..Defaults |-> ClientTypes], TRUE)

-----------------------------------------------------------------------------
(* Drawing a number.                                                       *)

Wanted(c) == plan[c][at[c]]

\* The calls that keep c from locking the row of s.
RowHolders(c, s) == ({owner[s]} \cup shared[s]) \ {c, NoCall}

\* Mutant: the counter is read without FOR UPDATE.
Locked_Plainly(c, s) ==
  /\ owner' = [owner EXCEPT ![s] = c]
  /\ read' = [read EXCEPT ![c] = counter[s]]
  /\ pc' = [pc EXCEPT ![c] = "increment"]

Locked(c, s) ==
  /\ RowHolders(c, s) = {}
  /\ owner' = [owner EXCEPT ![s] = c]
  /\ read' = [read EXCEPT ![c] = counter[s]]
  /\ pc' = [pc EXCEPT ![c] = "increment"]

Find(c) ==
  LET s == Wanted(c) IN
  /\ pc[c] = "find"
  /\ \/ /\ counter[s] # Absent
        /\ Locked(c, s)
        /\ UNCHANGED gap
     \/ /\ counter[s] = Absent
        /\ pc' = [pc EXCEPT ![c] = "insert"]
        /\ \E g \in SUBSET {c} : gap' = [gap EXCEPT ![s] = @ \cup g]
        /\ UNCHANGED <<owner, read>>
  /\ UNCHANGED <<counter, stored, shared, call, at, drawn, masters, dropped>>

\* The row is inserted and at once read again with its lock.
Insert(c) ==
  LET s == Wanted(c) IN
  /\ pc[c] = "insert"
  /\ counter[s] = Absent
  /\ gap[s] \subseteq {c}
  /\ counter' = [counter EXCEPT ![s] = 0]
  /\ owner' = [owner EXCEPT ![s] = c]
  /\ read' = [read EXCEPT ![c] = 0]
  /\ pc' = [pc EXCEPT ![c] = "increment"]
  /\ UNCHANGED <<stored, shared, gap, call, at, drawn, masters, dropped>>

\* ER_DUP_ENTRY: another call came first, and has committed.
InsertLoses(c) ==
  LET s == Wanted(c) IN
  /\ pc[c] = "insert"
  /\ counter[s] # Absent
  /\ owner[s] = NoCall
  /\ shared' = [shared EXCEPT ![s] = @ \cup {c}]
  /\ pc' = [pc EXCEPT ![c] = "relock"]
  /\ UNCHANGED <<counter, stored, owner, gap, call, at, read, drawn, masters, dropped>>

Relock(c) ==
  /\ pc[c] = "relock"
  /\ Locked(c, Wanted(c))
  /\ UNCHANGED <<counter, stored, shared, gap, call, at, drawn, masters, dropped>>

\* Mutant: seeding relies on its count before the transaction.
Overtaken_Never(c) == FALSE

\* Seeding looks again once it has its first number: the row is locked now.
Overtaken(c) == seeds[c] /\ at[c] = 1 /\ Types # {}

\* The row that will bear the number just drawn.
Drawn(c) == [sequence |-> Wanted(c), number |-> read[c] + 1, by |-> c, draw |-> at[c],
             system |-> seeds[c]]

\* Mutant: the number is drawn in a transaction of its own.
Increment_Alone(c) ==
  /\ pc[c] = "increment"
  /\ counter' = [counter EXCEPT ![Wanted(c)] = read[c] + 1]
  /\ stored' = [stored EXCEPT ![Wanted(c)] = read[c] + 1]
  /\ owner' = [owner EXCEPT ![Wanted(c)] = NoCall]
  /\ drawn' = [drawn EXCEPT ![c] = @ \cup {Drawn(c)}]
  /\ pc' = [pc EXCEPT ![c] = IF at[c] = Len(plan[c]) THEN "work" ELSE "find"]
  /\ at' = [at EXCEPT ![c] = IF @ = Len(plan[c]) THEN @ ELSE @ + 1]
  /\ UNCHANGED <<shared, gap, call, read, masters, dropped>>

Increment(c) ==
  /\ pc[c] = "increment"
  /\ counter' = [counter EXCEPT ![Wanted(c)] = read[c] + 1]
  /\ \/ /\ Overtaken(c)
        /\ pc' = [pc EXCEPT ![c] = "work"]
        /\ UNCHANGED <<drawn, at>>
     \/ /\ ~Overtaken(c)
        /\ drawn' = [drawn EXCEPT ![c] = @ \cup {Drawn(c)}]
        /\ \/ /\ at[c] < Len(plan[c])
              /\ pc' = [pc EXCEPT ![c] = "find"]
              /\ at' = [at EXCEPT ![c] = @ + 1]
           \/ /\ at[c] = Len(plan[c])
              /\ pc' = [pc EXCEPT ![c] = "work"]
              /\ UNCHANGED at
  /\ UNCHANGED <<stored, locks, call, read, masters, dropped>>

-----------------------------------------------------------------------------
(* The end of the transaction.                                             *)

\* The locks of c are gone, and with the call all it has read.
Released(c) ==
  /\ owner' = [s \in Sequences |-> IF owner[s] = c THEN NoCall ELSE owner[s]]
  /\ shared' = [s \in Sequences |-> shared[s] \ {c}]
  /\ gap' = [s \in Sequences |-> gap[s] \ {c}]
  /\ pc' = [pc EXCEPT ![c] = "ended"]
  /\ plan' = [plan EXCEPT ![c] = <<>>]
  /\ seeds' = [seeds EXCEPT ![c] = FALSE]
  /\ at' = [at EXCEPT ![c] = 1]
  /\ read' = [read EXCEPT ![c] = 0]
  /\ drawn' = [drawn EXCEPT ![c] = {}]

Commit(c) ==
  /\ pc[c] = "work"
  /\ masters' = masters \cup drawn[c]
  /\ stored' = [s \in Sequences |-> IF owner[s] = c THEN counter[s] ELSE stored[s]]
  /\ dropped' = dropped \cup (IF drawn[c] = {} THEN {read[c] + 1} ELSE {})
  /\ Released(c)
  /\ UNCHANGED counter

\* Mutants: the counter is not part of what is rolled back; the transaction of
\* a call that threw is left open.
Rollback_Keeps(c) ==
  /\ stored' = [s \in Sequences |-> IF owner[s] = c THEN counter[s] ELSE stored[s]]
  /\ Released(c)
  /\ UNCHANGED <<counter, masters, dropped>>

Rollback_Forgotten(c) ==
  /\ pc' = [pc EXCEPT ![c] = "ended"]
  /\ UNCHANGED <<counter, stored, locks, call, at, read, drawn, masters, dropped>>

Rollback(c) ==
  /\ counter' = [s \in Sequences |-> IF owner[s] = c THEN stored[s] ELSE counter[s]]
  /\ Released(c)
  /\ UNCHANGED <<stored, masters, dropped>>

\* A statement or the work of the caller throws, or the connection is lost.
Fail(c) == pc[c] \in Started /\ Rollback(c)

\* The calls whose locks c waits for.
WaitsFor(c) ==
  LET s == Wanted(c) IN
  CASE pc[c] = "relock" \/ (pc[c] = "find" /\ counter[s] # Absent) -> RowHolders(c, s)
    [] pc[c] = "insert" /\ counter[s] = Absent -> gap[s] \ {c}
    [] pc[c] = "insert" /\ counter[s] # Absent -> {owner[s]} \ {c, NoCall}
    [] OTHER -> {}

Circle(C) ==
  LET Waiting(D) == D # {} /\ \A c \in D : WaitsFor(c) \cap D # {}
  IN  Waiting(C) /\ \A D \in SUBSET C : Waiting(D) => D = C

\* ER_LOCK_DEADLOCK: a call of a circle is refused, which generateCode rethrows.
Deadlocked(c) ==
  /\ WaitsFor(c) # {}
  /\ \E C \in SUBSET Calls : c \in C /\ Circle(C)
  /\ Rollback(c)

-----------------------------------------------------------------------------

Statement(c) ==
  Find(c) \/ Insert(c) \/ InsertLoses(c) \/ Relock(c) \/ Increment(c) \/ Commit(c)

Next ==
  \E c \in Calls :
    \/ Create(c) \/ Batch(c) \/ EnsureDefaults(c)
    \/ Statement(c)
    \/ Fail(c) \/ Deadlocked(c)

Spec == Init /\ [][Next]_vars

\* A transaction that nothing blocks goes on, and the database breaks circles.
FairSpec ==
  /\ Spec
  /\ \A c \in Calls : WF_vars(Statement(c))
  /\ WF_vars(\E c \in Calls : Deadlocked(c))

-----------------------------------------------------------------------------
(* Properties.                                                             *)

\* However creates, imports and seedings overlap, fail and lose the race for
\* the first row, no two rows of a sequence bear the same number
\* ("issues no duplicates across serialised concurrent callers",
\* master-code.service.spec.ts).
NoNumberTwice ==
  \A q, r \in masters : q.sequence = r.sequence /\ q.number = r.number => q = r

NumbersOf(s) == {r.number : r \in {q \in masters : q.sequence = s}}

\* Numbers appear in their order: a row that appears later, of a call that
\* began earlier or not, has a higher number than all there were.
NumbersInOrder ==
  [][\A s \in Sequences : \A n \in NumbersOf(s), m \in NumbersOf(s)' \ NumbersOf(s) : n < m]_vars

\* A failed call gives its numbers back (master-code.service.ts:96): every
\* number up to the last is borne by a row, but one for each seeding that was
\* overtaken by another and committed without inserting anything.
NothingIsSkipped ==
  \A s \in Sequences :
    \A n \in 1..stored[s] :
      \/ n \in NumbersOf(s)
      \/ s = ClientTypes /\ n \in dropped

\* The default client types are seeded all together, once, and into an empty
\* master: whoever overtook the seeding left it nothing to insert.
SeededOnce ==
  \A q, r \in Types :
    q.system => IF r.number \in 1..Defaults THEN r.by = q.by ELSE ~r.system

\* Every call that began ends: nothing holds a lock for ever and no circle of
\* waiting calls stays, imports that draw in opposite orders included.
EveryCallEnds == \A c \in Calls : pc[c] = "find" ~> pc[c] = "ended"

=============================================================================
