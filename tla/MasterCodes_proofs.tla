-------------------------- MODULE MasterCodes_proofs --------------------------
(***************************************************************************)
(* Proofs about MasterCodes, for any calls, sequences and batches and any  *)
(* number of default client types.                                         *)
(*                                                                         *)
(* The argument: what a transaction has drawn from a sequence lies above   *)
(* what is committed, and only the owner of its counter row has drawn from *)
(* it (Held, OwnRows). Every number up to the counter is borne by a row,   *)
(* drawn or dropped (Covered), so an empty master starts at one, which is  *)
(* why a seeding that finds it empty takes the first numbers (Seeding).    *)
(***************************************************************************)
EXTENDS MasterCodes, SequenceTheorems, TLAPS

\* What a running call works with; an idle or ended one has nothing.
Runs(c) ==
  /\ pc[c] \in Started => at[c] \in 1..Len(plan[c])
  /\ pc[c] \notin Started => drawn[c] = {} /\ at[c] = 1 /\ ~seeds[c]
  /\ at[c] = 1 /\ pc[c] # "work" => drawn[c] = {}
  /\ at[c] > 1 => drawn[c] # {}
  /\ seeds[c] => plan[c] = [i \in 1..Defaults |-> ClientTypes]
  /\ pc[c] = "increment" => owner[Wanted(c)] = c /\ read[c] = counter[Wanted(c)]
  /\ pc[c] = "relock" => stored[Wanted(c)] # Absent

Running == \A c \in Calls : Runs(c)

\* A counter differs from its committed value only while its row is locked.
Held ==
  \A s \in Sequences :
    /\ stored[s] <= counter[s]
    /\ owner[s] = NoCall => counter[s] = stored[s]
    /\ owner[s] # NoCall => pc[owner[s]] \in Started /\ counter[s] # Absent

\* Who has drawn a number owns its counter, and has drawn it once.
OwnRows ==
  \A c \in Calls :
    /\ \A r \in drawn[c] :
         /\ r.by = c /\ r.system = seeds[c] /\ owner[r.sequence] = c
         /\ r.number > 0 /\ r.number > stored[r.sequence] /\ r.number <= counter[r.sequence]
    /\ \A q, r \in drawn[c] : q.sequence = r.sequence /\ q.number = r.number => q = r

\* Committed numbers are those up to the committed counter.
Below == \A r \in masters : r.number > 0 /\ r.number <= stored[r.sequence]

\* Every number up to a counter went into a row or was dropped.
Covered ==
  \A s \in Sequences : \A n \in 1..counter[s] :
    \/ n \in NumbersOf(s)
    \/ s = ClientTypes /\ n \in dropped
    \/ \E c \in Calls :
         /\ owner[s] = c
         /\ n > stored[s]
         /\ \/ \E r \in drawn[c] : r.sequence = s /\ r.number = n
            \/ s = ClientTypes /\ pc[c] = "work" /\ drawn[c] = {} /\ n = read[c] + 1

\* Numbers are dropped only when there are client types.
DropsHaveReason ==
  /\ dropped # {} => Types # {}
  /\ \A c \in Calls : pc[c] = "work" /\ drawn[c] = {} => Types # {}

\* A seeding that inserts has an empty master to itself and counts from one.
Seeding ==
  /\ \A c \in Calls :
       seeds[c] /\ drawn[c] # {} =>
         /\ Types = {} /\ owner[ClientTypes] = c /\ stored[ClientTypes] <= 0
         /\ counter[ClientTypes] = IF pc[c] = "work" THEN Defaults ELSE at[c] - 1
  /\ \A q \in Types : q.system => stored[ClientTypes] >= Defaults

\* The inductive invariant. NoNumberTwice needs Held, OwnRows and Below, and
\* SeededOnce needs the rest too: Covered says where a sequence starts.
IInv ==
  /\ TypeOK
  /\ Running
  /\ Held
  /\ OwnRows
  /\ Below
  /\ Covered
  /\ DropsHaveReason
  /\ Seeding
  /\ NoNumberTwice
  /\ SeededOnce

-----------------------------------------------------------------------------

\* A plan's draws are sequences.
LEMMA WantedIsASequence ==
  ASSUME TypeOK, Running, NEW c \in Calls, pc[c] \in Started
  PROVE  /\ at[c] \in 1..Len(plan[c]) /\ Len(plan[c]) \in Nat
         /\ Wanted(c) \in Sequences
         /\ seeds[c] => Wanted(c) = ClientTypes /\ Len(plan[c]) = Defaults
<1>1. plan[c] \in Seq(Sequences) /\ at[c] \in 1..Len(plan[c])
  BY DEF TypeOK, Running, Runs
<1>2. Wanted(c) \in Sequences /\ Len(plan[c]) \in Nat
  BY <1>1, ElementOfSeq, LenProperties DEF Wanted
<1>3. ASSUME seeds[c] PROVE Wanted(c) = ClientTypes /\ Len(plan[c]) = Defaults
  <2>1. plan[c] = [i \in 1..Defaults |-> ClientTypes]
    BY <1>3 DEF Running, Runs
  <2>2. Len(plan[c]) = Defaults
    BY <1>1, <2>1, LenProperties, MasterCodesAssumption
  <2>3. QED
    BY <1>1, <2>1, <2>2 DEF Wanted
<1>4. QED
  BY <1>1, <1>2, <1>3

\* The program starts without counters and rows.
LEMMA InitIInv == Init => IInv
<1> SUFFICES ASSUME Init PROVE IInv
  OBVIOUS
<1> USE MasterCodesAssumption DEF Init
<1>1. TypeOK
  BY DEF TypeOK, Absent, Started
<1>2. Running
  <2>1. SUFFICES ASSUME NEW c \in Calls PROVE Runs(c)
    BY DEF Running
  <2>2. pc[c] = "idle" /\ drawn[c] = {} /\ at[c] = 1 /\ seeds[c] = FALSE
    OBVIOUS
  <2>3. QED
    BY <2>2 DEF Runs, Started
<1>3. Held
  BY DEF Held, Absent
<1>4. OwnRows /\ Below
  BY DEF OwnRows, Below
<1>5. Covered
  BY DEF Covered, Absent
<1>6. DropsHaveReason /\ Seeding /\ NoNumberTwice /\ SeededOnce
  BY DEF DropsHaveReason, Seeding, NoNumberTwice, SeededOnce, Types
<1>7. QED
  BY <1>1, <1>2, <1>3, <1>4, <1>5, <1>6 DEF IInv

-----------------------------------------------------------------------------
(* Steps that only wait or begin.                                          *)

\* A call begins, misses the row, or loses the first insert.
Waits(c, x) ==
  /\ UNCHANGED <<counter, stored, owner, read, drawn, masters, dropped>>
  /\ pc[c] \notin {"work", "increment"} /\ pc' = [pc EXCEPT ![c] = x]
  /\ \A d \in Calls :
       \/ seeds'[d] = seeds[d] /\ at'[d] = at[d] /\ plan'[d] = plan[d]
       \/ d = c /\ drawn[c] = {}

LEMMA WaitsKeeps ==
  ASSUME IInv, NEW c \in Calls, NEW x \in {"find", "insert", "relock"},
         Waits(c, x), TypeOK', Runs(c)'
  PROVE  IInv'
<1> USE DEF Waits
<1>1. Running'
  BY DEF IInv, TypeOK, Running, Runs, Wanted
<1>2. Held'
  BY DEF IInv, TypeOK, Held, Started
<1>3. OwnRows' /\ Below'
  BY DEF IInv, OwnRows, Below
<1>4. Covered'
  BY DEF IInv, TypeOK, Covered, NumbersOf
<1>5. DropsHaveReason'
  BY DEF IInv, TypeOK, DropsHaveReason, Types
<1>6. Seeding'
  BY DEF IInv, TypeOK, Seeding, Types
<1>7. NoNumberTwice' /\ SeededOnce'
  BY DEF IInv, NoNumberTwice, SeededOnce, Types
<1>8. QED
  BY <1>1, <1>2, <1>3, <1>4, <1>5, <1>6, <1>7 DEF IInv

LEMMA PlansAreSequences ==
  /\ \A s \in Sequences : <<s>> \in Seq(Sequences) \ {<<>>}
  /\ [i \in 1..Defaults |-> ClientTypes] \in Seq(Sequences) \ {<<>>}
<1>1. [i \in 1..Defaults |-> ClientTypes] \in Seq(Sequences)
  BY MasterCodesAssumption
<1>2. Len([i \in 1..Defaults |-> ClientTypes]) = Defaults
  BY <1>1, LenProperties, MasterCodesAssumption
<1>3. QED
  BY <1>1, <1>2, MasterCodesAssumption, EmptySeq

LEMMA BeginKeeps ==
  ASSUME IInv, NEW c \in Calls, NEW p \in Seq(Sequences) \ {<<>>}, NEW seeding \in BOOLEAN,
         seeding => p = [i \in 1..Defaults |-> ClientTypes], Begin(c, p, seeding)
  PROVE  IInv'
<1> USE DEF Begin, locks
<1>1. Len(p) \in Nat \ {0}
  BY EmptySeq, LenProperties
<1>2. at[c] = 1 /\ drawn[c] = {}
  BY DEF IInv, Running, Runs, Started
<1>3. TypeOK'
  BY DEF IInv, TypeOK, Started
<1>4. Runs(c)'
  BY <1>1, <1>2 DEF IInv, TypeOK, Runs, Started
<1>5. Waits(c, "find")
  BY <1>2 DEF IInv, TypeOK, Waits
<1>6. QED
  BY <1>3, <1>4, <1>5, WaitsKeeps

LEMMA MissKeeps ==
  ASSUME IInv, NEW c \in Calls, NEW x \in {"insert", "relock"},
         pc[c] \in {"find", "insert"}, pc' = [pc EXCEPT ![c] = x],
         x = "relock" => stored[Wanted(c)] # Absent,
         shared' \in [Sequences -> SUBSET Calls], gap' \in [Sequences -> SUBSET Calls],
         UNCHANGED <<counter, stored, owner, call, at, read, drawn, masters, dropped>>
  PROVE  IInv'
<1> USE DEF call
<1>1. TypeOK'
  BY DEF IInv, TypeOK, Started
<1>2. Runs(c)'
  BY DEF IInv, TypeOK, Running, Runs, Started, Wanted
<1>3. Waits(c, x)
  BY DEF Waits
<1>4. QED
  BY <1>1, <1>2, <1>3, WaitsKeeps

-----------------------------------------------------------------------------
(* A call takes the counter row, or makes it.                              *)

LEMMA LockedKeeps ==
  ASSUME IInv, NEW c \in Calls, pc[c] \in {"find", "relock"},
         counter[Wanted(c)] # Absent, Locked(c, Wanted(c)),
         UNCHANGED <<counter, stored, shared, gap, call, at, drawn, masters, dropped>>
  PROVE  IInv'
<1> DEFINE s == Wanted(c)
<1>1. s \in Sequences
  BY WantedIsASequence DEF IInv, Started
<1>2. owner[s] \in {c, NoCall}
  BY DEF Locked, RowHolders
<1>3. /\ owner' = [owner EXCEPT ![s] = c]
      /\ read' = [read EXCEPT ![c] = counter[s]]
      /\ pc' = [pc EXCEPT ![c] = "increment"]
  BY DEF Locked
<1> HIDE DEF s
<1> USE DEF call
<1>4. TypeOK'
  BY <1>1, <1>3 DEF IInv, TypeOK, Started, Absent, s
<1>5. \A d \in Calls : Wanted(d)' = Wanted(d)
  BY DEF Wanted
<1>6. Running'
  <2>1. SUFFICES ASSUME NEW d \in Calls PROVE Runs(d)'
    BY DEF Running
  <2>2. CASE d = c
    <3>1. Runs(c)
      BY DEF IInv, Running
    <3>2. Wanted(c)' = s /\ owner'[s] = c /\ read'[c] = counter[s]
      BY <1>1, <1>3, <1>5 DEF IInv, TypeOK, s
    <3>3. pc'[c] = "increment"
      BY <1>3 DEF IInv, TypeOK
    <3>4. QED
      BY <2>2, <3>1, <3>2, <3>3 DEF Runs, Started
  <2>3. CASE d # c
    <3>1. Runs(d) /\ (pc[d] = "increment" => Wanted(d) # s)
      BY <1>2, <2>3, MasterCodesAssumption DEF IInv, Running, Runs
    <3>2. QED
      BY <1>1, <1>3, <1>5, <2>3, <3>1 DEF IInv, TypeOK, Runs
  <2>4. QED
    BY <2>2, <2>3
<1>7. Held'
  BY <1>1, <1>2, <1>3, MasterCodesAssumption DEF IInv, TypeOK, Held, Started, s
<1>8. OwnRows' /\ Below'
  BY <1>1, <1>2, <1>3, MasterCodesAssumption DEF IInv, TypeOK, OwnRows, Below
<1>9. Covered'
  <2>1. SUFFICES ASSUME NEW t \in Sequences, NEW n \in 1..counter[t],
                        NEW d \in Calls, owner[t] = d, n > stored[t],
                        \/ \E r \in drawn[d] : r.sequence = t /\ r.number = n
                        \/ t = ClientTypes /\ pc[d] = "work" /\ drawn[d] = {} /\ n = read[d] + 1
                 PROVE  /\ owner'[t] = d
                        /\ \/ \E r \in drawn[d] : r.sequence = t /\ r.number = n
                           \/ t = ClientTypes /\ pc'[d] = "work" /\ drawn[d] = {} /\ n = read'[d] + 1
    BY DEF IInv, Covered, NumbersOf
  <2>2. owner'[t] = d
    BY <1>1, <1>2, <1>3, <2>1, MasterCodesAssumption DEF IInv, TypeOK
  <2>3. pc[d] = "work" => pc'[d] = "work" /\ read'[d] = read[d]
    BY <1>3 DEF IInv, TypeOK
  <2>4. QED
    BY <2>1, <2>2, <2>3
<1>10. DropsHaveReason'
  BY <1>3 DEF IInv, TypeOK, DropsHaveReason, Types
<1>11. Seeding'
  BY <1>1, <1>2, <1>3, MasterCodesAssumption DEF IInv, TypeOK, Seeding, Types
<1>12. NoNumberTwice' /\ SeededOnce'
  BY DEF IInv, NoNumberTwice, SeededOnce, Types
<1>13. QED
  BY <1>4, <1>6, <1>7, <1>8, <1>9, <1>10, <1>11, <1>12 DEF IInv

LEMMA FindKeeps ==
  ASSUME IInv, NEW c \in Calls, Find(c)
  PROVE  IInv'
<1>1. CASE counter[Wanted(c)] # Absent
  <2>1. Locked(c, Wanted(c)) /\ UNCHANGED <<counter, stored, shared, gap, call, at, drawn, masters, dropped>>
    BY <1>1 DEF Find
  <2>2. QED
    BY <1>1, <2>1, LockedKeeps DEF Find
<1>2. CASE counter[Wanted(c)] = Absent
  <2>1. PICK g \in SUBSET {c} : gap' = [gap EXCEPT ![Wanted(c)] = @ \cup g]
    BY <1>2 DEF Find
  <2>2. Wanted(c) \in Sequences
    BY WantedIsASequence DEF IInv, Find, Started
  <2>3. gap' \in [Sequences -> SUBSET Calls] /\ shared' \in [Sequences -> SUBSET Calls]
    BY <2>1, <2>2 DEF IInv, TypeOK, Find
  <2>4. QED
    BY <1>2, <2>3, MissKeeps DEF Find
<1>3. QED
  BY <1>1, <1>2

LEMMA LosesKeeps ==
  ASSUME IInv, NEW c \in Calls, InsertLoses(c)
  PROVE  IInv'
<1>1. Wanted(c) \in Sequences
  BY WantedIsASequence DEF IInv, InsertLoses, Started
<1>2. gap' \in [Sequences -> SUBSET Calls] /\ shared' \in [Sequences -> SUBSET Calls]
  BY <1>1 DEF IInv, TypeOK, InsertLoses
<1>3. stored[Wanted(c)] # Absent
  BY <1>1 DEF IInv, Held, InsertLoses
<1>4. QED
  BY <1>2, <1>3, MissKeeps DEF InsertLoses

LEMMA InsertKeeps ==
  ASSUME IInv, NEW c \in Calls, Insert(c)
  PROVE  IInv'
<1> DEFINE s == Wanted(c)
<1>1. s \in Sequences
  BY WantedIsASequence DEF IInv, Insert, Started
<1>2. counter[s] = Absent /\ owner[s] = NoCall /\ stored[s] = Absent
  BY <1>1 DEF IInv, Held, TypeOK, Insert
<1>3. /\ counter' = [counter EXCEPT ![s] = 0]
      /\ owner' = [owner EXCEPT ![s] = c]
      /\ read' = [read EXCEPT ![c] = 0]
      /\ pc[c] = "insert"
      /\ pc' = [pc EXCEPT ![c] = "increment"]
      /\ UNCHANGED <<stored, shared, gap, call, at, drawn, masters, dropped>>
  BY DEF Insert
<1>4. \A d \in Calls : Wanted(d)' = Wanted(d)
  BY <1>3 DEF Wanted, call
<1> HIDE DEF s
<1> USE MasterCodesAssumption DEF call, Absent
<1>5. TypeOK'
  BY <1>1, <1>3 DEF IInv, TypeOK, Started
<1>6. Running'
  BY <1>1, <1>2, <1>3, <1>4 DEF IInv, TypeOK, Running, Runs, Started, s
<1>7. Held'
  BY <1>1, <1>2, <1>3 DEF IInv, TypeOK, Held, Started
<1>8. OwnRows' /\ Below'
  BY <1>1, <1>2, <1>3 DEF IInv, TypeOK, OwnRows, Below
<1>9. Covered'
  BY <1>1, <1>2, <1>3 DEF IInv, TypeOK, Covered, NumbersOf
<1>10. DropsHaveReason'
  BY <1>3 DEF IInv, TypeOK, DropsHaveReason, Types
<1>11. Seeding'
  BY <1>1, <1>2, <1>3 DEF IInv, TypeOK, Seeding, Types
<1>12. NoNumberTwice' /\ SeededOnce'
  BY <1>3 DEF IInv, NoNumberTwice, SeededOnce, Types
<1>13. QED
  BY <1>5, <1>6, <1>7, <1>8, <1>9, <1>10, <1>11, <1>12 DEF IInv

-----------------------------------------------------------------------------
(* A number is drawn.                                                      *)

LEMMA IncrementKeeps ==
  ASSUME IInv, NEW c \in Calls, Increment(c)
  PROVE  IInv'
<1> DEFINE s == Wanted(c)
<1> USE MasterCodesAssumption DEF call, locks
<1>1. /\ s \in Sequences /\ Len(plan[c]) \in Nat /\ at[c] \in 1..Len(plan[c])
      /\ seeds[c] => s = ClientTypes /\ Len(plan[c]) = Defaults
  BY WantedIsASequence DEF IInv, Increment, Started
<1>2. owner[s] = c /\ read[c] = counter[s] /\ read[c] \in Nat /\ Runs(c)
  BY <1>1 DEF IInv, TypeOK, Running, Runs, Increment
<1>3. /\ pc[c] = "increment"
      /\ counter' = [counter EXCEPT ![s] = read[c] + 1]
      /\ UNCHANGED <<stored, owner, shared, gap, plan, seeds, read, masters, dropped>>
  BY DEF Increment
<1>4. \/ /\ Overtaken(c) /\ drawn[c] = {}
         /\ pc' = [pc EXCEPT ![c] = "work"] /\ drawn' = drawn /\ at' = at
      \/ /\ ~Overtaken(c) /\ drawn' = [drawn EXCEPT ![c] = @ \cup {Drawn(c)}]
         /\ \/ /\ at[c] < Len(plan[c])
               /\ pc' = [pc EXCEPT ![c] = "find"] /\ at' = [at EXCEPT ![c] = @ + 1]
            \/ /\ at[c] = Len(plan[c])
               /\ pc' = [pc EXCEPT ![c] = "work"] /\ at' = at
  BY <1>2 DEF Increment, Overtaken, Runs
<1>5. /\ Drawn(c) \in Row
      /\ Drawn(c).sequence = s /\ Drawn(c).number = read[c] + 1
      /\ Drawn(c).by = c /\ Drawn(c).system = seeds[c]
  BY <1>1, <1>2 DEF Drawn, Row, IInv, TypeOK
<1>6. /\ counter'[s] = counter[s] + 1
      /\ \A t \in Sequences : t # s => counter'[t] = counter[t]
  BY <1>1, <1>2, <1>3 DEF IInv, TypeOK
<1>7. \A d \in Calls : d # c => pc'[d] = pc[d] /\ at'[d] = at[d] /\ drawn'[d] = drawn[d]
  BY <1>4 DEF IInv, TypeOK
<1>8. drawn'[c] \in {drawn[c], drawn[c] \cup {Drawn(c)}} /\ pc'[c] \in {"find", "work"}
  BY <1>4 DEF IInv, TypeOK
<1> HIDE DEF s
<1>9. TypeOK'
  <2>1. /\ counter \in [Sequences -> Nat \cup {Absent}] /\ pc \in [Calls -> {"idle", "ended"} \cup Started]
        /\ at \in [Calls -> Nat \ {0}] /\ drawn \in [Calls -> SUBSET Row]
    BY DEF IInv, TypeOK
  <2>2. counter' \in [Sequences -> Nat \cup {Absent}]
    <3>1. read[c] + 1 \in Nat
      BY <1>2
    <3>2. QED
      BY <1>1, <1>3, <2>1, <3>1
  <2>3. pc' \in [Calls -> {"idle", "ended"} \cup Started]
    BY <1>4, <2>1 DEF Started
  <2>4. at' \in [Calls -> Nat \ {0}]
    BY <1>4, <2>1
  <2>5. drawn' \in [Calls -> SUBSET Row]
    <3>1. CASE drawn' = drawn
      BY <2>1, <3>1
    <3>2. CASE drawn' = [drawn EXCEPT ![c] = @ \cup {Drawn(c)}]
      BY <1>5, <2>1, <3>2
    <3>3. QED
      BY <1>4, <3>1, <3>2
  <2>6. QED
    BY <1>3, <2>2, <2>3, <2>4, <2>5 DEF IInv, TypeOK
<1>10. Running'
  <2>1. SUFFICES ASSUME NEW d \in Calls PROVE Runs(d)'
    BY DEF Running
  <2>2. CASE d = c
    <3>1. pc'[c] = "work" => at'[c] = at[c]
      BY <1>4 DEF IInv, TypeOK
    <3>2. pc'[c] = "find" => at'[c] = at[c] + 1 /\ at[c] < Len(plan[c])
      BY <1>4 DEF IInv, TypeOK
    <3>3. at'[c] > 1 => drawn'[c] # {}
      <4>1. CASE ~Overtaken(c)
        <5>1. Drawn(c) \in drawn'[c]
          BY <1>4, <4>1 DEF IInv, TypeOK
        <5>2. QED
          BY <5>1
      <4>2. CASE Overtaken(c)
        BY <1>4, <4>2 DEF Overtaken
      <4>3. QED
        BY <4>1, <4>2
    <3>4. QED
      BY <1>1, <1>2, <1>3, <1>8, <2>2, <3>1, <3>2, <3>3 DEF Runs, Started
  <2>3. CASE d # c
    <3>1. Runs(d) /\ Wanted(d)' = Wanted(d)
      BY <1>3, <1>7, <2>3 DEF IInv, Running, Wanted
    <3>2. pc[d] = "increment" => Wanted(d) # s /\ Wanted(d) \in Sequences
      BY <1>2, <2>3, <3>1, WantedIsASequence DEF IInv, Runs, Started
    <3>3. QED
      BY <1>3, <1>6, <1>7, <2>3, <3>1, <3>2 DEF Runs
  <2>4. QED
    BY <2>2, <2>3
<1>11. Held'
  <2>1. SUFFICES ASSUME NEW t \in Sequences
        PROVE  /\ stored[t] <= counter'[t]
               /\ owner[t] = NoCall => counter'[t] = stored[t]
               /\ owner[t] # NoCall => pc'[owner[t]] \in Started /\ counter'[t] # Absent
    BY <1>3 DEF Held
  <2>2. /\ stored[t] <= counter[t] /\ stored[t] \in Int
        /\ owner[t] = NoCall => counter[t] = stored[t]
        /\ owner[t] # NoCall => /\ owner[t] \in Calls /\ pc[owner[t]] \in Started
                               /\ counter[t] # Absent
    BY DEF IInv, Held, TypeOK, Absent
  <2>3. owner[t] # NoCall => pc'[owner[t]] \in Started
    BY <1>7, <1>8, <2>2 DEF Started
  <2>4. CASE t = s
    BY <1>2, <1>6, <2>2, <2>3, <2>4 DEF Absent
  <2>5. CASE t # s
    BY <1>6, <2>2, <2>3, <2>5
  <2>6. QED
    BY <2>4, <2>5
<1>12. OwnRows'
  <2>1. SUFFICES ASSUME NEW d \in Calls
        PROVE /\ \A r \in drawn'[d] :
                   /\ r.by = d /\ r.system = seeds[d] /\ owner[r.sequence] = d
                   /\ r.number > 0 /\ r.number > stored[r.sequence] /\ r.number <= counter'[r.sequence]
              /\ \A q, r \in drawn'[d] : q.sequence = r.sequence /\ q.number = r.number => q = r
    BY <1>3 DEF OwnRows
  <2>2. \A r \in drawn[d] :
          /\ r \in Row /\ r.by = d /\ r.system = seeds[d] /\ owner[r.sequence] = d
          /\ r.number > 0 /\ r.number > stored[r.sequence] /\ r.number <= counter[r.sequence]
    BY DEF IInv, TypeOK, OwnRows
  <2>3. \A q, r \in drawn[d] : q.sequence = r.sequence /\ q.number = r.number => q = r
    BY DEF IInv, OwnRows
  <2>4. \A t \in Sequences : counter[t] <= counter'[t] /\ counter[t] \in Int /\ counter'[t] \in Int
    BY <1>6, <1>9 DEF IInv, TypeOK, Absent
  <2>5. stored[s] <= counter[s] /\ stored[s] \in Int
    BY <1>1 DEF IInv, Held, TypeOK, Absent
  <2>6. CASE drawn'[d] = drawn[d]
    BY <2>2, <2>3, <2>4, <2>6 DEF Row
  <2>7. CASE d = c /\ drawn'[c] = drawn[c] \cup {Drawn(c)}
    <3>1. Drawn(c).number = counter[s] + 1 /\ counter[s] \in Nat
      BY <1>2, <1>5
    <3>2. \A r \in drawn[c] : r.sequence = s => r.number # Drawn(c).number
      BY <2>2, <2>7, <3>1 DEF Row
    <3>3. Drawn(c).number > stored[s] /\ Drawn(c).number <= counter'[s] /\ Drawn(c).number > 0
      BY <1>6, <2>5, <3>1
    <3>4. QED
      BY <1>2, <1>5, <2>2, <2>3, <2>4, <2>7, <3>2, <3>3 DEF Row
  <2>8. QED
    BY <1>7, <1>8, <2>6, <2>7
<1>13. Below'
  BY <1>3 DEF IInv, Below
<1>14. Covered'
  <2>1. SUFFICES ASSUME NEW t \in Sequences, NEW n \in 1..counter'[t]
        PROVE \/ n \in NumbersOf(t)
              \/ t = ClientTypes /\ n \in dropped
              \/ \E d \in Calls :
                   /\ owner[t] = d
                   /\ n > stored[t]
                   /\ \/ \E r \in drawn'[d] : r.sequence = t /\ r.number = n
                      \/ t = ClientTypes /\ pc'[d] = "work" /\ drawn'[d] = {} /\ n = read[d] + 1
    BY <1>3 DEF Covered, NumbersOf
  <2>2. CASE n \in 1..counter[t]
    <3>1. SUFFICES ASSUME NEW d \in Calls, owner[t] = d, n > stored[t],
                          \/ \E r \in drawn[d] : r.sequence = t /\ r.number = n
                          \/ t = ClientTypes /\ pc[d] = "work" /\ drawn[d] = {} /\ n = read[d] + 1
                   PROVE  \/ \E r \in drawn'[d] : r.sequence = t /\ r.number = n
                          \/ t = ClientTypes /\ pc'[d] = "work" /\ drawn'[d] = {} /\ n = read[d] + 1
      BY <2>2 DEF IInv, Covered
    <3>2. drawn[d] \subseteq drawn'[d]
      BY <1>7, <1>8
    <3>3. pc[d] = "work" => d # c
      BY <1>3
    <3>4. QED
      BY <1>7, <3>1, <3>2, <3>3
  <2>3. CASE n \notin 1..counter[t]
    <3>1. t = s
      BY <1>6, <2>3
    <3>2. n = read[c] + 1
      BY <1>2, <1>6, <2>1, <2>3, <3>1
    <3>3. n > stored[t]
      BY <1>1, <1>2, <3>1, <3>2 DEF IInv, Held, TypeOK, Absent
    <3>4. \/ \E r \in drawn'[c] : r.sequence = t /\ r.number = n
          \/ t = ClientTypes /\ pc'[c] = "work" /\ drawn'[c] = {} /\ n = read[c] + 1
      <4>1. CASE Overtaken(c)
        BY <1>1, <1>4, <3>1, <3>2, <4>1 DEF Overtaken, IInv, TypeOK
      <4>2. CASE ~Overtaken(c)
        <5>1. Drawn(c) \in drawn'[c]
          BY <1>4, <4>2 DEF IInv, TypeOK
        <5>2. QED
          BY <1>5, <3>1, <3>2, <5>1
      <4>3. QED
        BY <4>1, <4>2
    <3>5. QED
      BY <1>2, <3>1, <3>3, <3>4
  <2>4. QED
    BY <2>2, <2>3
<1>15. DropsHaveReason'
  <2>1. pc'[c] = "work" /\ drawn'[c] = {} => Types # {}
    <3>1. CASE ~Overtaken(c)
      <4>1. Drawn(c) \in drawn'[c]
        BY <1>4, <3>1 DEF IInv, TypeOK
      <4>2. QED
        BY <4>1
    <3>2. CASE Overtaken(c)
      BY <3>2 DEF Overtaken
    <3>3. QED
      BY <3>1, <3>2
  <2>2. QED
    BY <1>3, <1>7, <2>1 DEF IInv, DropsHaveReason, Types
<1>16. Seeding'
  <2>1. SUFFICES ASSUME NEW d \in Calls, seeds[d], drawn'[d] # {}
        PROVE  /\ Types = {} /\ owner[ClientTypes] = d /\ stored[ClientTypes] <= 0
               /\ counter'[ClientTypes] = IF pc'[d] = "work" THEN Defaults ELSE at'[d] - 1
    BY <1>3 DEF IInv, Seeding, Types
  <2>2. CASE d # c
    <3>1. /\ Types = {} /\ owner[ClientTypes] = d /\ stored[ClientTypes] <= 0
          /\ counter[ClientTypes] = IF pc[d] = "work" THEN Defaults ELSE at[d] - 1
      BY <1>7, <2>1, <2>2 DEF IInv, Seeding
    <3>2. QED
      BY <1>2, <1>6, <1>7, <2>2, <3>1
  <2>3. CASE d = c
    <3>1. s = ClientTypes /\ Len(plan[c]) = Defaults
      BY <1>1, <2>1, <2>3
    <3>2. ~Overtaken(c)
      BY <1>4, <2>1, <2>3
    <3>3. Types = {} /\ stored[s] <= 0 /\ counter[s] = at[c] - 1
      <4>1. CASE at[c] = 1
        <5>1. Types = {} /\ drawn[c] = {} /\ dropped = {}
          BY <1>2, <1>3, <2>1, <2>3, <3>2, <4>1 DEF Overtaken, IInv, DropsHaveReason, Runs
        <5>2. ASSUME counter[s] > 0 PROVE FALSE
          <6>1. 1 \in 1..counter[s]
            BY <1>2, <5>2
          <6>2. 1 \notin NumbersOf(s)
            BY <3>1, <5>1 DEF NumbersOf, Types
          <6>3. QED
            BY <1>1, <1>2, <1>3, <5>1, <6>1, <6>2 DEF IInv, Covered
        <5>3. counter[s] = 0 /\ stored[s] <= 0
          BY <1>1, <1>2, <5>2 DEF IInv, Held, TypeOK
        <5>4. QED
          BY <4>1, <5>1, <5>3
      <4>2. CASE at[c] # 1
        <5>1. drawn[c] # {}
          BY <1>1, <1>2, <4>2 DEF Runs
        <5>2. QED
          BY <1>3, <2>1, <2>3, <3>1, <5>1 DEF IInv, Seeding
      <4>3. QED
        BY <4>1, <4>2
    <3>4. \/ pc'[c] = "find" /\ at'[c] = at[c] + 1
          \/ pc'[c] = "work" /\ at[c] = Defaults
      BY <1>4, <3>1, <3>2 DEF IInv, TypeOK
    <3>5. QED
      BY <1>1, <1>2, <1>6, <2>3, <3>1, <3>3, <3>4
  <2>4. QED
    BY <2>2, <2>3
<1>17. NoNumberTwice' /\ SeededOnce'
  BY <1>3 DEF IInv, NoNumberTwice, SeededOnce, Types
<1>18. QED
  BY <1>9, <1>10, <1>11, <1>12, <1>13, <1>14, <1>15, <1>16, <1>17 DEF IInv

-----------------------------------------------------------------------------
(* The transaction ends.                                                   *)

\* What the end of a transaction, whatever it does to the counters, leaves.
LEMMA ReleasedFrees ==
  ASSUME TypeOK, NEW c \in Calls, Released(c)
  PROVE  /\ \A s \in Sequences : owner'[s] = IF owner[s] = c THEN NoCall ELSE owner[s]
         /\ pc'[c] = "ended" /\ plan'[c] = <<>> /\ ~seeds'[c] /\ at'[c] = 1 /\ drawn'[c] = {}
         /\ \A d \in Calls : d # c =>
              /\ pc'[d] = pc[d] /\ plan'[d] = plan[d] /\ at'[d] = at[d] /\ read'[d] = read[d]
              /\ drawn'[d] = drawn[d] /\ seeds'[d] = seeds[d]
         /\ owner' \in [Sequences -> Calls \cup {NoCall}]
         /\ shared' \in [Sequences -> SUBSET Calls] /\ gap' \in [Sequences -> SUBSET Calls]
         /\ pc' \in [Calls -> {"idle", "ended"} \cup Started]
         /\ plan' \in [Calls -> Seq(Sequences)] /\ at' \in [Calls -> Nat \ {0}]
         /\ read' \in [Calls -> Nat] /\ seeds' \in [Calls -> BOOLEAN]
         /\ drawn' \in [Calls -> SUBSET Row]
<1> USE DEF Released, TypeOK
<1>1. owner' \in [Sequences -> Calls \cup {NoCall}]
  OBVIOUS
<1>2. shared' \in [Sequences -> SUBSET Calls] /\ gap' \in [Sequences -> SUBSET Calls]
  OBVIOUS
<1>3. plan' \in [Calls -> Seq(Sequences)]
  BY EmptySeq
<1>4. QED
  BY <1>1, <1>2, <1>3

\* Nobody else's locks are touched: the other calls run on as they were.
LEMMA OthersRun ==
  ASSUME IInv, NEW c \in Calls, Released(c), pc[c] \in Started,
         \A s \in Sequences : owner[s] # c => counter'[s] = counter[s],
         \A s \in Sequences : stored[s] # Absent => stored'[s] # Absent
  PROVE  Running'
<1>1. SUFFICES ASSUME NEW d \in Calls PROVE Runs(d)'
  BY DEF Running
<1>2. CASE d = c
  BY <1>2, ReleasedFrees DEF IInv, Runs, Started
<1>3. CASE d # c
  <2>1. Runs(d) /\ Wanted(d)' = Wanted(d)
    BY <1>3, ReleasedFrees DEF IInv, Running, Wanted
  <2>2. pc[d] = "increment" => Wanted(d) \in Sequences
    BY WantedIsASequence DEF IInv, Started
  <2>3. pc[d] = "increment" => owner'[Wanted(d)] = d /\ counter'[Wanted(d)] = counter[Wanted(d)]
    BY <1>3, <2>1, <2>2, ReleasedFrees DEF IInv, Runs
  <2>4. pc[d] = "relock" => stored'[Wanted(d)] # Absent
    BY <2>1, WantedIsASequence DEF IInv, Runs, Started
  <2>5. QED
    BY <1>3, <2>1, <2>3, <2>4, ReleasedFrees DEF IInv, Runs
<1>4. QED
  BY <1>2, <1>3

LEMMA RollbackKeeps ==
  ASSUME IInv, NEW c \in Calls, pc[c] \in Started, Rollback(c)
  PROVE  IInv'
<1> USE MasterCodesAssumption
<1>1. /\ \A s \in Sequences : counter'[s] = IF owner[s] = c THEN stored[s] ELSE counter[s]
      /\ counter' \in [Sequences -> Nat \cup {Absent}]
      /\ UNCHANGED <<stored, masters, dropped>> /\ Released(c)
  BY DEF Rollback, IInv, TypeOK
<1>2. TypeOK
  BY DEF IInv
<1>3. TypeOK'
  BY <1>1, <1>2, ReleasedFrees DEF TypeOK
<1>4. /\ \A s \in Sequences : owner'[s] = IF owner[s] = c THEN NoCall ELSE owner[s]
      /\ pc'[c] = "ended" /\ ~seeds'[c] /\ drawn'[c] = {}
      /\ \A d \in Calls : d # c =>
           /\ pc'[d] = pc[d] /\ at'[d] = at[d] /\ read'[d] = read[d]
           /\ drawn'[d] = drawn[d] /\ seeds'[d] = seeds[d]
  BY <1>1, <1>2, ReleasedFrees
<1>5. \A s \in Sequences :
        /\ owner[s] \in Calls \cup {NoCall} /\ counter[s] \in Int /\ stored[s] \in Int
        /\ stored[s] <= counter[s]
        /\ owner[s] = NoCall => counter[s] = stored[s]
        /\ owner[s] # NoCall => pc[owner[s]] \in Started /\ counter[s] # Absent
  BY DEF IInv, TypeOK, Held, Absent
<1>6. Running'
  BY <1>1, OthersRun
<1>7. Held'
  BY <1>1, <1>4, <1>5 DEF Held
<1>8. OwnRows' /\ Below'
  <2>1. \A d \in Calls : drawn[d] \subseteq Row
    BY <1>2 DEF TypeOK
  <2>2. OwnRows'
    BY <1>1, <1>4, <2>1 DEF IInv, OwnRows, Row
  <2>3. QED
    BY <1>1, <2>2 DEF IInv, Below
<1>9. Covered'
  <2>1. SUFFICES ASSUME NEW t \in Sequences, NEW n \in 1..counter'[t], n \notin NumbersOf(t),
                        ~(t = ClientTypes /\ n \in dropped)
        PROVE \E d \in Calls :
                /\ owner'[t] = d
                /\ n > stored[t]
                /\ \/ \E r \in drawn'[d] : r.sequence = t /\ r.number = n
                   \/ t = ClientTypes /\ pc'[d] = "work" /\ drawn'[d] = {} /\ n = read'[d] + 1
    BY <1>1 DEF Covered, NumbersOf
  <2>2. n \in 1..counter[t] /\ (owner[t] = c => n <= stored[t])
    BY <1>1, <1>5
  <2>3. PICK d \in Calls :
          /\ owner[t] = d
          /\ n > stored[t]
          /\ \/ \E r \in drawn[d] : r.sequence = t /\ r.number = n
             \/ t = ClientTypes /\ pc[d] = "work" /\ drawn[d] = {} /\ n = read[d] + 1
    BY <2>1, <2>2 DEF IInv, Covered
  <2>4. d # c
    BY <1>5, <2>2, <2>3
  <2>5. owner'[t] = d /\ drawn'[d] = drawn[d] /\ pc'[d] = pc[d] /\ read'[d] = read[d]
    BY <1>4, <2>3, <2>4
  <2>6. QED
    BY <2>3, <2>5
<1>10. DropsHaveReason'
  BY <1>1, <1>4 DEF IInv, DropsHaveReason, Types
<1>11. Seeding'
  BY <1>1, <1>4 DEF IInv, Seeding, Types
<1>12. NoNumberTwice' /\ SeededOnce'
  BY <1>1 DEF IInv, NoNumberTwice, SeededOnce, Types
<1>13. QED
  BY <1>3, <1>6, <1>7, <1>8, <1>9, <1>10, <1>11, <1>12 DEF IInv

LEMMA CommitKeeps ==
  ASSUME IInv, NEW c \in Calls, Commit(c)
  PROVE  IInv'
<1> USE MasterCodesAssumption
<1>1. /\ pc[c] = "work" /\ masters' = masters \cup drawn[c]
      /\ \A s \in Sequences : stored'[s] = IF owner[s] = c THEN counter[s] ELSE stored[s]
      /\ stored' \in [Sequences -> Nat \cup {Absent}]
      /\ dropped' = dropped \cup (IF drawn[c] = {} THEN {read[c] + 1} ELSE {})
      /\ counter' = counter /\ Released(c)
  BY DEF Commit, IInv, TypeOK
<1>2. TypeOK
  BY DEF IInv
<1>3. TypeOK'
  <2>1. drawn[c] \subseteq Row /\ masters \subseteq Row /\ dropped \subseteq Nat
    BY <1>2 DEF TypeOK
  <2>2. read[c] + 1 \in Nat
    BY <1>2 DEF TypeOK
  <2>3. masters' \in SUBSET Row /\ dropped' \in SUBSET Nat
    BY <1>1, <2>1, <2>2
  <2>4. counter' \in [Sequences -> Nat \cup {Absent}]
    BY <1>1, <1>2 DEF TypeOK
  <2>5. QED
    BY <1>1, <1>2, <2>3, <2>4, ReleasedFrees DEF TypeOK
<1>4. /\ \A s \in Sequences : owner'[s] = IF owner[s] = c THEN NoCall ELSE owner[s]
      /\ pc'[c] = "ended" /\ ~seeds'[c] /\ drawn'[c] = {}
      /\ \A d \in Calls : d # c =>
           /\ pc'[d] = pc[d] /\ at'[d] = at[d] /\ read'[d] = read[d]
           /\ drawn'[d] = drawn[d] /\ seeds'[d] = seeds[d]
  BY <1>1, <1>2, ReleasedFrees
<1>5. \A s \in Sequences :
        /\ owner[s] \in Calls \cup {NoCall} /\ counter[s] \in Int /\ stored[s] \in Int
        /\ stored[s] <= counter[s] /\ stored[s] <= stored'[s] /\ stored'[s] \in Int
        /\ owner[s] = NoCall => counter[s] = stored[s]
        /\ owner[s] # NoCall => pc[owner[s]] \in Started /\ counter[s] # Absent
  BY <1>1 DEF IInv, TypeOK, Held, Absent
<1>6. \A d \in Calls : \A r \in drawn[d] :
        /\ r \in Row /\ r.sequence \in Sequences /\ r.number \in Nat
        /\ r.by = d /\ r.system = seeds[d] /\ owner[r.sequence] = d
        /\ r.number > 0 /\ r.number > stored[r.sequence] /\ r.number <= counter[r.sequence]
  BY <1>2 DEF TypeOK, Row, IInv, OwnRows
<1>7. \A r \in masters : /\ r.sequence \in Sequences /\ r.number \in Nat
                         /\ r.number > 0 /\ r.number <= stored[r.sequence]
  BY <1>2 DEF TypeOK, Row, IInv, Below
<1>8. seeds[c] /\ drawn[c] # {} =>
        /\ Types = {} /\ owner[ClientTypes] = c
        /\ counter[ClientTypes] = Defaults /\ stored'[ClientTypes] = Defaults
  BY <1>1 DEF IInv, Seeding
<1>9. Running'
  <2>1. \A s \in Sequences : stored[s] \in Nat => stored'[s] # Absent
    BY <1>5 DEF Absent
  <2>2. \A s \in Sequences : stored[s] # Absent => stored'[s] # Absent
    BY <1>2, <2>1 DEF TypeOK
  <2>3. QED
    BY <1>1, <2>2, OthersRun DEF Started
<1>10. Held'
  BY <1>1, <1>4, <1>5 DEF Held
<1>11. OwnRows'
  BY <1>1, <1>4, <1>6 DEF IInv, OwnRows
<1>12. Below'
  BY <1>1, <1>5, <1>6, <1>7 DEF Below
<1>13. Covered'
  <2>1. SUFFICES ASSUME NEW t \in Sequences, NEW n \in 1..counter[t],
                        n \notin NumbersOf(t)', ~(t = ClientTypes /\ n \in dropped')
        PROVE \E d \in Calls :
                /\ owner'[t] = d
                /\ n > stored'[t]
                /\ \/ \E r \in drawn'[d] : r.sequence = t /\ r.number = n
                   \/ t = ClientTypes /\ pc'[d] = "work" /\ drawn'[d] = {} /\ n = read'[d] + 1
    BY <1>1 DEF Covered
  <2>2. n \notin NumbersOf(t) /\ ~(t = ClientTypes /\ n \in dropped)
    BY <1>1, <2>1 DEF NumbersOf
  <2>3. PICK d \in Calls :
          /\ owner[t] = d
          /\ n > stored[t]
          /\ \/ \E r \in drawn[d] : r.sequence = t /\ r.number = n
             \/ t = ClientTypes /\ pc[d] = "work" /\ drawn[d] = {} /\ n = read[d] + 1
    BY <2>1, <2>2 DEF IInv, Covered
  <2>4. CASE d = c
    <3>1. ASSUME NEW r \in drawn[c], r.sequence = t, r.number = n PROVE FALSE
      BY <1>1, <2>1, <3>1 DEF NumbersOf
    <3>2. QED
      BY <1>1, <2>1, <2>3, <2>4, <3>1
  <2>5. CASE d # c
    BY <1>1, <1>4, <2>3, <2>5
  <2>6. QED
    BY <2>4, <2>5
<1>14. DropsHaveReason'
  BY <1>1, <1>4 DEF IInv, DropsHaveReason, Types
<1>15. Seeding'
  <2>1. SUFFICES /\ \A d \in Calls :
                      seeds'[d] /\ drawn'[d] # {} =>
                        /\ Types' = {} /\ owner'[ClientTypes] = d /\ stored'[ClientTypes] <= 0
                        /\ counter[ClientTypes] = IF pc'[d] = "work" THEN Defaults ELSE at'[d] - 1
                 /\ \A q \in Types' : q.system => stored'[ClientTypes] >= Defaults
    BY <1>1 DEF Seeding
  <2>2. ASSUME NEW d \in Calls, seeds'[d], drawn'[d] # {}
        PROVE  /\ Types' = {} /\ owner'[ClientTypes] = d /\ stored'[ClientTypes] <= 0
               /\ counter[ClientTypes] = IF pc'[d] = "work" THEN Defaults ELSE at'[d] - 1
    <3>1. d # c /\ seeds[d] /\ drawn[d] # {}
      BY <1>4, <2>2
    <3>2. /\ Types = {} /\ owner[ClientTypes] = d /\ stored[ClientTypes] <= 0
          /\ counter[ClientTypes] = IF pc[d] = "work" THEN Defaults ELSE at[d] - 1
      BY <3>1 DEF IInv, Seeding
    <3>3. \A r \in drawn[c] : r.sequence # ClientTypes
      BY <1>6, <3>1, <3>2
    <3>4. QED
      BY <1>1, <1>4, <3>1, <3>2, <3>3 DEF Types
  <2>3. ASSUME NEW q \in Types', q.system PROVE stored'[ClientTypes] >= Defaults
    <3>1. CASE q \in drawn[c]
      BY <1>6, <1>8, <2>3, <3>1
    <3>2. CASE q \in Types
      BY <1>5, <2>3, <3>2 DEF IInv, Seeding
    <3>3. QED
      BY <1>1, <3>1, <3>2 DEF Types
  <2>4. QED
    BY <2>1, <2>2, <2>3
<1>16. NoNumberTwice'
  <2>1. SUFFICES ASSUME NEW q \in masters', NEW r \in masters',
                        q.sequence = r.sequence, q.number = r.number
                 PROVE  q = r
    BY DEF NoNumberTwice
  <2>2. (q \in masters \/ q \in drawn[c]) /\ (r \in masters \/ r \in drawn[c])
    BY <1>1
  <2>3. CASE q \in masters /\ r \in masters
    BY <2>1, <2>3 DEF IInv, NoNumberTwice
  <2>4. CASE q \in drawn[c] /\ r \in drawn[c]
    BY <2>1, <2>4 DEF IInv, OwnRows
  <2>5. CASE q \in masters /\ r \in drawn[c]
    BY <1>5, <1>6, <1>7, <2>1, <2>5
  <2>6. CASE q \in drawn[c] /\ r \in masters
    BY <1>5, <1>6, <1>7, <2>1, <2>6
  <2>7. QED
    BY <2>2, <2>3, <2>4, <2>5, <2>6
<1>17. SeededOnce'
  <2>1. SUFFICES ASSUME NEW q \in Types', NEW r \in Types', q.system
                 PROVE  IF r.number \in 1..Defaults THEN r.by = q.by ELSE ~r.system
    BY DEF SeededOnce
  <2>2. /\ q.sequence = ClientTypes /\ r.sequence = ClientTypes
        /\ q \in Types \/ q \in drawn[c]
        /\ r \in Types \/ r \in drawn[c]
    BY <1>1 DEF Types
  <2>3. CASE q \in drawn[c]
    <3>1. Types = {} /\ counter[ClientTypes] = Defaults
      BY <1>6, <1>8, <2>1, <2>3
    <3>2. r \in drawn[c]
      BY <2>2, <3>1
    <3>3. QED
      BY <1>6, <2>2, <2>3, <3>1, <3>2
  <2>4. CASE q \in Types /\ r \in drawn[c]
    <3>1. stored[ClientTypes] >= Defaults
      BY <2>1, <2>4 DEF IInv, Seeding
    <3>2. ~seeds[c]
      BY <1>8, <2>4
    <3>3. QED
      BY <1>5, <1>6, <2>2, <2>4, <3>1, <3>2
  <2>5. CASE q \in Types /\ r \in Types
    BY <2>1, <2>5 DEF IInv, SeededOnce
  <2>6. QED
    BY <2>2, <2>3, <2>4, <2>5
<1>18. QED
  BY <1>3, <1>9, <1>10, <1>11, <1>12, <1>13, <1>14, <1>15, <1>16, <1>17 DEF IInv

-----------------------------------------------------------------------------

LEMMA StepIInv == IInv /\ [Next]_vars => IInv'
<1> SUFFICES ASSUME IInv, [Next]_vars PROVE IInv'
  OBVIOUS
<1>1. CASE UNCHANGED vars
  <2> USE <1>1 DEF vars, locks, call
  <2>1. TypeOK'
    BY DEF IInv, TypeOK
  <2>2. Running'
    BY DEF IInv, Running, Runs, Wanted
  <2>3. Held' /\ OwnRows' /\ Below'
    BY DEF IInv, Held, OwnRows, Below
  <2>4. Covered'
    BY DEF IInv, Covered, NumbersOf
  <2>5. DropsHaveReason' /\ Seeding'
    BY DEF IInv, DropsHaveReason, Seeding, Types
  <2>6. NoNumberTwice' /\ SeededOnce'
    BY DEF IInv, NoNumberTwice, SeededOnce, Types
  <2>7. QED
    BY <2>1, <2>2, <2>3, <2>4, <2>5, <2>6 DEF IInv
<1>2. ASSUME NEW c \in Calls, Create(c) PROVE IInv'
  BY <1>2, BeginKeeps, PlansAreSequences DEF Create
<1>3. ASSUME NEW c \in Calls, Batch(c) PROVE IInv'
  BY <1>3, BeginKeeps, MasterCodesAssumption DEF Batch
<1>4. ASSUME NEW c \in Calls, EnsureDefaults(c) PROVE IInv'
  BY <1>4, BeginKeeps, PlansAreSequences DEF EnsureDefaults
<1>5. ASSUME NEW c \in Calls, Statement(c) PROVE IInv'
  <2>1. CASE Relock(c)
    <3>1. Wanted(c) \in Sequences
      BY <2>1, WantedIsASequence DEF IInv, Relock, Started
    <3>2. stored[Wanted(c)] # Absent
      BY <2>1 DEF IInv, Running, Runs, Relock
    <3>3. stored[Wanted(c)] \in Nat /\ stored[Wanted(c)] <= counter[Wanted(c)]
      BY <3>1, <3>2 DEF IInv, TypeOK, Held
    <3>4. counter[Wanted(c)] # Absent
      BY <3>3 DEF Absent
    <3>5. QED
      BY <2>1, <3>4, LockedKeeps DEF Relock
  <2>2. QED
    BY <1>5, <2>1, FindKeeps, InsertKeeps, LosesKeeps, IncrementKeeps, CommitKeeps DEF Statement
<1>6. ASSUME NEW c \in Calls, Fail(c) PROVE IInv'
  BY <1>6, RollbackKeeps DEF Fail
<1>7. ASSUME NEW c \in Calls, Deadlocked(c) PROVE IInv'
  <2>1. pc[c] \in Started
    BY <1>7 DEF Deadlocked, WaitsFor, Started
  <2>2. QED
    BY <1>7, <2>1, RollbackKeeps DEF Deadlocked
<1>8. QED
  BY <1>1, <1>2, <1>3, <1>4, <1>5, <1>6, <1>7 DEF Next

LEMMA Invariant == Spec => []IInv
  BY InitIInv, StepIInv, PTL DEF Spec

\* Every variable keeps its type: a counter that is taken over after a lost
\* race for the first row is a number, never an absent row.
THEOREM TypeCorrect == Spec => []TypeOK
<1>1. IInv => TypeOK
  BY DEF IInv
<1>2. QED
  BY <1>1, Invariant, PTL

\* However many calls overlap, fail and are refused, no two committed rows of
\* a sequence bear the same number (MasterCodeService.generateCode).
THEOREM NoNumberEverTwice == Spec => []NoNumberTwice
<1>1. IInv => NoNumberTwice
  BY DEF IInv
<1>2. QED
  BY <1>1, Invariant, PTL

\* The default client types are inserted by one seeding, all of them, and into
\* an empty master (ensureDefaults of the client types).
THEOREM SeededAtMostOnce == Spec => []SeededOnce
<1>1. IInv => SeededOnce
  BY DEF IInv
<1>2. QED
  BY <1>1, Invariant, PTL

\* Up to the committed counter no number is missing, whatever was rolled back,
\* but those of overtaken seedings.
THEOREM NothingIsEverSkipped == Spec => []NothingIsSkipped
<1>1. ASSUME IInv PROVE NothingIsSkipped
  <2>1. SUFFICES ASSUME NEW s \in Sequences, NEW n \in 1..stored[s]
                 PROVE  n \in NumbersOf(s) \/ (s = ClientTypes /\ n \in dropped)
    BY DEF NothingIsSkipped
  <2>2. stored[s] \in Int /\ counter[s] \in Int /\ stored[s] <= counter[s]
    BY <1>1 DEF IInv, TypeOK, Held, Absent
  <2>3. n \in 1..counter[s] /\ ~(n > stored[s])
    BY <2>2
  <2>4. QED
    BY <1>1, <2>3 DEF IInv, Covered
<1>2. QED
  BY <1>1, Invariant, PTL

\* What a transaction commits lies above all that was committed before.
LEMMA CommitsInOrder ==
  ASSUME IInv, [Next]_vars,
         NEW s \in Sequences, NEW n \in NumbersOf(s), NEW m \in NumbersOf(s)' \ NumbersOf(s)
  PROVE  n < m
<1>1. CASE masters' = masters
  BY <1>1 DEF NumbersOf
<1>2. CASE \E c \in Calls : masters' = masters \cup drawn[c]
  <2>1. PICK c \in Calls : masters' = masters \cup drawn[c]
    BY <1>2
  <2>2. PICK q \in masters : q.sequence = s /\ q.number = n
    BY DEF NumbersOf
  <2>3. PICK r \in masters' : r.sequence = s /\ r.number = m
    BY DEF NumbersOf
  <2>4. r \in drawn[c]
    BY <2>1, <2>3 DEF NumbersOf
  <2>5. q \in Row /\ r \in Row /\ stored[s] \in Int
    BY <2>2, <2>4 DEF IInv, TypeOK, Absent
  <2>6. q.number <= stored[s] /\ r.number > stored[s] /\ q.number \in Nat /\ r.number \in Nat
    BY <2>2, <2>3, <2>4, <2>5 DEF IInv, Below, OwnRows, Row
  <2>7. QED
    BY <2>2, <2>3, <2>5, <2>6
<1>3. QED
  BY <1>1, <1>2
  DEF Next, vars, Create, Batch, EnsureDefaults, Begin, Statement, Find, Insert, InsertLoses,
      Relock, Increment, Commit, Fail, Deadlocked, Rollback

\* Rows that appear later have the higher numbers, also when their call drew
\* its number before another one's commit.
THEOREM NumbersAlwaysInOrder == Spec => NumbersInOrder
<1>1. IInv /\ [Next]_vars =>
        \A s \in Sequences : \A n \in NumbersOf(s), m \in NumbersOf(s)' \ NumbersOf(s) : n < m
  BY CommitsInOrder
<1>2. QED
  BY <1>1, Invariant, PTL DEF Spec, NumbersInOrder

=============================================================================
