--------------------------- MODULE Material_proofs ---------------------------
(***************************************************************************)
(* Proofs about Material, for any types, descriptions and bounds.          *)
(*                                                                         *)
(* What matters is said of a register on its own (Sound) and of a register *)
(* and a later one (Grows, which is transitive). One upload keeps the first*)
(* and is an instance of the second; by induction so are the uploads of one*)
(* update, and the invariants and action properties follow.                *)
(***************************************************************************)
EXTENDS Material, SequenceTheorems, FiniteSetTheorems, WellFoundedInduction, TLAPS

-----------------------------------------------------------------------------
(* Numbers.                                                                *)

\* A set of numbers that is not empty has a least one.
LEMMA LeastNumber ==
  ASSUME NEW S \in SUBSET Nat, S # {}
  PROVE  \E n \in S : \A m \in S : n <= m
<1> DEFINE R == {ss \in Nat \X Nat : ss[1] < ss[2]}
<1>1. IsWellFoundedOn(R, Nat)
  BY NatLessThanWellFounded DEF OpToRel
<1>2. PICK x \in S : \A y \in S : ~ (<<y, x>> \in R)
  <2> HIDE DEF R
  <2> QED
    BY <1>1, WFMin
<1>3. \A y \in S : ~ (y < x)
  BY <1>2
<1> QED
  BY <1>3

\* Induction, for a set of numbers.
LEMMA Induction ==
  ASSUME NEW S \in SUBSET Nat, 0 \in S, \A n \in Nat : n \in S => n + 1 \in S
  PROVE  S = Nat
<1>1. SUFFICES ASSUME Nat \ S # {} PROVE FALSE
  OBVIOUS
<1>2. PICK n \in Nat \ S : \A m \in Nat \ S : n <= m
  BY <1>1, LeastNumber
<1>3. n - 1 \in Nat /\ n - 1 \in S
  BY <1>2
<1> QED
  BY <1>2, <1>3

\* A set of numbers with an upper bound has a greatest.
LEMMA GreatestNumber ==
  ASSUME NEW S \in SUBSET Nat, S # {}, NEW b \in Nat, \A n \in S : n <= b
  PROVE  \E n \in S : \A m \in S : m <= n
<1> DEFINE Bounds == {c \in Nat : \A n \in S : n <= c}
<1>1. PICK c \in Bounds : \A d \in Bounds : c <= d
  <2>1. Bounds \in SUBSET Nat /\ b \in Bounds
    OBVIOUS
  <2> QED
    BY <2>1, LeastNumber
<1>2. CASE c \in S
  BY <1>1, <1>2
<1>3. CASE c \notin S
  <2>1. \A n \in S : n <= c - 1 /\ c - 1 \in Nat
    BY <1>1, <1>3
  <2>2. c - 1 \in Bounds
    BY <2>1
  <2> QED
    BY <1>1, <2>2
<1> QED
  BY <1>2, <1>3

-----------------------------------------------------------------------------
(* One register.                                                           *)

\* ChainsAreLinear and BesideOthersIsNew of any register.
Linear(docs) ==
  \A i \in 1..Len(docs) :
    docs[i].supersedes # 0 =>
      /\ docs[i].supersedes < i
      /\ docs[docs[i].supersedes].type = docs[i].type
      /\ docs[i].version = docs[docs[i].supersedes].version + 1
      /\ ~docs[docs[i].supersedes].active
      /\ \A j \in 1..Len(docs) : docs[j].supersedes = docs[i].supersedes => j = i

Beside(docs) ==
  \A i, j \in 1..Len(docs) :
    /\ docs[i].supersedes = 0
    /\ docs[i].type = docs[j].type
    /\ docs[j].createdAt < docs[i].createdAt
    => docs[j].version < docs[i].version

\* What every register is: createdAt never runs ahead of the rows filed.
Sound(docs) ==
  /\ docs \in Seq(Document)
  /\ \A i \in 1..Len(docs) : docs[i].createdAt <= Len(docs)
  /\ Linear(docs)
  /\ Beside(docs)

SameDocument(d, e) ==
  \A field \in {"type", "version", "supersedes", "createdAt", "migrated"} : e[field] = d[field]

\* A later register keeps the rows of an earlier one but for their marks, and
\* the frozen ones altogether.
Grows(old, new) ==
  /\ Len(old) <= Len(new)
  /\ \A i \in 1..Len(old) :
       /\ SameDocument(old[i], new[i])
       /\ new[i].active => old[i].active
       /\ old[i].deleted => new[i].deleted
       /\ Frozen(old[i]) => new[i] = old[i]

\* Unless an order stands in the way, no singleton type gets more current rows
\* than it had, or than one.
Few(old, new) ==
  ~material.issued =>
    \A t \in Singletons :
      \/ Cardinality(Active(new, t)) <= 1
      \/ Cardinality(Active(new, t)) <= Cardinality(Active(old, t))

\* The rows of a register.
LEMMA Rows ==
  ASSUME NEW docs \in Seq(Document)
  PROVE  /\ Len(docs) \in Nat
         /\ DOMAIN docs = 1..Len(docs)
         /\ \A i \in 1..Len(docs) : docs[i] \in Document
BY LenProperties, ElementOfSeq

\* A function over 1..n with values among the documents is a register.
LEMMA IsRegister ==
  ASSUME NEW n \in Nat, NEW f \in [1..n -> Document]
  PROVE  f \in Seq(Document) /\ Len(f) = n
<1>1. f \in Seq(Document)
  BY SeqDef
<1> QED
  BY <1>1, LenProperties

\* Registers that grow from each other.
LEMMA GrowsIsTransitive ==
  ASSUME NEW a \in Seq(Document), NEW b \in Seq(Document), NEW c \in Seq(Document),
         Grows(a, b), Grows(b, c)
  PROVE  Grows(a, c)
<1>1. Len(a) \in Nat /\ Len(b) \in Nat /\ Len(c) \in Nat
  BY Rows
<1>2. Len(a) <= Len(c)
  BY <1>1 DEF Grows
<1>3. ASSUME NEW i \in 1..Len(a)
      PROVE  /\ SameDocument(a[i], c[i])
             /\ c[i].active => a[i].active
             /\ a[i].deleted => c[i].deleted
             /\ Frozen(a[i]) => c[i] = a[i]
  <2>1. i \in 1..Len(b) /\ i \in 1..Len(c)
    BY <1>1 DEF Grows
  <2>3. /\ SameDocument(a[i], b[i])
        /\ b[i].active => a[i].active
        /\ a[i].deleted => b[i].deleted
        /\ Frozen(a[i]) => b[i] = a[i]
    BY DEF Grows
  <2>4. /\ SameDocument(b[i], c[i])
        /\ c[i].active => b[i].active
        /\ b[i].deleted => c[i].deleted
        /\ Frozen(b[i]) => c[i] = b[i]
    BY <2>1 DEF Grows
  <2>5. SameDocument(a[i], c[i])
    BY <2>3, <2>4 DEF SameDocument
  <2>6. Frozen(a[i]) => Frozen(b[i])
    BY <2>3 DEF Frozen, SameDocument
  <2> QED
    BY <2>3, <2>4, <2>5, <2>6
<1> QED
  BY <1>2, <1>3 DEF Grows

\* A register grows from itself.
LEMMA GrowsIsReflexive ==
  ASSUME NEW docs \in Seq(Document)
  PROVE  Grows(docs, docs)
<1>1. Len(docs) <= Len(docs)
  BY Rows
<1> QED
  BY <1>1 DEF Grows, SameDocument

\* The current rows of a register are finitely many.
LEMMA ActiveIsFinite ==
  ASSUME NEW docs \in Seq(Document), NEW t
  PROVE  IsFiniteSet(Active(docs, t)) /\ Cardinality(Active(docs, t)) \in Nat
<1>1. Active(docs, t) \subseteq 1..Len(docs) /\ Len(docs) \in Nat
  BY Rows DEF Active, Of
<1>2. IsFiniteSet(1..Len(docs))
  BY <1>1, FS_Interval
<1>3. IsFiniteSet(Active(docs, t))
  BY <1>1, <1>2, FS_Subset
<1> QED
  BY <1>3, FS_CardinalityType

\* Registers with no more current rows than each other.
LEMMA FewIsTransitive ==
  ASSUME NEW a \in Seq(Document), NEW b \in Seq(Document), NEW c \in Seq(Document),
         Few(a, b), Few(b, c)
  PROVE  Few(a, c)
<1> SUFFICES ASSUME ~material.issued, NEW t \in Singletons
             PROVE  \/ Cardinality(Active(c, t)) <= 1
                    \/ Cardinality(Active(c, t)) <= Cardinality(Active(a, t))
  BY DEF Few
<1>1. /\ Cardinality(Active(a, t)) \in Nat
      /\ Cardinality(Active(b, t)) \in Nat
      /\ Cardinality(Active(c, t)) \in Nat
  BY ActiveIsFinite
<1>2. /\ Cardinality(Active(b, t)) <= 1 \/ Cardinality(Active(b, t)) <= Cardinality(Active(a, t))
      /\ Cardinality(Active(c, t)) <= 1 \/ Cardinality(Active(c, t)) <= Cardinality(Active(b, t))
  BY DEF Few
<1> QED
  BY <1>1, <1>2

\* A register has no more current rows than itself.
LEMMA FewIsReflexive ==
  ASSUME NEW docs \in Seq(Document)
  PROVE  Few(docs, docs)
BY ActiveIsFinite DEF Few

\* nextVersionForType is above every version the type ever had.
LEMMA NextVersionIsNew ==
  ASSUME NEW docs \in Seq(Document), NEW t
  PROVE  /\ NextVersion(docs, t) \in Nat
         /\ \A j \in Of(docs, t) : docs[j].version < NextVersion(docs, t)
<1> DEFINE used == {docs[i].version : i \in Of(docs, t)}
           Bounded(k) == k <= Len(docs) => \E b \in Nat : \A i \in 1..k : docs[i].version <= b
           Reach == {k \in Nat : Bounded(k)}
<1>1. Len(docs) \in Nat /\ DOMAIN docs = 1..Len(docs) /\ \A i \in 1..Len(docs) : docs[i].version \in Nat
  BY Rows DEF Document
<1>2. Reach = Nat
  <2>1. 0 \in Reach
    OBVIOUS
  <2>2. ASSUME NEW k \in Nat, k \in Reach, k + 1 <= Len(docs)
        PROVE  \E b \in Nat : \A i \in 1..(k + 1) : docs[i].version <= b
    <3>1. PICK b \in Nat : \A i \in 1..k : docs[i].version <= b
      BY <1>1, <2>2
    <3>2. docs[k + 1].version \in Nat
      BY <1>1, <2>2
    <3>3. \A i \in 1..(k + 1) : i \in 1..k \/ i = k + 1
      OBVIOUS
    <3>4. \A i \in 1..(k + 1) : docs[i].version \in Nat
      BY <1>1, <2>2
    <3>5. CASE docs[k + 1].version <= b
      BY <3>1, <3>3, <3>5
    <3>6. CASE b <= docs[k + 1].version
      <4>1. \A i \in 1..(k + 1) : docs[i].version <= docs[k + 1].version
        BY <3>1, <3>2, <3>3, <3>4, <3>6
      <4> QED
        BY <3>2, <4>1
    <3>7. docs[k + 1].version <= b \/ b <= docs[k + 1].version
      BY <3>2
    <3> HIDE DEF Reach
    <3> QED
      BY <3>5, <3>6, <3>7
  <2>3. ASSUME NEW k \in Nat, k \in Reach
        PROVE  k + 1 \in Reach
    <3>1. k + 1 <= Len(docs) => \E b \in Nat : \A i \in 1..(k + 1) : docs[i].version <= b
      BY <2>2, <2>3
    <3> QED
      BY <3>1
  <2> QED
    BY <2>1, <2>3, Induction
<1>3. PICK b \in Nat : \A i \in 1..Len(docs) : docs[i].version <= b
  <2>1. Bounded(Len(docs))
    <3> HIDE DEF Bounded
    <3> QED
      BY <1>1, <1>2
  <2>2. Len(docs) <= Len(docs)
    BY <1>1
  <2> QED
    BY <2>1, <2>2
<1>4. used \in SUBSET Nat /\ \A n \in used : n <= b
  BY <1>1, <1>3 DEF Of
<1>5. CASE used = {}
  BY <1>5 DEF NextVersion
<1>6. CASE used # {}
  <2>1. \E v \in used : \A w \in used : w <= v
    BY <1>4, <1>6, GreatestNumber
  <2>2. PICK v \in used : (\A w \in used : w <= v) /\ NextVersion(docs, t) = 1 + v
    BY <1>6, <2>1 DEF NextVersion
  <2>3. v \in Nat /\ \A j \in Of(docs, t) : docs[j].version \in used /\ docs[j].version \in Nat
    BY <1>4
  <2>4. \A j \in Of(docs, t) : docs[j].version <= v
    BY <2>2, <2>3
  <2> HIDE DEF used
  <2> QED
    BY <2>2, <2>3, <2>4
<1> QED
  BY <1>5, <1>6

-----------------------------------------------------------------------------
(* One upload.                                                             *)

\* The rows an upload leaves.
LEMMA FiledRows ==
  ASSUME NEW docs \in Seq(Document), NEW t \in Types, NEW old \in {0} \cup Active(docs, t)
  PROVE  LET new == Filed(docs, t, old)
             n == Len(docs)
         IN  /\ new \in Seq(Document)
             /\ Len(new) = n + 1
             /\ \A i \in 1..n : new[i] = IF i = old THEN [docs[i] EXCEPT !.active = FALSE] ELSE docs[i]
             /\ new[n + 1] = [type |-> t, version |-> IF old = 0 THEN NextVersion(docs, t) ELSE docs[old].version + 1,
                              supersedes |-> old, active |-> TRUE, deleted |-> FALSE,
                              createdAt |-> n + 1, migrated |-> FALSE]
<1> DEFINE n == Len(docs)
           marked == [i \in 1..n |-> IF i = old THEN [docs[i] EXCEPT !.active = FALSE] ELSE docs[i]]
           version == IF old = 0 THEN NextVersion(docs, t) ELSE docs[old].version + 1
           row == [type |-> t, version |-> version, supersedes |-> old, active |-> TRUE, deleted |-> FALSE,
                   createdAt |-> n + 1, migrated |-> FALSE]
<1>1. n \in Nat /\ DOMAIN docs = 1..n /\ \A i \in 1..n : docs[i] \in Document
  BY Rows
<1>2. old \in Nat /\ (old # 0 => old \in 1..n)
  BY <1>1 DEF Active, Of
<1>3. version \in Nat
  <2>1. NextVersion(docs, t) \in Nat
    BY NextVersionIsNew
  <2>2. old # 0 => docs[old].version \in Nat
    BY <1>1, <1>2 DEF Document
  <2> QED
    BY <2>1, <2>2
<1>4. row \in Document
  <2> HIDE DEF version
  <2> QED
    BY <1>1, <1>2, <1>3 DEF Document
<1>5. marked \in [1..n -> Document]
  BY <1>1 DEF Document
<1>6. marked \in Seq(Document) /\ Len(marked) = n
  BY <1>1, <1>5, IsRegister
<1>7. Filed(docs, t, old) = Append(marked, row)
  BY <1>1 DEF Filed
<1> HIDE DEF row
<1>8. /\ Append(marked, row) \in Seq(Document)
      /\ Len(Append(marked, row)) = n + 1
      /\ \A i \in 1..n : Append(marked, row)[i] = marked[i]
      /\ Append(marked, row)[n + 1] = row
  <2> HIDE DEF marked
  <2> QED
    BY <1>4, <1>6, AppendProperties
<1> QED
  BY <1>1, <1>7, <1>8 DEF row

\* An upload keeps a register sound, and grows it unless it replaces a frozen row.
LEMMA FiledIsSound ==
  ASSUME NEW docs, Sound(docs), NEW t \in Types, NEW old \in {0} \cup Active(docs, t),
         old # 0 => ~Frozen(docs[old])
  PROVE  Sound(Filed(docs, t, old)) /\ Grows(docs, Filed(docs, t, old))
<1> DEFINE new == Filed(docs, t, old)
           n == Len(docs)
<1>1. docs \in Seq(Document) /\ n \in Nat /\ DOMAIN docs = 1..n /\ \A i \in 1..n : docs[i] \in Document
  BY Rows DEF Sound
<1>2. /\ new \in Seq(Document)
      /\ Len(new) = n + 1
      /\ \A i \in 1..n : new[i] = IF i = old THEN [docs[i] EXCEPT !.active = FALSE] ELSE docs[i]
      /\ new[n + 1] = [type |-> t, version |-> IF old = 0 THEN NextVersion(docs, t) ELSE docs[old].version + 1,
                       supersedes |-> old, active |-> TRUE, deleted |-> FALSE,
                       createdAt |-> n + 1, migrated |-> FALSE]
  BY <1>1, FiledRows
<1> HIDE DEF new
<1>3. old # 0 => old \in 1..n /\ docs[old].active /\ ~docs[old].deleted /\ docs[old].type = t
  BY <1>1 DEF Active, Of
<1>4. \A i \in 1..n : /\ SameDocument(docs[i], new[i])
                      /\ new[i].deleted = docs[i].deleted
                      /\ new[i].active => docs[i].active
                      /\ i = old => ~new[i].active
                      /\ i # old => new[i] = docs[i]
  <2> SUFFICES ASSUME NEW i \in 1..n
               PROVE  /\ SameDocument(docs[i], new[i])
                      /\ new[i].deleted = docs[i].deleted
                      /\ new[i].active => docs[i].active
                      /\ i = old => ~new[i].active
                      /\ i # old => new[i] = docs[i]
    OBVIOUS
  <2>1. CASE i = old
    <3>1. new[i] = [docs[i] EXCEPT !.active = FALSE] /\ docs[i] \in Document
      BY <1>1, <1>2, <2>1
    <3>2. SameDocument(docs[i], new[i]) /\ new[i].deleted = docs[i].deleted /\ ~new[i].active
      BY <3>1 DEF SameDocument, Document
    <3> QED
      BY <2>1, <3>2
  <2>2. CASE i # old
    BY <1>2, <2>2 DEF SameDocument
  <2> QED
    BY <2>1, <2>2
<1>5. \A i \in 1..(n + 1) : i \in 1..n \/ i = n + 1
  BY <1>1
<1>6. Grows(docs, new)
  BY <1>1, <1>2, <1>4 DEF Grows
<1>7. \A i \in 1..Len(new) : new[i].createdAt <= Len(new)
  <2>1. \A i \in 1..n : new[i].createdAt = docs[i].createdAt /\ docs[i].createdAt \in Nat /\ docs[i].createdAt <= n
    BY <1>1, <1>4 DEF SameDocument, Sound, Document
  <2>2. new[n + 1].createdAt = n + 1
    BY <1>2
  <2> QED
    BY <1>1, <1>2, <1>5, <2>1, <2>2
<1>8. Linear(new)
  <2>1. \A i \in 1..n : /\ new[i].supersedes = docs[i].supersedes /\ new[i].type = docs[i].type
                        /\ new[i].version = docs[i].version
                        /\ docs[i].supersedes \in Nat
    BY <1>1, <1>4 DEF SameDocument, Document
  <2>2. /\ new[n + 1].supersedes = old /\ new[n + 1].type = t
        /\ old # 0 => new[n + 1].version = docs[old].version + 1
    BY <1>2
  <2>3. ASSUME NEW i \in 1..n, docs[i].supersedes # 0
        PROVE  /\ docs[i].supersedes < i /\ docs[i].supersedes \in 1..n
               /\ docs[docs[i].supersedes].type = docs[i].type
               /\ docs[i].version = docs[docs[i].supersedes].version + 1
               /\ ~docs[docs[i].supersedes].active
               /\ docs[i].supersedes # old
               /\ \A j \in 1..n : docs[j].supersedes = docs[i].supersedes => j = i
    <3>1. /\ docs[i].supersedes < i
          /\ docs[docs[i].supersedes].type = docs[i].type
          /\ docs[i].version = docs[docs[i].supersedes].version + 1
          /\ ~docs[docs[i].supersedes].active
          /\ \A j \in 1..n : docs[j].supersedes = docs[i].supersedes => j = i
      BY <2>3 DEF Sound, Linear
    <3>2. docs[i].supersedes \in 1..n
      BY <1>1, <2>1, <2>3, <3>1
    <3>3. docs[i].supersedes # old
      BY <1>3, <2>3, <3>1
    <3> QED
      BY <3>1, <3>2, <3>3
  <2>4. ASSUME NEW i \in 1..(n + 1), new[i].supersedes # 0
        PROVE  /\ new[i].supersedes < i
               /\ new[new[i].supersedes].type = new[i].type
               /\ new[i].version = new[new[i].supersedes].version + 1
               /\ ~new[new[i].supersedes].active
               /\ \A j \in 1..(n + 1) : new[j].supersedes = new[i].supersedes => j = i
    <3>1. CASE i \in 1..n
      <4>1. new[i].supersedes = docs[i].supersedes /\ docs[i].supersedes \in 1..n
        BY <2>1, <2>3, <2>4, <3>1
      <4>2. ~new[docs[i].supersedes].active
        BY <1>4, <2>1, <2>3, <2>4, <3>1, <4>1
      <4>3. \A j \in 1..(n + 1) : new[j].supersedes = new[i].supersedes => j = i
        BY <1>5, <2>1, <2>2, <2>3, <2>4, <3>1, <4>1
      <4> QED
        BY <2>1, <2>3, <2>4, <3>1, <4>1, <4>2, <4>3
    <3>2. CASE i = n + 1
      <4>1. new[i].supersedes = old /\ old \in 1..n /\ old < i
        BY <1>1, <1>3, <2>2, <2>4, <3>2
      <4>2. new[old].type = t /\ new[old].version = docs[old].version /\ ~new[old].active
        BY <1>3, <1>4, <2>1, <4>1
      <4>3. \A j \in 1..n : new[j].supersedes # old
        BY <2>1, <2>3, <4>1
      <4> QED
        BY <1>5, <2>2, <3>2, <4>1, <4>2, <4>3
    <3> QED
      BY <1>5, <3>1, <3>2
  <2> QED
    BY <1>2, <2>4 DEF Linear
<1>9. Beside(new)
  <2>1. \A i \in 1..n : /\ new[i].supersedes = docs[i].supersedes /\ new[i].type = docs[i].type
                        /\ new[i].version = docs[i].version /\ new[i].createdAt = docs[i].createdAt
                        /\ docs[i].createdAt \in Nat /\ docs[i].createdAt <= n
    BY <1>1, <1>4 DEF SameDocument, Document, Sound
  <2>2. /\ new[n + 1].supersedes = old /\ new[n + 1].type = t /\ new[n + 1].createdAt = n + 1
        /\ old = 0 => new[n + 1].version = NextVersion(docs, t)
    BY <1>2
  <2>3. ASSUME NEW i \in 1..(n + 1), NEW j \in 1..(n + 1),
               new[i].supersedes = 0, new[i].type = new[j].type, new[j].createdAt < new[i].createdAt
        PROVE  new[j].version < new[i].version
    <3>1. CASE i \in 1..n
      <4>1. j \in 1..n
        BY <1>1, <1>5, <2>1, <2>2, <2>3, <3>1
      <4> QED
        BY <2>1, <2>3, <3>1, <4>1 DEF Sound, Beside
    <3>2. CASE i = n + 1
      <4>1. old = 0 /\ j \in 1..n /\ docs[j].type = t
        BY <1>1, <1>5, <2>1, <2>2, <2>3, <3>2
      <4>2. j \in Of(docs, t)
        BY <1>1, <4>1 DEF Of
      <4>3. docs[j].version < NextVersion(docs, t)
        BY <1>1, <4>2, NextVersionIsNew
      <4> QED
        BY <2>1, <2>2, <3>2, <4>1, <4>3
    <3> QED
      BY <1>5, <3>1, <3>2
  <2> QED
    BY <1>2, <2>3 DEF Beside
<1> QED
  BY <1>2, <1>6, <1>7, <1>8, <1>9 DEF Sound, new

\* An upload of a singleton type replaces a current row if there is one.
LEMMA AppendedIsFew ==
  ASSUME NEW docs, Sound(docs), NEW t \in Types, NEW named \in {0} \cup Active(docs, t),
         NEW new \in Appended(docs, t, named)
  PROVE  Few(docs, new)
<1> DEFINE n == Len(docs)
<1> SUFFICES ASSUME ~material.issued, NEW s \in Singletons
             PROVE  \/ Cardinality(Active(new, s)) <= 1
                    \/ Cardinality(Active(new, s)) <= Cardinality(Active(docs, s))
  BY DEF Few
<1>1. docs \in Seq(Document) /\ n \in Nat /\ DOMAIN docs = 1..n /\ \A i \in 1..n : docs[i] \in Document
  BY Rows DEF Sound
<1>2. PICK old \in Replaced(docs, t, named) : new = Filed(docs, t, old)
  BY DEF Appended
<1>3. /\ old \in {0} \cup Active(docs, t)
      /\ t \in Singletons /\ Active(docs, t) # {} => old \in Active(docs, t)
  <2>1. \A i : ~Frozen(docs[i])
    BY DEF Frozen
  <2>2. 0 \notin Active(docs, t)
    BY <1>1 DEF Active, Of
  <2> QED
    BY <1>2, <2>1, <2>2 DEF Replaced
<1>4. /\ new \in Seq(Document)
      /\ Len(new) = n + 1
      /\ \A i \in 1..n : new[i] = IF i = old THEN [docs[i] EXCEPT !.active = FALSE] ELSE docs[i]
      /\ new[n + 1].type = t /\ new[n + 1].active /\ ~new[n + 1].deleted
  <2> DEFINE version == IF old = 0 THEN NextVersion(docs, t) ELSE docs[old].version + 1
  <2>1. /\ new \in Seq(Document)
        /\ Len(new) = n + 1
        /\ \A i \in 1..n : new[i] = IF i = old THEN [docs[i] EXCEPT !.active = FALSE] ELSE docs[i]
        /\ new[n + 1] = [type |-> t, version |-> version, supersedes |-> old, active |-> TRUE,
                         deleted |-> FALSE, createdAt |-> n + 1, migrated |-> FALSE]
    BY <1>1, <1>2, <1>3, FiledRows
  <2> HIDE DEF version
  <2> QED
    BY <2>1
<1>5. DOMAIN new = 1..(n + 1) /\ \A i \in 1..(n + 1) : i \in 1..n \/ i = n + 1
  BY <1>1, <1>4, Rows
<1>6. \A i \in 1..n : /\ new[i].type = docs[i].type /\ new[i].deleted = docs[i].deleted
                      /\ new[i].active <=> (docs[i].active /\ i # old)
  <2> SUFFICES ASSUME NEW i \in 1..n
               PROVE  /\ new[i].type = docs[i].type /\ new[i].deleted = docs[i].deleted
                      /\ new[i].active <=> (docs[i].active /\ i # old)
    OBVIOUS
  <2>1. docs[i] \in Document
    BY <1>1
  <2>2. CASE i = old
    <3>1. new[i] = [docs[i] EXCEPT !.active = FALSE]
      BY <1>4, <2>2
    <3>2. /\ [docs[i] EXCEPT !.active = FALSE].type = docs[i].type
          /\ [docs[i] EXCEPT !.active = FALSE].deleted = docs[i].deleted
          /\ ~[docs[i] EXCEPT !.active = FALSE].active
      BY <2>1 DEF Document
    <3> QED
      BY <2>2, <3>1, <3>2
  <2>3. CASE i # old
    BY <1>4, <2>3
  <2> QED
    BY <2>2, <2>3
<1>7. IsFiniteSet(Active(docs, s)) /\ Cardinality(Active(docs, s)) \in Nat
  BY <1>1, ActiveIsFinite
<1>8. CASE s # t
  <2>1. \A i : i \in Active(new, s) <=> i \in Active(docs, s)
    BY <1>1, <1>3, <1>4, <1>5, <1>6, <1>8 DEF Active, Of
  <2>2. Active(new, s) = Active(docs, s)
    BY <2>1
  <2> QED
    BY <1>7, <2>2
<1>9. CASE s = t /\ Active(docs, s) = {}
  <2>1. \A i : i \in Active(new, s) <=> i = n + 1
    BY <1>1, <1>4, <1>5, <1>6, <1>9 DEF Active, Of
  <2>2. Active(new, s) = {n + 1}
    BY <2>1
  <2>3. Cardinality({n + 1}) = 1
    BY FS_Singleton
  <2> QED
    BY <2>2, <2>3
<1>10. CASE s = t /\ Active(docs, s) # {}
  <2>1. old \in Active(docs, s)
    BY <1>3, <1>10
  <2>2. n + 1 \notin Active(docs, s)
    BY <1>1 DEF Active, Of
  <2>3. \A i : i \in Active(new, s) <=> i \in (Active(docs, s) \ {old}) \cup {n + 1}
    BY <1>1, <1>4, <1>5, <1>6, <1>10, <2>2 DEF Active, Of
  <2>4. Active(new, s) = (Active(docs, s) \ {old}) \cup {n + 1}
    BY <2>3
  <2>5. /\ IsFiniteSet(Active(docs, s) \ {old})
        /\ Cardinality(Active(docs, s) \ {old}) = Cardinality(Active(docs, s)) - 1
    BY <1>7, <2>1, FS_RemoveElement
  <2>6. Cardinality((Active(docs, s) \ {old}) \cup {n + 1}) = Cardinality(Active(docs, s) \ {old}) + 1
    BY <2>2, <2>5, FS_AddElement
  <2> QED
    BY <1>7, <2>4, <2>5, <2>6
<1> QED
  BY <1>8, <1>9, <1>10

\* appendDocumentRow replaces no frozen row.
LEMMA AppendedIsSound ==
  ASSUME NEW docs, Sound(docs), NEW t \in Types, NEW named \in {0} \cup Active(docs, t),
         NEW new \in Appended(docs, t, named)
  PROVE  Sound(new) /\ Grows(docs, new)
<1>1. PICK old \in Replaced(docs, t, named) : new = Filed(docs, t, old)
  BY DEF Appended
<1>2. old \in {0} \cup Active(docs, t) /\ (old # 0 => ~Frozen(docs[old]))
  BY <1>1 DEF Replaced
<1> QED
  BY <1>1, <1>2, FiledIsSound

-----------------------------------------------------------------------------
(* The uploads of one update.                                              *)

\* The registers after the first k of the uploads, as AppendedAll defines them.
After(docs, inputs, f, n) ==
  f = [k \in 0..n |-> IF k = 0 THEN {docs} ELSE AppendedEach(f[k - 1], inputs[k])]

\* There is such a function.
LEMMA AfterExists ==
  ASSUME NEW docs, NEW inputs, NEW n \in Nat
  PROVE  \E f : After(docs, inputs, f, n)
<1> DEFINE Defined == {k \in Nat : \E f : After(docs, inputs, f, k)}
<1>1. 0 \in Defined
  <2>1. After(docs, inputs, [k \in 0..0 |-> {docs}], 0)
    BY DEF After
  <2> QED
    BY <2>1
<1>2. ASSUME NEW k \in Nat, k \in Defined
      PROVE  k + 1 \in Defined
  <2>1. PICK f : After(docs, inputs, f, k)
    BY <1>2
  <2> DEFINE g == [j \in 0..(k + 1) |-> IF j <= k THEN f[j]
                                        ELSE AppendedEach(f[k], inputs[k + 1])]
  <2>2. \A j \in 0..k : f[j] = IF j = 0 THEN {docs} ELSE AppendedEach(f[j - 1], inputs[j])
    BY <2>1 DEF After
  <2>3. \A j \in 0..(k + 1) :
          g[j] = IF j = 0 THEN {docs} ELSE AppendedEach(g[j - 1], inputs[j])
    <3>1. ASSUME NEW j \in 0..k
          PROVE  g[j] = IF j = 0 THEN {docs} ELSE AppendedEach(g[j - 1], inputs[j])
      <4>1. g[j] = f[j] /\ (j # 0 => g[j - 1] = f[j - 1])
        OBVIOUS
      <4> QED
        BY <2>2, <4>1
    <3>2. g[k + 1] = AppendedEach(g[k], inputs[k + 1])
      OBVIOUS
    <3>3. \A j \in 0..(k + 1) : j \in 0..k \/ j = k + 1
      OBVIOUS
    <3> HIDE DEF g
    <3> QED
      BY <3>1, <3>2, <3>3
  <2>4. After(docs, inputs, g, k + 1)
    BY <2>3 DEF After
  <2> QED
    BY <2>4
<1>3. Defined = Nat
  <2>1. Defined \in SUBSET Nat
    OBVIOUS
  <2> HIDE DEF Defined
  <2> QED
    BY <1>1, <1>2, <2>1, Induction
<1> QED
  BY <1>3

\* Every upload of an update keeps the register sound and grows it.
LEMMA AppendedAllIsSound ==
  ASSUME NEW docs, Sound(docs), NEW inputs \in Seq(Types), NEW new \in AppendedAll(docs, inputs)
  PROVE  Sound(new) /\ Grows(docs, new) /\ Few(docs, new)
<1> DEFINE n == Len(inputs)
           after[k \in 0..n] == IF k = 0 THEN {docs} ELSE AppendedEach(after[k - 1], inputs[k])
           Good == {k \in Nat : k <= n => \A d \in after[k] : Sound(d) /\ Grows(docs, d) /\ Few(docs, d)}
<1>1. n \in Nat /\ \A k \in 1..n : inputs[k] \in Types
  BY LenProperties, ElementOfSeq
<1>2. After(docs, inputs, after, n)
  <2>1. \E f : After(docs, inputs, f, n)
    BY <1>1, AfterExists
  <2>2. After(docs, inputs, CHOOSE f : After(docs, inputs, f, n), n)
    BY <2>1
  <2>3. after = CHOOSE f : After(docs, inputs, f, n)
    BY DEF After
  <2> QED
    BY <2>2, <2>3
<1>3. /\ after[0] = {docs}
      /\ \A k \in 1..n : after[k] = AppendedEach(after[k - 1], inputs[k])
  <2> HIDE DEF after
  <2>1. \A k \in 0..n : after[k] = IF k = 0 THEN {docs} ELSE AppendedEach(after[k - 1], inputs[k])
    BY <1>1, <1>2 DEF After
  <2> QED
    BY <1>1, <2>1
<1>4. new \in after[n]
  BY DEF AppendedAll
<1> HIDE DEF after
<1>5. 0 \in Good
  BY <1>3, GrowsIsReflexive, FewIsReflexive DEF Sound
<1>6. ASSUME NEW k \in Nat, k \in Good
      PROVE  k + 1 \in Good
  <2> SUFFICES ASSUME k + 1 <= n, NEW e \in after[k + 1]
               PROVE  Sound(e) /\ Grows(docs, e) /\ Few(docs, e)
    OBVIOUS
  <2>1. k + 1 \in 1..n /\ k <= n /\ (k + 1) - 1 = k
    BY <1>1
  <2>2. PICK d \in after[k] : e \in Appended(d, inputs[k + 1], 0)
    BY <1>3, <2>1 DEF AppendedEach
  <2>3. Sound(d) /\ Grows(docs, d) /\ Few(docs, d)
    BY <1>6, <2>1
  <2>4. Sound(e) /\ Grows(d, e) /\ Few(d, e)
    BY <1>1, <2>1, <2>2, <2>3, AppendedIsSound, AppendedIsFew
  <2> QED
    BY <2>3, <2>4, GrowsIsTransitive, FewIsTransitive DEF Sound
<1>7. Good = Nat
  <2>1. Good \in SUBSET Nat
    OBVIOUS
  <2> HIDE DEF Good
  <2> QED
    BY <1>5, <1>6, <2>1, Induction
<1> QED
  BY <1>1, <1>4, <1>7

-----------------------------------------------------------------------------
(* The other ways a register changes.                                      *)

\* Rows filed by one INSERT.
LEMMA BatchIsSound ==
  ASSUME NEW n \in Nat, NEW inputs \in [1..n -> Types], NEW migrated \in BOOLEAN
  PROVE  /\ Sound(Batch(inputs, migrated))
         /\ Len(Batch(inputs, migrated)) = n
         /\ \A i \in 1..n : Batch(inputs, migrated)[i] =
              [type |-> inputs[i], version |-> 1, supersedes |-> 0, active |-> TRUE, deleted |-> FALSE,
               createdAt |-> 1, migrated |-> migrated]
<1> DEFINE docs == Batch(inputs, migrated)
<1>1. docs = [i \in 1..n |-> [type |-> inputs[i], version |-> 1, supersedes |-> 0, active |-> TRUE,
                              deleted |-> FALSE, createdAt |-> 1, migrated |-> migrated]]
  BY DEF Batch
<1>2. docs \in [1..n -> Document]
  BY <1>1 DEF Document
<1>3. docs \in Seq(Document) /\ Len(docs) = n
  BY <1>2, IsRegister
<1> HIDE DEF docs
<1>4. \A i \in 1..n : docs[i].supersedes = 0 /\ docs[i].createdAt = 1 /\ 1 <= n
  BY <1>1
<1>5. Linear(docs) /\ Beside(docs) /\ \A i \in 1..Len(docs) : docs[i].createdAt <= Len(docs)
  BY <1>3, <1>4 DEF Linear, Beside
<1> QED
  BY <1>1, <1>3, <1>5 DEF Sound, docs

\* Deleting a document that is not frozen.
Removing(docs, i) == [docs EXCEPT ![i].deleted = TRUE, ![i].active = FALSE]

LEMMA RemovingIsSound ==
  ASSUME NEW docs, Sound(docs), NEW i \in DOMAIN docs, ~Frozen(docs[i])
  PROVE  Sound(Removing(docs, i)) /\ Grows(docs, Removing(docs, i)) /\ Few(docs, Removing(docs, i))
<1> DEFINE new == Removing(docs, i)
           n == Len(docs)
<1>1. docs \in Seq(Document) /\ n \in Nat /\ DOMAIN docs = 1..n /\ \A j \in 1..n : docs[j] \in Document
  BY Rows DEF Sound
<1>2. new \in [1..n -> Document]
  BY <1>1 DEF Removing, Document
<1>3. new \in Seq(Document) /\ Len(new) = n
  BY <1>1, <1>2, IsRegister
<1>4. \A j \in 1..n : /\ SameDocument(docs[j], new[j])
                      /\ new[j].active => docs[j].active
                      /\ docs[j].deleted => new[j].deleted
                      /\ j # i => new[j] = docs[j]
  <2> SUFFICES ASSUME NEW j \in 1..n
               PROVE  /\ SameDocument(docs[j], new[j])
                      /\ new[j].active => docs[j].active
                      /\ docs[j].deleted => new[j].deleted
                      /\ j # i => new[j] = docs[j]
    OBVIOUS
  <2>1. CASE j # i
    BY <1>1, <2>1 DEF Removing, SameDocument
  <2>2. CASE j = i
    <3>1. SameDocument(docs[j], new[j]) /\ ~new[j].active /\ new[j].deleted
      BY <1>1, <2>2 DEF Removing, SameDocument, Document
    <3> QED
      BY <2>2, <3>1
  <2> QED
    BY <2>1, <2>2
<1> HIDE DEF new
<1>5. Grows(docs, new)
  BY <1>1, <1>3, <1>4 DEF Grows
<1>6. \A j \in 1..n : /\ new[j].supersedes = docs[j].supersedes /\ new[j].type = docs[j].type
                      /\ new[j].version = docs[j].version /\ new[j].createdAt = docs[j].createdAt
                      /\ docs[j].supersedes \in Nat
  BY <1>1, <1>4 DEF SameDocument, Document
<1>7. Linear(new)
  <2>1. ASSUME NEW j \in 1..n, docs[j].supersedes # 0
        PROVE  docs[j].supersedes \in 1..n /\ ~docs[docs[j].supersedes].active
    BY <1>1, <1>6, <2>1 DEF Sound, Linear
  <2>2. \A j \in 1..n : docs[j].supersedes # 0 => ~new[docs[j].supersedes].active
    BY <1>4, <2>1
  <2> QED
    BY <1>3, <1>6, <2>1, <2>2 DEF Sound, Linear
<1>8. Beside(new) /\ \A j \in 1..Len(new) : new[j].createdAt <= Len(new)
  BY <1>3, <1>6 DEF Sound, Beside
<1>9. Few(docs, new)
  <2>1. ASSUME NEW t
        PROVE  Cardinality(Active(new, t)) <= Cardinality(Active(docs, t))
    <3>1. \A j : j \in Active(new, t) => j \in Active(docs, t)
      BY <1>1, <1>3, <1>4, <1>6, Rows DEF Active, Of
    <3>2. IsFiniteSet(Active(docs, t))
      BY <1>1, ActiveIsFinite
    <3>3. Active(new, t) \in SUBSET Active(docs, t)
      BY <3>1
    <3> QED
      BY <3>2, <3>3, FS_Subset
  <2> QED
    BY <2>1 DEF Few
<1> QED
  BY <1>3, <1>5, <1>7, <1>8, <1>9 DEF Sound, new

-----------------------------------------------------------------------------
(* The columns.                                                            *)

\* What syncLegacyDocumentColumns writes are URLs, each a number.
LEMMA SyncedType ==
  ASSUME NEW docs \in Seq(Document), NEW c \in Synced(docs)
  PROVE  c \in [Types -> SUBSET Nat]
<1>1. Len(docs) \in Nat /\ DOMAIN docs = 1..Len(docs)
  BY Rows
<1>2. \A t \in Types : \A i \in Active(docs, t) : Url(docs, i) \in Nat
  BY <1>1 DEF Active, Of, Url, Legacy
<1>3. \A t \in Types : \A i \in Latest(docs, t) : i \in Active(docs, t)
  BY DEF Latest
<1>4. \A t \in Types : \A show \in Shows(docs, t) : show \in SUBSET Nat
  BY <1>2, <1>3 DEF Shows
<1>5. c \in [Types -> UNION {Shows(docs, t) : t \in Types}] /\ \A t \in Types : c[t] \in Shows(docs, t)
  BY DEF Synced
<1> QED
  BY <1>4, <1>5

\* The columns of a material without rows hold URLs of theirs or nothing.
OnlyLegacy ==
  documents = <<>> =>
    \A t \in Types : column[t] \in {{}, {Legacy}} /\ (t \notin Columned => column[t] = {})

\* Turned into rows, they are what the rows show.
LEMMA BackfilledShows ==
  ASSUME NEW n \in Nat, NEW inputs \in [1..n -> Types], NEW c \in [Types -> SUBSET Nat],
         \A t \in Types : c[t] \in {{}, {Legacy}} /\ (t \notin Columned => c[t] = {}),
         \A t \in Types : c[t] # {} <=> \E i \in 1..n : inputs[i] = t
  PROVE  c \in Synced(Batch(inputs, TRUE))
<1> DEFINE docs == Batch(inputs, TRUE)
<1>1. /\ Sound(docs) /\ Len(docs) = n
      /\ \A i \in 1..n : docs[i] =
           [type |-> inputs[i], version |-> 1, supersedes |-> 0, active |-> TRUE, deleted |-> FALSE,
            createdAt |-> 1, migrated |-> TRUE]
  BY BatchIsSound
<1>2. DOMAIN docs = 1..n
  BY <1>1, Rows DEF Sound
<1> HIDE DEF docs
<1>3. \A t \in Types : Active(docs, t) = {i \in 1..n : inputs[i] = t}
  BY <1>1, <1>2 DEF Active, Of
<1>4. \A t \in Types : \A i \in Active(docs, t) : Url(docs, i) = Legacy /\ i \in Latest(docs, t)
  BY <1>1, <1>3 DEF Url, Latest
<1>5. ASSUME NEW t \in Types
      PROVE  c[t] \in Shows(docs, t)
  <2>1. CASE c[t] = {}
    <3>1. Active(docs, t) = {}
      BY <1>3, <2>1
    <3> QED
      BY <2>1, <3>1 DEF Shows
  <2>2. CASE c[t] # {}
    <3>1. PICK i \in Active(docs, t) : TRUE
      BY <1>3, <2>2
    <3>2. c[t] = {Legacy} /\ t \in Columned
      BY <2>2
    <3>3. {Url(docs, j) : j \in Active(docs, t)} = {Legacy}
      BY <1>4, <3>1
    <3>4. {Url(docs, i)} = {Legacy} /\ i \in Latest(docs, t)
      BY <1>4, <3>1
    <3> QED
      BY <3>1, <3>2, <3>3, <3>4 DEF Shows
  <2> QED
    BY <2>1, <2>2
<1>6. c \in [Types -> UNION {Shows(docs, t) : t \in Types}]
  BY <1>5
<1> QED
  BY <1>5, <1>6 DEF Synced, docs

\* Without rows nothing is shown.
LEMMA SyncedEmpty ==
  ASSUME NEW c \in Synced(<<>>)
  PROVE  \A t \in Types : c[t] = {}
<1>1. \A t : Active(<<>>, t) = {}
  BY DEF Active, Of
<1>2. \A t \in Types : Shows(<<>>, t) = {{}}
  BY <1>1 DEF Shows
<1> QED
  BY <1>2 DEF Synced

-----------------------------------------------------------------------------
(* The material and its register.                                          *)

IInv ==
  /\ material \in Row
  /\ Sound(documents)
  /\ column \in [Types -> SUBSET Nat]
  /\ OnlyLegacy
  /\ ColumnsShowCurrent

\* An update names documents of types there are.
LEMMA InputsAreTypes ==
  ASSUME NEW inputs \in Inputs
  PROVE  /\ inputs \in Seq(Types)
         /\ \E n \in Nat : inputs \in [1..n -> Types]
<1>1. PICK n \in 0..MaxInputs : inputs \in [1..n -> Types]
  BY DEF Inputs
<1>2. n \in Nat
  BY BoundsAssumption
<1> QED
  BY <1>1, <1>2, SeqDef

\* Columns written from the register, whatever it is.
LEMMA SyncedColumns ==
  ASSUME Sound(documents), column \in Synced(documents)
  PROVE  column \in [Types -> SUBSET Nat] /\ OnlyLegacy /\ ColumnsShowCurrent
<1>1. column \in [Types -> SUBSET Nat]
  BY SyncedType DEF Sound
<1>2. ASSUME documents = <<>>
      PROVE  \A t \in Types : column[t] = {}
  BY <1>2, SyncedEmpty
<1> QED
  BY <1>1, <1>2 DEF OnlyLegacy, ColumnsShowCurrent

\* Materials created, cloned, or older than the register.
LEMMA InitIInv == Init => IInv
<1> SUFFICES ASSUME Init PROVE IInv
  OBVIOUS
<1>1. material \in Row
  BY DEF Init, Row
<1>2. CASE \E inputs \in Inputs : documents = Batch(inputs, FALSE) /\ column \in Synced(documents)
  <2>1. PICK inputs \in Inputs : documents = Batch(inputs, FALSE) /\ column \in Synced(documents)
    BY <1>2
  <2>2. Sound(documents)
    BY <2>1, InputsAreTypes, BatchIsSound
  <2> QED
    BY <1>1, <2>1, <2>2, SyncedColumns DEF IInv
<1>3. CASE /\ documents = <<>>
           /\ \E filled \in SUBSET Columned : column = [t \in Types |-> IF t \in filled THEN {Legacy} ELSE {}]
  <2>1. PICK filled \in SUBSET Columned : column = [t \in Types |-> IF t \in filled THEN {Legacy} ELSE {}]
    BY <1>3
  <2>2. column \in [Types -> SUBSET Nat] /\ OnlyLegacy
    BY <2>1 DEF OnlyLegacy, Legacy
  <2>3. Sound(documents)
    BY <1>3 DEF Sound, Linear, Beside
  <2> QED
    BY <1>1, <1>3, <2>2, <2>3 DEF IInv, ColumnsShowCurrent
<1> QED
  BY <1>2, <1>3 DEF Init

\* A handler that leaves a register that is sound.
LEMMA RegisterStep ==
  ASSUME NEW docs, Register(docs), Sound(docs), Grows(documents, docs), Few(documents, docs), material' \in Row
  PROVE  IInv' /\ Grows(documents, documents') /\ Few(documents, documents')
<1>1. documents' = docs /\ column' \in Synced(docs)
  BY DEF Register
<1>2. Sound(documents')
  BY <1>1
<1>3. /\ column' \in [Types -> SUBSET Nat]
      /\ documents' = <<>> => \A t \in Types : column'[t] = {}
  BY <1>1, <1>2, SyncedType, SyncedEmpty DEF Sound
<1>4. OnlyLegacy' /\ ColumnsShowCurrent'
  BY <1>1, <1>3 DEF OnlyLegacy, ColumnsShowCurrent
<1> QED
  BY <1>1, <1>2, <1>3, <1>4 DEF IInv

\* A handler that leaves the register alone.
LEMMA RowStep ==
  ASSUME IInv, material' \in Row, UNCHANGED <<documents, column>>
  PROVE  IInv' /\ Grows(documents, documents') /\ Few(documents, documents')
<1>1. Sound(documents') /\ Grows(documents, documents') /\ Few(documents, documents')
  BY GrowsIsReflexive, FewIsReflexive DEF IInv, Sound
<1> QED
  BY <1>1 DEF IInv, OnlyLegacy, ColumnsShowCurrent

\* backfillLegacyDocuments files one row for each column that shows something.
LEMMA BackfilledRows ==
  ASSUME IInv, Backfill
  PROVE  \E n \in Nat : \E inputs \in [1..n -> Types] :
           /\ documents' = Batch(inputs, TRUE)
           /\ n # 0
           /\ \A t \in Types : column[t] # {} <=> \E k \in 1..n : inputs[k] = t
           /\ \A j, k \in 1..n : inputs[j] = inputs[k] => j = k
<1> DEFINE filled == {t \in Columned : column[t] # {}}
           n == Cardinality(filled)
<1>1. PICK inputs \in [1..n -> filled] : /\ \A t \in filled : \E k \in DOMAIN inputs : inputs[k] = t
                                        /\ documents' = Batch(inputs, TRUE)
  BY DEF Backfill
<1>2. documents = <<>> /\ filled # {}
  BY DEF Backfill
<1>3. IsFiniteSet(filled) /\ n \in Nat /\ filled \subseteq Types
  BY FS_Subset, FS_CardinalityType, TypesAssumption
<1>4. \A t \in Types : column[t] # {} <=> t \in filled
  BY <1>2 DEF IInv, OnlyLegacy
<1> HIDE DEF filled
<1>5. IsFiniteSet(1..n) /\ Cardinality(1..n) = n
  BY <1>3, FS_Interval
<1>6. inputs \in Surjection(1..n, filled)
  BY <1>1 DEF Surjection
<1>7. inputs \in Injection(1..n, filled)
  BY <1>5, <1>6, FS_SurjSameCardinalityImpliesInj
<1>8. n # 0
  BY <1>1, <1>2, <1>3
<1>9. inputs \in [1..n -> Types] /\ \A t \in filled : \E k \in 1..n : inputs[k] = t
  BY <1>1, <1>3
<1>10. \A j, k \in 1..n : inputs[j] = inputs[k] => j = k
  BY <1>7 DEF Injection, IsInjective
<1>11. \A t \in Types : column[t] # {} <=> \E k \in 1..n : inputs[k] = t
  BY <1>1, <1>4, <1>9
<1> HIDE DEF n
<1>12. n \in Nat /\ inputs \in [1..n -> Types]
  BY <1>3, <1>9
<1>13. documents' = Batch(inputs, TRUE)
  BY <1>1
<1> USE <1>12
<1> WITNESS n \in Nat
<1> WITNESS inputs \in [1..n -> Types]
<1> QED
  BY <1>8, <1>10, <1>11, <1>13

\* They are what the columns showed.
LEMMA BackfillStep ==
  ASSUME IInv, Backfill
  PROVE  IInv' /\ Grows(documents, documents') /\ Few(documents, documents')
<1>0. PICK n \in Nat : \E inputs \in [1..n -> Types] :
        /\ documents' = Batch(inputs, TRUE)
        /\ n # 0
        /\ \A t \in Types : column[t] # {} <=> \E k \in 1..n : inputs[k] = t
        /\ \A j, k \in 1..n : inputs[j] = inputs[k] => j = k
  BY BackfilledRows
<1>1. PICK inputs \in [1..n -> Types] :
        /\ documents' = Batch(inputs, TRUE)
        /\ n # 0
        /\ \A t \in Types : column[t] # {} <=> \E k \in 1..n : inputs[k] = t
        /\ \A j, k \in 1..n : inputs[j] = inputs[k] => j = k
  BY <1>0
<1>2. documents = <<>> /\ UNCHANGED <<material, column>>
  BY DEF Backfill
<1>3. Sound(documents') /\ Len(documents') = n
  BY <1>1, BatchIsSound
<1>4. Grows(documents, documents') /\ documents' # <<>>
  <2>1. documents' # <<>>
    BY <1>1, <1>3
  <2>2. Len(documents) = 0 /\ 1..Len(documents) = {} /\ 0 <= n
    BY <1>1, <1>2
  <2> QED
    BY <1>3, <2>1, <2>2 DEF Grows
<1>5. column \in Synced(documents')
  <2>1. /\ column \in [Types -> SUBSET Nat]
        /\ \A t \in Types : column[t] \in {{}, {Legacy}} /\ (t \notin Columned => column[t] = {})
    BY <1>2 DEF IInv, OnlyLegacy
  <2> QED
    BY <1>1, <2>1, BackfilledShows
<1>6. Few(documents, documents')
  <2>1. ASSUME NEW t
        PROVE  Cardinality(Active(documents', t)) <= 1
    <3>1. \A j, k \in Active(documents', t) : j = k
      <4>1. DOMAIN documents' = 1..n
        BY <1>3, Rows DEF Sound
      <4>2. \A k \in 1..n : documents'[k].type = inputs[k]
        <5>1. \A k \in 1..n : Batch(inputs, TRUE)[k].type = inputs[k]
          BY DEF Batch
        <5> QED
          BY <1>1, <5>1
      <4>3. \A k \in Active(documents', t) : k \in 1..n /\ inputs[k] = t
        BY <4>1, <4>2 DEF Active, Of
      <4> QED
        BY <1>1, <4>3
    <3>2. CASE Active(documents', t) = {}
      BY <3>2, FS_EmptySet
    <3>3. CASE Active(documents', t) # {}
      <4>1. PICK k \in Active(documents', t) : TRUE
        BY <3>3
      <4>2. Active(documents', t) = {k}
        BY <3>1, <4>1
      <4>3. Cardinality({k}) = 1
        BY FS_Singleton
      <4> QED
        BY <4>2, <4>3
    <3> QED
      BY <3>2, <3>3
  <2> QED
    BY <2>1 DEF Few
<1> QED
  BY <1>2, <1>3, <1>4, <1>5, <1>6 DEF IInv, OnlyLegacy, ColumnsShowCurrent

-----------------------------------------------------------------------------
(* One step of each handler.                                               *)

\* What a handler may do to the material: an issued order stays as it is.
RowKept ==
  material.issued =>
    /\ material'.issued /\ material'.issuedAt = material.issuedAt
    /\ material'.description = material.description
    /\ ~material'.deleted

\* Every handler keeps the invariant, grows the register and keeps the order.
LEMMA NextIInv ==
  ASSUME IInv, Next
  PROVE  IInv' /\ Grows(documents, documents') /\ Few(documents, documents') /\ RowKept
<1> USE DEF RowKept
<1>1. material \in Row /\ Sound(documents)
  BY DEF IInv
<1>2. CASE \E t \in Types, named \in 0..MaxDocuments : AddDocument(t, named)
  <2>1. PICK t \in Types, named \in 0..MaxDocuments : AddDocument(t, named)
    BY <1>2
  <2>2. PICK docs \in Appended(documents, t, named) : Register(docs)
    BY <2>1 DEF AddDocument
  <2>3. named \in {0} \cup Active(documents, t) /\ ~material.deleted /\ material' = material
    BY <2>1 DEF AddDocument
  <2>4. Sound(docs) /\ Grows(documents, docs) /\ Few(documents, docs)
    BY <1>1, <2>3, AppendedIsSound, AppendedIsFew
  <2> QED
    BY <1>1, <2>2, <2>3, <2>4, RegisterStep
<1>3. CASE \E i \in DOMAIN documents : RemoveDocument(i)
  <2>1. PICK i \in DOMAIN documents : RemoveDocument(i)
    BY <1>3
  <2>2. Register(Removing(documents, i)) /\ ~Frozen(documents[i]) /\ ~material.deleted /\ material' = material
    BY <2>1 DEF RemoveDocument, Removing
  <2> QED
    BY <1>1, <2>2, RemovingIsSound, RegisterStep
<1>4. CASE Backfill
  <2>1. ~material.deleted /\ material' = material
    BY <1>4 DEF Backfill
  <2> QED
    BY <1>4, <2>1, BackfillStep
<1>5. CASE \E description \in Descriptions, isSystem \in BOOLEAN, inputs \in Inputs :
             Update(description, isSystem, inputs)
  <2>1. PICK description \in Descriptions, isSystem \in BOOLEAN, inputs \in Inputs :
          Update(description, isSystem, inputs)
    BY <1>5
  <2>2. material' \in Row /\ RowKept
    BY <1>1, <2>1 DEF Update, Edited, Row
  <2>3. CASE inputs = <<>>
    BY <2>1, <2>2, <2>3, RowStep DEF Update
  <2>4. CASE inputs # <<>>
    <3>1. PICK docs \in AppendedAll(documents, inputs) : Register(docs)
      BY <2>1, <2>4 DEF Update
    <3>2. Sound(docs) /\ Grows(documents, docs) /\ Few(documents, docs)
      BY <1>1, InputsAreTypes, AppendedAllIsSound
    <3> QED
      BY <2>2, <3>1, <3>2, RegisterStep
  <2> QED
    BY <2>3, <2>4
<1>6. CASE \E description \in Descriptions : Import(description)
  <2>1. material' \in Row /\ RowKept /\ UNCHANGED <<documents, column>>
    BY <1>1, <1>6 DEF Import, Row
  <2> QED
    BY <2>1, RowStep
<1>7. CASE MarkPurchaseOrderIssued
  <2>1. material' \in Row /\ RowKept /\ UNCHANGED <<documents, column>>
    <3>1. PICK issuedAt \in 0..MaxDocuments :
            material' = [material EXCEPT !.issued = TRUE, !.issuedAt = issuedAt]
      BY <1>7 DEF MarkPurchaseOrderIssued
    <3>2. issuedAt \in Nat
      BY BoundsAssumption
    <3> QED
      BY <1>1, <1>7, <3>1, <3>2 DEF MarkPurchaseOrderIssued, Row
  <2> QED
    BY <2>1, RowStep
<1>8. CASE Enable
  <2>1. material' \in Row /\ RowKept /\ UNCHANGED <<documents, column>>
    BY <1>1, <1>8 DEF Enable, Row, Statuses
  <2> QED
    BY <2>1, RowStep
<1>9. CASE Disable
  <2>1. material' \in Row /\ RowKept /\ UNCHANGED <<documents, column>>
    BY <1>1, <1>9 DEF Disable, Row, Statuses
  <2> QED
    BY <2>1, RowStep
<1>10. CASE Obsolete
  <2>1. material' \in Row /\ RowKept /\ UNCHANGED <<documents, column>>
    BY <1>1, <1>10 DEF Obsolete, Row, Statuses
  <2> QED
    BY <2>1, RowStep
<1>11. CASE Remove
  <2>1. material' \in Row /\ RowKept /\ UNCHANGED <<documents, column>>
    BY <1>1, <1>11 DEF Remove, CanRemove, Removed, Row, Statuses
  <2> QED
    BY <2>1, RowStep
<1> QED
  BY <1>2, <1>3, <1>4, <1>5, <1>6, <1>7, <1>8, <1>9, <1>10, <1>11 DEF Next

\* The invariant holds throughout.
LEMMA Inductive == Spec => []IInv
<1>1. IInv /\ UNCHANGED vars => IInv'
  BY DEF IInv, vars, OnlyLegacy, ColumnsShowCurrent
<1>2. IInv /\ [Next]_vars => IInv'
  BY <1>1, NextIInv
<1> QED
  BY <1>2, InitIInv, PTL DEF Spec

-----------------------------------------------------------------------------
(* The theorems.                                                           *)

\* Type correctness: the rows MaterialService writes stay rows of their entities.
THEOREM TypeCorrect == Spec => []TypeOK
<1>1. IInv => TypeOK
  BY DEF IInv, Sound, TypeOK
<1> QED
  BY <1>1, Inductive, PTL

\* appendDocumentRow never forks a chain nor leaves a replaced document current,
\* for any register and any order of uploads, deletions and purchase orders.
THEOREM ChainsAlwaysLinear == Spec => []ChainsAreLinear
<1>1. IInv => ChainsAreLinear
  <2> SUFFICES ASSUME IInv PROVE ChainsAreLinear
    OBVIOUS
  <2>1. DOMAIN documents = 1..Len(documents) /\ Linear(documents)
    BY Rows DEF IInv, Sound
  <2> QED
    BY <2>1 DEF ChainsAreLinear, Linear
<1> QED
  BY <1>1, Inductive, PTL

\* nextVersionForType never gives out a number its type has had, deleted rows
\* included.
THEOREM BesideOthersAlwaysNew == Spec => []BesideOthersIsNew
<1>1. IInv => BesideOthersIsNew
  <2> SUFFICES ASSUME IInv PROVE BesideOthersIsNew
    OBVIOUS
  <2>1. DOMAIN documents = 1..Len(documents) /\ Beside(documents)
    BY Rows DEF IInv, Sound
  <2> QED
    BY <2>1 DEF BesideOthersIsNew, Beside
<1> QED
  BY <1>1, Inductive, PTL

\* syncLegacyDocumentColumns is called wherever it has to be.
THEOREM ColumnsAlwaysShowCurrent == Spec => []ColumnsShowCurrent
<1>1. IInv => ColumnsShowCurrent
  BY DEF IInv
<1> QED
  BY <1>1, Inductive, PTL

\* No handler takes back what a document row says.
THEOREM HistoryAlwaysStays == Spec => HistoryStays
<1>1. IInv /\ [Next]_vars =>
        [\A i \in DOMAIN documents :
           /\ i \in DOMAIN documents'
           /\ \A field \in {"type", "version", "supersedes", "createdAt", "migrated"} :
                documents'[i][field] = documents[i][field]
           /\ documents'[i].active => documents[i].active
           /\ documents[i].deleted => documents'[i].deleted]_vars
  <2> SUFFICES ASSUME IInv, Next, NEW i \in DOMAIN documents
               PROVE  /\ i \in DOMAIN documents'
                      /\ \A field \in {"type", "version", "supersedes", "createdAt", "migrated"} :
                           documents'[i][field] = documents[i][field]
                      /\ documents'[i].active => documents[i].active
                      /\ documents[i].deleted => documents'[i].deleted
    OBVIOUS
  <2>1. Grows(documents, documents') /\ IInv'
    BY NextIInv
  <2>2. /\ Len(documents) \in Nat /\ DOMAIN documents = 1..Len(documents)
        /\ Len(documents') \in Nat /\ DOMAIN documents' = 1..Len(documents')
    BY <2>1, Rows DEF IInv, Sound
  <2> QED
    BY <2>1, <2>2 DEF Grows, SameDocument
<1> QED
  BY <1>1, Inductive, PTL DEF Spec, HistoryStays

\* What isDocumentFrozen, stripPoLockedFields and assertNotPoLocked guard stays,
\* once a purchase order is issued.
THEOREM PricedAgainstAlwaysStays == Spec => PricedAgainstStays
<1> DEFINE Kept == material.issued =>
                     /\ material'.issued /\ material'.issuedAt = material.issuedAt
                     /\ material'.description = material.description
                     /\ ~material'.deleted
                     /\ \A i \in DOMAIN documents :
                          documents[i].createdAt <= material.issuedAt => documents'[i] = documents[i]
<1>1. IInv /\ [Next]_vars => [Kept]_vars
  <2> SUFFICES ASSUME IInv, Next, material.issued PROVE Kept
    OBVIOUS
  <2>1. Grows(documents, documents') /\ RowKept
    BY NextIInv
  <2>2. DOMAIN documents = 1..Len(documents)
    BY Rows DEF IInv, Sound
  <2>3. \A i \in DOMAIN documents :
          documents[i].createdAt <= material.issuedAt => documents'[i] = documents[i]
    BY <2>1, <2>2 DEF Grows, Frozen
  <2> QED
    BY <2>1, <2>3 DEF RowKept
<1> QED
  BY <1>1, Inductive, PTL DEF Spec, PricedAgainstStays

\* Unless an order froze one, a singleton type gets no second current document,
\* however many an update files.
THEOREM SingletonsAlwaysStaySingle == Spec => SingletonsStaySingle
<1> DEFINE Single == ~material.issued =>
                       \A t \in Singletons :
                         \/ Cardinality(Active(documents', t)) <= 1
                         \/ Cardinality(Active(documents', t)) <= Cardinality(Active(documents, t))
<1>1. IInv /\ [Next]_vars => [Single]_vars
  <2> SUFFICES ASSUME IInv, Next PROVE Single
    OBVIOUS
  <2> QED
    BY NextIInv DEF Few
<1> QED
  BY <1>1, Inductive, PTL DEF Spec, SingletonsStaySingle

=============================================================================
