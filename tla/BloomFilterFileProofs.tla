------------------------- MODULE BloomFilterFileProofs -------------------------
(***************************************************************************)
(* Theorems about the file of a Bloom filter, for any number of processes  *)
(* that save to it, load it and crash, and for every size of the bitmap.   *)
(***************************************************************************)
EXTENDS BloomFilterFile, SequenceTheorems, FiniteSetTheorems, TLAPS

-------------------------------------------------------------------------------
(* Words and bits *)

Unit == ByteBits * WordBytes

WordCount == Cardinality(Words)

LEMMA WordOfBit ==
  \A b \in Nat : /\ WordOf(b) \in Nat
                 /\ Unit * WordOf(b) <= b
                 /\ b < Unit * (WordOf(b) + 1)
<1>1. Unit \in Nat \ {0}
  BY FileAssumption DEF Unit
<1> QED BY <1>1 DEF WordOf, Unit

\* Multiplication by a positive factor keeps the order.
LEMMA FactorOrder ==
  ASSUME NEW u \in Nat \ {0}, NEW x \in Nat, NEW y \in Nat
  PROVE  u * x < u * y <=> x < y
<1>1. ASSUME NEW a \in Nat, NEW b \in Nat, a < b PROVE u * a < u * b
  <2> DEFINE d == b - a
  <2>1. d \in Nat \ {0} /\ b = a + d
    BY <1>1
  <2> HIDE DEF d
  <2>2. u * (a + d) = u * a + u * d
    BY <2>1
  <2>3. u * d > 0 /\ u * a \in Nat /\ u * d \in Nat
    BY <2>1
  <2> QED BY <2>1, <2>2, <2>3
<1>2. CASE x < y
  BY <1>1, <1>2
<1>3. CASE x = y
  BY <1>3
<1>4. CASE y < x
  <2>1. u * y < u * x
    BY <1>1, <1>4
  <2> QED BY <1>4, <2>1
<1> QED BY <1>2, <1>3, <1>4

LEMMA WordsAreCounted ==
  /\ WordCount \in Nat \ {0}
  /\ Words = 0..WordCount - 1
  /\ \A b \in Bits : WordOf(b) \in Words
<1> DEFINE m == bfsize - 1
           n == WordOf(m) + 1
<1>1. Unit \in Nat \ {0} /\ m \in Nat /\ Bits = 0..m
  BY FileAssumption DEF Unit, Bits
<1> HIDE DEF m
<1>2. WordOf(m) \in Nat /\ n \in Nat \ {0} /\ Unit * WordOf(m) <= m /\ m < Unit * n
  <2>1. WordOf(m) \in Nat /\ Unit * WordOf(m) <= m /\ m < Unit * (WordOf(m) + 1)
    BY <1>1, WordOfBit
  <2> QED BY <2>1
<1> HIDE DEF n
<1>3. ASSUME NEW b \in Bits PROVE WordOf(b) \in 0..n - 1
  <2>1. b \in Nat /\ b <= m
    BY <1>1
  <2>2. WordOf(b) \in Nat /\ Unit * WordOf(b) <= b
    BY <2>1, WordOfBit
  <2>3. Unit * WordOf(b) \in Nat /\ Unit * n \in Nat
    BY <1>1, <1>2, <2>2
  <2>4. Unit * WordOf(b) < Unit * n
    BY <1>1, <1>2, <2>1, <2>2, <2>3
  <2>5. WordOf(b) < n
    BY <1>1, <1>2, <2>2, <2>4, FactorOrder
  <2> QED BY <1>2, <2>2, <2>5
<1>4. ASSUME NEW w \in 0..n - 1 PROVE \E b \in Bits : WordOf(b) = w
  <2> DEFINE b == Unit * w
  <2>1. w \in Nat /\ w <= WordOf(m) /\ b \in Nat
    BY <1>1, <1>2 DEF n
  <2>2. ~(WordOf(m) < w) /\ Unit * WordOf(m) \in Nat
    BY <1>1, <1>2, <2>1
  <2>3. ~(Unit * WordOf(m) < b)
    BY <1>1, <1>2, <2>1, <2>2, FactorOrder
  <2>4. b <= m
    BY <1>1, <1>2, <2>1, <2>2, <2>3
  <2>5. WordOf(b) \in Nat /\ Unit * WordOf(b) <= b /\ b < Unit * (WordOf(b) + 1)
    BY <2>1, WordOfBit
  <2>6. ~(w < WordOf(b))
    <3>1. Unit * WordOf(b) \in Nat
      BY <1>1, <2>5
    <3>2. ~(b < Unit * WordOf(b))
      BY <2>1, <2>5, <3>1
    <3> QED BY <1>1, <2>1, <2>5, <3>2, FactorOrder
  <2>7. w < WordOf(b) + 1
    <3>1. WordOf(b) + 1 \in Nat
      BY <2>5
    <3> QED BY <1>1, <2>1, <2>5, <3>1, FactorOrder
  <2> QED BY <1>1, <2>1, <2>4, <2>5, <2>6, <2>7
<1>5. Words = 0..n - 1
  BY <1>3, <1>4 DEF Words
<1>6. Cardinality(0..n - 1) = n
  BY <1>2, FS_Interval
<1> QED BY <1>2, <1>3, <1>5, <1>6 DEF WordCount

-------------------------------------------------------------------------------
(* The invariant *)

\* Where a process is in the file, and that what it loads or writes is there.
Positions ==
  \A p \in Procs :
    /\ pc[p] \notin {"load", "write"} => pos[p] = 0
    /\ pc[p] = "load" => pos[p] \in Words
    /\ pc[p] \in {"reading", "merged", "write"} => exists

OneWriter == \A p, q \in writer : p = q

\* Nobody saves beside another.
OneSaver ==
  \A p, q \in Procs : pc[p] \in Saving /\ pc[q] \in Saving => p = q

\* What a saver is going to write has all whole words of its bitmap and of
\* the file, ...
MergesAll ==
  \A p \in Procs : pc[p] \in {"reading", "merged", "created", "write"} =>
    WholeWords(disk \cup bitmap[p]) \subseteq res[p]

\* ... and is in the file as far as it was written.
WrittenSoFar ==
  \A p \in Procs : pc[p] = "write" =>
    \A b \in WholeWords(res[p]) : WordOf(b) < pos[p] => b \in disk

\* A loading process has what it is owed as far as it has read, and what it
\* has still to read was saved before it started.
LoadedSoFar ==
  \A p \in Procs : pc[p] # "down" =>
    \A k \in owed[p] : \A b \in BitsOf(k) :
      /\ b \in WholeWords(saved)
      /\ pc[p] = "load" /\ WordOf(b) < pos[p] => b \in bitmap[p]
      /\ pc[p] # "load" => b \in bitmap[p]

\* As long as no two saves overlap.
InOrder ==
  ~overlapped =>
    OneSaver /\ MergesAll /\ WrittenSoFar /\ LoadedSoFar /\ SavesAccumulate

IInv == TypeOK /\ OneWriter /\ Positions /\ InOrder

-------------------------------------------------------------------------------
(* Steps *)

\* What a process may do.
Step(p) ==
  \/ Start(p) \/ LoadWord(p) \/ flush(p) \/ Stop(p) \/ Save(p)
  \/ \E key \in Keys : add(p, key)
  \/ SaveStep(p)

LEMMA BitsOfKeys == \A k \in Keys : BitsOf(k) \subseteq Bits
<1> SUFFICES ASSUME NEW k \in Keys PROVE BitsOf(k) \subseteq Bits
  OBVIOUS
<1>1. Hashes[k] \in Seq(Bits)
  BY FileAssumption
<1> QED BY <1>1, LenProperties, ElementOfSeq DEF BitsOf, Range

\* A set of equal elements counts one at most.
LEMMA OneCounts ==
  ASSUME NEW S, \A x, y \in S : x = y
  PROVE  Cardinality(S) <= 1
<1>1. CASE S = {}
  BY <1>1, FS_EmptySet
<1>2. CASE S # {}
  <2>1. PICK x \in S : TRUE
    BY <1>2
  <2>2. S = {x}
    BY <2>1
  <2> QED BY <2>2, FS_Singleton
<1> QED BY <1>1, <1>2

LEMMA TypeStep ==
  ASSUME TypeOK, OneWriter, Positions, NEW p \in Procs, Step(p)
  PROVE  TypeOK'
<1> USE BitsOfKeys, WordsAreCounted
       DEF TypeOK, Places, Saving, file, locks, histories, WordCount
<1>1. CASE Start(p)
  BY <1>1 DEF Start
<1>2. CASE LoadWord(p)
  <2>1. bitmap' \in [Procs -> SUBSET Bits]
    BY <1>2 DEF LoadWord, InWord
  <2>2. pc' \in [Procs -> Places]
    BY <1>2 DEF LoadWord
  <2>3. pos' \in [Procs -> 0..Cardinality(Words)]
    <3>1. /\ pos \in [Procs -> 0..WordCount] /\ 0 \in 0..WordCount
          /\ \A w \in Words : w \in 0..WordCount
      OBVIOUS
    <3> HIDE DEF TypeOK, WordCount
    <3>2. pos' \in [Procs -> 0..WordCount]
      BY <1>2, <3>1 DEF LoadWord
    <3> QED BY <3>2 DEF WordCount
  <2> QED BY <2>1, <2>2, <2>3, <1>2 DEF LoadWord
<1>3. CASE flush(p)
  BY <1>3 DEF flush
<1>4. CASE Stop(p)
  BY <1>4, OneCounts DEF Stop, OneWriter
<1>5. CASE Save(p)
  <2>1. overlapped' \in BOOLEAN
    <3> HIDE DEF TypeOK
    <3> QED BY <1>5 DEF Save
  <2>2. saves' \in 0..MaxSaves
    BY <1>5, FileAssumption DEF Save, TypeOK
  <2>3. pc' \in [Procs -> Places]
    BY <1>5 DEF Save
  <2> QED BY <2>1, <2>2, <2>3, <1>5 DEF Save
<1>6. CASE OpenNew(p)
  BY <1>6 DEF OpenNew
<1>7. CASE Create(p)
  BY <1>7 DEF Create
<1>8. CASE OpenOld(p)
  BY <1>8 DEF OpenOld, Merged, WholeWords
<1>9. CASE Unlock(p)
  BY <1>9 DEF Unlock
<1>10. CASE LockToWrite(p)
  <2>1. Cardinality({p}) <= 1
    BY OneCounts
  <2> QED BY <2>1, <1>10 DEF LockToWrite
<1>11. CASE WriteWord(p)
  <2>1. disk' \subseteq Bits /\ exists'
    BY <1>11 DEF WriteWord, InWord, TypeOK, Positions
  <2>2. pos' \in [Procs -> 0..Cardinality(Words)]
    BY <1>11, WordsAreCounted DEF WriteWord, TypeOK, WordCount
  <2> QED BY <2>1, <2>2, <1>11 DEF WriteWord, InWord
<1>12. CASE Written(p)
  <2>1. Cardinality({}) <= 1
    BY FS_EmptySet
  <2>2. saved' \subseteq Bits
    BY <1>12 DEF Written, TypeOK
  <2> QED BY <2>1, <2>2, <1>12 DEF Written
<1>13. ASSUME NEW key \in Keys, add(p, key) PROVE TypeOK'
  <2>1. bitmap' \in [Procs -> SUBSET Bits] /\ cbf' \in [Procs -> SUBSET Bits]
    <3>1. CASE CBF
      BY <1>13, <3>1, BitsOfKeys DEF add, TypeOK
    <3>2. CASE ~CBF
      BY <1>13, <3>2, BitsOfKeys DEF add, TypeOK
    <3> QED BY <3>1, <3>2
  <2> QED BY <2>1, <1>13 DEF add
<1> QED BY <1>1, <1>2, <1>3, <1>4, <1>5, <1>6, <1>7, <1>8, <1>9, <1>10, <1>11, <1>12, <1>13
         DEF Step, SaveStep

LEMMA PositionsStep ==
  ASSUME TypeOK, Positions, NEW p \in Procs, Step(p)
  PROVE  Positions'
<1> USE WordsAreCounted
       DEF TypeOK, Positions, Places, Saving, file, locks, histories, WordCount
<1>1. CASE Start(p)
  BY <1>1 DEF Start
<1>2. CASE LoadWord(p)
  BY <1>2 DEF LoadWord
<1>3. CASE flush(p)
  BY <1>3 DEF flush
<1>4. CASE Stop(p)
  BY <1>4 DEF Stop
<1>5. CASE Save(p)
  BY <1>5 DEF Save
<1>6. CASE OpenNew(p)
  BY <1>6 DEF OpenNew
<1>7. CASE Create(p)
  BY <1>7 DEF Create
<1>8. CASE OpenOld(p)
  BY <1>8 DEF OpenOld
<1>9. CASE Unlock(p)
  BY <1>9 DEF Unlock
<1>10. CASE LockToWrite(p)
  BY <1>10 DEF LockToWrite
<1>11. CASE WriteWord(p)
  BY <1>11 DEF WriteWord
<1>12. CASE Written(p)
  BY <1>12 DEF Written
<1>13. ASSUME NEW key \in Keys, add(p, key) PROVE Positions'
  BY <1>13 DEF add
<1> QED BY <1>1, <1>2, <1>3, <1>4, <1>5, <1>6, <1>7, <1>8, <1>9, <1>10, <1>11, <1>12, <1>13
         DEF Step, SaveStep

LEMMA OneWriterStep ==
  ASSUME OneWriter, NEW p \in Procs, Step(p)
  PROVE  OneWriter'
<1>1. writer' \subseteq writer \/ writer' = {p}
  BY DEF Step, SaveStep, Start, LoadWord, flush, Stop, Save, add, OpenNew, Create,
         OpenOld, Unlock, LockToWrite, WriteWord, Written, locks
<1> QED BY <1>1 DEF OneWriter

\* Saves that have overlapped have overlapped for ever.
LEMMA OverlapStays ==
  ASSUME NEW p \in Procs, Step(p)
  PROVE  overlapped => overlapped'
BY DEF Step, SaveStep, Start, LoadWord, flush, Stop, Save, add, OpenNew, Create,
       OpenOld, Unlock, LockToWrite, WriteWord, Written, histories

LEMMA OneSaverStep ==
  ASSUME TypeOK, Positions, InOrder, ~overlapped, NEW p \in Procs, Step(p), ~overlapped'
  PROVE  OneSaver'
<1> USE DEF TypeOK, Places, Saving, histories, InOrder, OneSaver
<1>1. CASE Start(p)
  BY <1>1 DEF Start
<1>2. CASE LoadWord(p)
  BY <1>2 DEF LoadWord
<1>3. CASE flush(p)
  BY <1>3 DEF flush
<1>4. CASE Stop(p)
  BY <1>4 DEF Stop
<1>5. CASE Save(p)
  BY <1>5 DEF Save
<1>6. CASE OpenNew(p)
  BY <1>6 DEF OpenNew
<1>7. CASE Create(p)
  BY <1>7 DEF Create
<1>8. CASE OpenOld(p)
  BY <1>8 DEF OpenOld
<1>9. CASE Unlock(p)
  BY <1>9 DEF Unlock
<1>10. CASE LockToWrite(p)
  BY <1>10 DEF LockToWrite
<1>11. CASE WriteWord(p)
  BY <1>11 DEF WriteWord
<1>12. CASE Written(p)
  BY <1>12 DEF Written
<1>13. ASSUME NEW key \in Keys, add(p, key) PROVE OneSaver'
  BY <1>13 DEF add
<1> QED BY <1>1, <1>2, <1>3, <1>4, <1>5, <1>6, <1>7, <1>8, <1>9, <1>10, <1>11, <1>12, <1>13
         DEF Step, SaveStep

LEMMA MergesAllStep ==
  ASSUME TypeOK, Positions, InOrder, ~overlapped, NEW p \in Procs, Step(p), ~overlapped'
  PROVE  MergesAll'
<1> USE DEF TypeOK, Places, Saving, file, histories, InOrder, MergesAll
<1>1. CASE Start(p)
  BY <1>1 DEF Start
<1>2. CASE LoadWord(p)
  BY <1>2 DEF LoadWord
<1>3. CASE flush(p)
  BY <1>3 DEF flush
<1>4. CASE Stop(p)
  BY <1>4 DEF Stop
<1>5. CASE Save(p)
  BY <1>5 DEF Save
<1>6. CASE OpenNew(p)
  BY <1>6 DEF OpenNew, WholeWords
<1>7. CASE Create(p)
  BY <1>7 DEF Create
<1>8. CASE OpenOld(p)
  BY <1>8 DEF OpenOld, Merged
<1>9. CASE Unlock(p)
  BY <1>9 DEF Unlock
<1>10. CASE LockToWrite(p)
  BY <1>10 DEF LockToWrite
<1>11. CASE WriteWord(p)
  BY <1>11 DEF WriteWord, OneSaver, WholeWords, InWord
<1>12. CASE Written(p)
  BY <1>12 DEF Written
<1>13. ASSUME NEW key \in Keys, add(p, key) PROVE MergesAll'
  BY <1>13 DEF add
<1> QED BY <1>1, <1>2, <1>3, <1>4, <1>5, <1>6, <1>7, <1>8, <1>9, <1>10, <1>11, <1>12, <1>13
         DEF Step, SaveStep

LEMMA WrittenStep ==
  ASSUME TypeOK, Positions, InOrder, ~overlapped, NEW p \in Procs, Step(p), ~overlapped'
  PROVE  WrittenSoFar'
<1> USE DEF TypeOK, Places, Saving, file, histories, InOrder, WrittenSoFar
<1>1. CASE Start(p)
  BY <1>1 DEF Start
<1>2. CASE LoadWord(p)
  BY <1>2 DEF LoadWord
<1>3. CASE flush(p)
  BY <1>3 DEF flush
<1>4. CASE Stop(p)
  BY <1>4 DEF Stop
<1>5. CASE Save(p)
  BY <1>5 DEF Save
<1>6. CASE OpenNew(p)
  BY <1>6 DEF OpenNew
<1>7. CASE Create(p)
  BY <1>7 DEF Create
<1>8. CASE OpenOld(p)
  BY <1>8 DEF OpenOld
<1>9. CASE Unlock(p)
  BY <1>9 DEF Unlock
<1>10. CASE LockToWrite(p)
  BY <1>10, WordsAreCounted DEF LockToWrite, Positions, WholeWords
<1>11. CASE WriteWord(p)
  BY <1>11, WordsAreCounted DEF WriteWord, OneSaver, WholeWords, InWord
<1>12. CASE Written(p)
  BY <1>12 DEF Written
<1>13. ASSUME NEW key \in Keys, add(p, key) PROVE WrittenSoFar'
  BY <1>13 DEF add
<1> QED BY <1>1, <1>2, <1>3, <1>4, <1>5, <1>6, <1>7, <1>8, <1>9, <1>10, <1>11, <1>12, <1>13
         DEF Step, SaveStep

LEMMA AccumulateStep ==
  ASSUME TypeOK, Positions, InOrder, ~overlapped, NEW p \in Procs, Step(p), ~overlapped'
  PROVE  SavesAccumulate'
<1> USE DEF file, histories, InOrder, SavesAccumulate
<1>1. CASE Start(p)
  BY <1>1 DEF Start
<1>2. CASE LoadWord(p)
  BY <1>2 DEF LoadWord
<1>3. CASE flush(p)
  BY <1>3 DEF flush
<1>4. CASE Stop(p)
  BY <1>4 DEF Stop
<1>5. CASE Save(p)
  BY <1>5 DEF Save
<1>6. CASE OpenNew(p)
  BY <1>6 DEF OpenNew
<1>7. CASE Create(p)
  BY <1>7 DEF Create
<1>8. CASE OpenOld(p)
  BY <1>8 DEF OpenOld
<1>9. CASE Unlock(p)
  BY <1>9 DEF Unlock
<1>10. CASE LockToWrite(p)
  BY <1>10 DEF LockToWrite
<1>11. CASE WriteWord(p)
  BY <1>11 DEF WriteWord, MergesAll, WholeWords, InWord
<1>12. CASE Written(p)
  BY <1>12, WordsAreCounted DEF Written, TypeOK, MergesAll, WrittenSoFar, WholeWords, WordCount
<1>13. ASSUME NEW key \in Keys, add(p, key) PROVE SavesAccumulate'
  BY <1>13 DEF add
<1> QED BY <1>1, <1>2, <1>3, <1>4, <1>5, <1>6, <1>7, <1>8, <1>9, <1>10, <1>11, <1>12, <1>13
         DEF Step, SaveStep

LEMMA LoadedStep ==
  ASSUME TypeOK, Positions, InOrder, ~overlapped, NEW p \in Procs, Step(p), ~overlapped'
  PROVE  LoadedSoFar'
<1> USE DEF TypeOK, Places, Saving, file, histories, InOrder, LoadedSoFar
<1>1. CASE Start(p)
  BY <1>1, WordsAreCounted DEF Start, SavesAccumulate
<1>2. CASE LoadWord(p)
  BY <1>2, WordsAreCounted DEF LoadWord, Positions, SavesAccumulate, WholeWords, InWord
<1>3. CASE flush(p)
  BY <1>3 DEF flush
<1>4. CASE Stop(p)
  BY <1>4 DEF Stop
<1>5. CASE Save(p)
  BY <1>5 DEF Save
<1>6. CASE OpenNew(p)
  BY <1>6 DEF OpenNew
<1>7. CASE Create(p)
  BY <1>7 DEF Create
<1>8. CASE OpenOld(p)
  BY <1>8 DEF OpenOld
<1>9. CASE Unlock(p)
  BY <1>9 DEF Unlock
<1>10. CASE LockToWrite(p)
  BY <1>10 DEF LockToWrite
<1>11. CASE WriteWord(p)
  BY <1>11 DEF WriteWord
<1>12. CASE Written(p)
  BY <1>12 DEF Written, WholeWords
<1>13. ASSUME NEW key \in Keys, add(p, key) PROVE LoadedSoFar'
  BY <1>13 DEF add
<1> QED BY <1>1, <1>2, <1>3, <1>4, <1>5, <1>6, <1>7, <1>8, <1>9, <1>10, <1>11, <1>12, <1>13
         DEF Step, SaveStep

-------------------------------------------------------------------------------
(* Theorems *)

LEMMA Starts == Init => IInv
<1> SUFFICES ASSUME Init PROVE IInv
  OBVIOUS
<1>1. disk \subseteq Bits /\ (disk # {} => exists) /\ exists \in BOOLEAN
  BY BitsOfKeys DEF Init
<1>2. TypeOK
  <2>1. Cardinality(writer) <= 1
    BY FS_EmptySet DEF Init
  <2>2. 0 \in 0..Cardinality(Words) /\ 0 \in 0..MaxSaves
    BY WordsAreCounted, FileAssumption DEF WordCount
  <2> QED BY <1>1, <2>1, <2>2 DEF Init, TypeOK, Places
<1>3. OneWriter /\ Positions
  BY DEF Init, OneWriter, Positions
<1>4. InOrder
  BY DEF Init, InOrder, OneSaver, MergesAll, WrittenSoFar, LoadedSoFar,
         SavesAccumulate, WholeWords, Saving
<1> QED BY <1>2, <1>3, <1>4 DEF IInv

LEMMA Steps == IInv /\ [Next]_vars => IInv'
<1> SUFFICES ASSUME IInv, [Next]_vars PROVE IInv'
  OBVIOUS
<1> USE DEF IInv
<1>1. ASSUME NEW p \in Procs, Step(p) PROVE IInv'
  <2>1. TypeOK' /\ OneWriter' /\ Positions'
    BY <1>1, TypeStep, OneWriterStep, PositionsStep
  <2>2. InOrder'
    <3> SUFFICES ASSUME ~overlapped'
                 PROVE  /\ OneSaver' /\ MergesAll' /\ WrittenSoFar'
                        /\ LoadedSoFar' /\ SavesAccumulate'
      BY DEF InOrder
    <3>1. ~overlapped
      BY <1>1, OverlapStays
    <3> QED BY <1>1, <3>1, OneSaverStep, MergesAllStep, WrittenStep, LoadedStep,
               AccumulateStep
  <2> QED BY <2>1, <2>2
<1>2. CASE UNCHANGED vars
  BY <1>2 DEF vars, TypeOK, OneWriter, Positions, InOrder, OneSaver, MergesAll,
              WrittenSoFar, LoadedSoFar, SavesAccumulate
<1> QED BY <1>1, <1>2 DEF Next, Step

\* The inductive invariant: as long as no two saves overlap, what a saver is
\* about to write has all that was ever saved, and what a process that loads
\* has not read yet was in the file before it began.
THEOREM SharedFile == Spec => []IInv
BY Starts, Steps, PTL DEF Spec

\* The types of the state: among them that one process at most holds the
\* write lock, and that no position leaves the bitmap.
THEOREM FileTypes == Spec => []TypeOK
BY SharedFile, PTL DEF IInv

\* What was saved is in the file, however many processes share it and
\* wherever one of them crashes.
THEOREM SavesAddUp == Spec => []SavesAccumulate
<1>1. IInv => SavesAccumulate
  BY DEF IInv, InOrder, SavesAccumulate
<1> QED BY <1>1, SharedFile, PTL

\* A process that has started has every key that was saved before, though it
\* read the file without a lock.
THEOREM RestartsKnow == Spec => []RestartKnows
<1>1. IInv => RestartKnows
  BY DEF IInv, InOrder, LoadedSoFar, RestartKnows, Found
<1> QED BY <1>1, SharedFile, PTL
===============================================================================
