----------------------------- MODULE BloomFilterFile -----------------------------
(***************************************************************************)
(* include/bloomfilter.h: the bitmap of a Bloom filter and its file.  The  *)
(* constructor loads the file if there is one; write_to_disk merges the    *)
(* bitmap into it.  The locks of write_to_disk are there because several   *)
(* emulators may be given one file: a step is a step of one process, which *)
(* may also end, or crash, between any two.                                *)
(*                                                                         *)
(* Without -D CBF, add and check use the bitmap.  With it they use         *)
(* counters, here the set of buckets that have reached NVAL = 1: the       *)
(* bitmap is loaded and saved all the same, and never consulted.           *)
(***************************************************************************)
EXTENDS Integers, Sequences, FiniteSets, Functions

CONSTANTS
  Procs,      \* the processes that share the file
  Keys,
  bfsize,     \* bits of the bitmap
  Hashes,     \* key -> the bit each of the nfuncs hashes picks
  ByteBits,   \* bits of a byte (8)
  WordBytes,  \* bytes of a uint64_t (8)
  Builds,     \* what CBF may be
  MaxSaves    \* bound on the calls of write_to_disk

Bits == 0..bfsize - 1

ASSUME FileAssumption ==
  /\ bfsize \in Nat \ {0}
  /\ ByteBits \in Nat \ {0}
  /\ WordBytes \in Nat \ {0}
  /\ Hashes \in [Keys -> Seq(Bits)]
  /\ Builds \subseteq BOOLEAN
  /\ MaxSaves \in Nat

VARIABLES
  CBF,         \* the build, one for all processes
  exists,      \* the file exists
  disk,        \* the bits set in the file
  bitmap,      \* process -> bloomfilter
  cbf,         \* process -> its full buckets
  pc,          \* process -> where it is
  res,         \* process -> bloomfilter_res: what it will write
  pos,         \* process -> words read by the constructor, or written
  readers,     \* processes that hold a read lock
  writer,      \* the processes that hold the write lock: one at most
  saves,       \* calls of write_to_disk so far
  saved,       \* history: the bits of every completed write_to_disk
  overlapped,  \* history: two calls of write_to_disk have overlapped
  owed         \* history: process -> keys completely saved when it started

vars == <<CBF, exists, disk, bitmap, cbf, pc, res, pos, readers, writer, saves,
          saved, overlapped, owed>>

bitmapsize == (bfsize + ByteBits - 1) \div ByteBits

Saving == {"open", "reading", "merged", "created", "write"}
Places == {"down", "load", "up"} \cup Saving

\* The words of the file, the last of which may be incomplete.
WordOf(b) == b \div (ByteBits * WordBytes)
Words == {WordOf(b) : b \in Bits}
InWord(bits, w) == {b \in bits : WordOf(b) = w}

TypeOK ==
  /\ CBF \in Builds
  /\ exists \in BOOLEAN
  /\ disk \subseteq Bits /\ (disk # {} => exists)
  /\ bitmap \in [Procs -> SUBSET Bits]
  /\ cbf \in [Procs -> SUBSET Bits]
  /\ pc \in [Procs -> Places]
  /\ res \in [Procs -> SUBSET Bits]
  /\ pos \in [Procs -> 0..Cardinality(Words)]
  /\ readers \subseteq Procs
  /\ writer \subseteq Procs /\ Cardinality(writer) <= 1
  /\ saves \in 0..MaxSaves
  /\ saved \subseteq Bits
  /\ overlapped \in BOOLEAN
  /\ owed \in [Procs -> SUBSET Keys]

BitsOf(key) == Range(Hashes[key])

\* No process runs; an earlier run may have left a file, with some keys.
Init ==
  /\ CBF \in Builds
  /\ exists \in BOOLEAN
  /\ disk \in IF exists THEN {UNION {BitsOf(k) : k \in known} : known \in SUBSET Keys}
              ELSE {{}}
  /\ bitmap = [p \in Procs |-> {}]
  /\ cbf = [p \in Procs |-> {}]
  /\ pc = [p \in Procs |-> "down"]
  /\ res = [p \in Procs |-> {}]
  /\ pos = [p \in Procs |-> 0]
  /\ readers = {}
  /\ writer = {}
  /\ saves = 0
  /\ saved = disk
  /\ overlapped = FALSE
  /\ owed = [p \in Procs |-> {}]

histories == <<saves, saved, overlapped, owed>>
file == <<CBF, exists, disk>>
locks == <<readers, writer>>

\* check.
Found(p, key) == BitsOf(key) \subseteq IF CBF THEN cbf[p] ELSE bitmap[p]

\* write_to_disk merges by uint64_t: the bits behind the last whole word of
\* the bitmap are neither read nor kept.
WholeWords(bits) == {b \in bits : WordOf(b) < bitmapsize \div WordBytes}

-------------------------------------------------------------------------------
(* Faulty variants of the steps below *)

\* The old file is read and forgotten.
MergedOwnOnly(old, own) == WholeWords(own)

\* The read lock is kept until the write lock replaces it.
UnlockLater(p) ==
  /\ pc[p] = "reading"
  /\ pc' = [pc EXCEPT ![p] = "merged"]
  /\ UNCHANGED <<file, bitmap, cbf, res, pos, locks, histories>>

\* The constructor takes the items of fread for bytes: one is read.
LoadOne(p) ==
  /\ pc[p] = "load"
  /\ pos[p] = 0
  /\ bitmap' = [bitmap EXCEPT ![p] = InWord(disk, 0)]
  /\ pc' = [pc EXCEPT ![p] = "up"]
  /\ UNCHANGED <<file, cbf, res, pos, locks, histories>>

\* write does not stop at the end of the bitmap.
WritePast(p) ==
  /\ pc[p] = "write"
  /\ disk' = (disk \ InWord(disk, pos[p])) \cup InWord(res[p], pos[p])
  /\ pos' = [pos EXCEPT ![p] = @ + 1]
  /\ UNCHANGED <<CBF, exists, bitmap, cbf, pc, res, locks, histories>>

-------------------------------------------------------------------------------
(* A process *)

\* The constructor begins, with an empty bitmap and empty counters.
Start(p) ==
  /\ pc[p] = "down"
  /\ pc' = [pc EXCEPT ![p] = IF exists THEN "load" ELSE "up"]
  /\ bitmap' = [bitmap EXCEPT ![p] = {}]
  /\ cbf' = [cbf EXCEPT ![p] = {}]
  /\ pos' = [pos EXCEPT ![p] = 0]
  /\ owed' = [owed EXCEPT ![p] = {k \in Keys : BitsOf(k) \subseteq WholeWords(saved)}]
  /\ UNCHANGED <<file, res, locks, saves, saved, overlapped>>

\* fread takes no lock: it may see a file that is being written.
LoadWord(p) ==
  /\ pc[p] = "load"
  /\ bitmap' = [bitmap EXCEPT ![p] = @ \cup InWord(disk, pos[p])]
  /\ IF pos[p] + 1 \in Words
     THEN pos' = [pos EXCEPT ![p] = @ + 1] /\ UNCHANGED pc
     ELSE pos' = [pos EXCEPT ![p] = 0] /\ pc' = [pc EXCEPT ![p] = "up"]
  /\ UNCHANGED <<file, cbf, res, locks, histories>>

add(p, key) ==
  /\ pc[p] = "up"
  /\ ~Found(p, key)
  /\ IF CBF
     THEN cbf' = [cbf EXCEPT ![p] = @ \cup BitsOf(key)] /\ UNCHANGED bitmap
     ELSE bitmap' = [bitmap EXCEPT ![p] = @ \cup BitsOf(key)] /\ UNCHANGED cbf
  /\ UNCHANGED <<file, pc, res, pos, locks, histories>>

\* The bitmap only: the counters of a CBF build stay.
flush(p) ==
  /\ pc[p] = "up"
  /\ bitmap' = [bitmap EXCEPT ![p] = {}]
  /\ owed' = [owed EXCEPT ![p] = {}]
  /\ UNCHANGED <<file, cbf, pc, res, pos, locks, saves, saved, overlapped>>

\* The process ends or crashes; the system releases its locks.
Stop(p) ==
  /\ pc[p] # "down"
  /\ pc' = [pc EXCEPT ![p] = "down"]
  /\ bitmap' = [bitmap EXCEPT ![p] = {}]
  /\ cbf' = [cbf EXCEPT ![p] = {}]
  /\ res' = [res EXCEPT ![p] = {}]
  /\ pos' = [pos EXCEPT ![p] = 0]
  /\ readers' = readers \ {p}
  /\ writer' = writer \ {p}
  /\ owed' = [owed EXCEPT ![p] = {}]
  /\ UNCHANGED <<file, saves, saved, overlapped>>

-------------------------------------------------------------------------------
(* write_to_disk *)

Merged(old, own) == WholeWords(old \cup own)

Save(p) ==
  /\ pc[p] = "up"
  /\ saves < MaxSaves
  /\ saves' = saves + 1
  /\ pc' = [pc EXCEPT ![p] = "open"]
  /\ overlapped' = (overlapped \/ \E q \in Procs : pc[q] \in Saving)
  /\ UNCHANGED <<file, bitmap, cbf, res, pos, locks, saved, owed>>

\* open: a file that is not there is created, and will get the bitmap as it
\* is, whatever another process has written by then.
OpenNew(p) ==
  /\ pc[p] = "open"
  /\ ~exists
  /\ pc' = [pc EXCEPT ![p] = "created"]
  /\ res' = [res EXCEPT ![p] = bitmap[p]]
  /\ UNCHANGED <<file, bitmap, cbf, pos, locks, histories>>

Create(p) ==
  /\ pc[p] = "created"
  /\ exists' = TRUE
  /\ pc' = [pc EXCEPT ![p] = "merged"]
  /\ UNCHANGED <<CBF, disk, bitmap, cbf, res, pos, locks, histories>>

\* open, the read lock and the read.
OpenOld(p) ==
  /\ pc[p] = "open"
  /\ exists
  /\ writer = {}
  /\ readers' = readers \cup {p}
  /\ res' = [res EXCEPT ![p] = Merged(disk, bitmap[p])]
  /\ pc' = [pc EXCEPT ![p] = "reading"]
  /\ UNCHANGED <<file, bitmap, cbf, pos, writer, histories>>

Unlock(p) ==
  /\ pc[p] = "reading"
  /\ readers' = readers \ {p}
  /\ pc' = [pc EXCEPT ![p] = "merged"]
  /\ UNCHANGED <<file, bitmap, cbf, res, pos, writer, histories>>

LockToWrite(p) ==
  /\ pc[p] = "merged"
  /\ writer = {}
  /\ readers \subseteq {p}
  /\ writer' = {p}
  /\ readers' = {}
  /\ pc' = [pc EXCEPT ![p] = "write"]
  /\ UNCHANGED <<file, bitmap, cbf, res, pos, histories>>

\* write, a word at a time.
WriteWord(p) ==
  /\ pc[p] = "write"
  /\ pos[p] \in Words
  /\ disk' = (disk \ InWord(disk, pos[p])) \cup InWord(res[p], pos[p])
  /\ pos' = [pos EXCEPT ![p] = @ + 1]
  /\ UNCHANGED <<CBF, exists, bitmap, cbf, pc, res, locks, histories>>

Written(p) ==
  /\ pc[p] = "write"
  /\ pos[p] \notin Words
  /\ writer' = {}
  /\ pos' = [pos EXCEPT ![p] = 0]
  /\ res' = [res EXCEPT ![p] = {}]
  /\ pc' = [pc EXCEPT ![p] = "up"]
  /\ saved' = saved \cup bitmap[p]
  /\ UNCHANGED <<file, bitmap, cbf, readers, saves, overlapped, owed>>

SaveStep(p) ==
  \/ OpenNew(p) \/ Create(p) \/ OpenOld(p) \/ Unlock(p)
  \/ LockToWrite(p) \/ WriteWord(p) \/ Written(p)

Next ==
  \E p \in Procs :
    \/ Start(p) \/ LoadWord(p) \/ flush(p) \/ Stop(p) \/ Save(p)
    \/ \E key \in Keys : add(p, key)
    \/ SaveStep(p)

\* A process in write_to_disk goes on unless it waits for a lock (F_SETLKW)
\* or is stopped.
Spec == Init /\ [][Next]_vars /\ \A p \in Procs : WF_vars(SaveStep(p))

-------------------------------------------------------------------------------
(* Properties *)

\* Saves accumulate: as long as no two overlap, what any process ever saved
\* is in the file, through crashes in the middle of a save; only the bits
\* behind the last whole word are at the mercy of the next one.
SavesAccumulate == ~overlapped => WholeWords(saved) \subseteq disk

\* "Loading the bloom filter from the file": a bitmap has every key that was
\* completely saved when its process started, though it is loaded without a
\* lock while others may be saving; so check finds the key, but in the CBF
\* build, where it does not look at the bitmap.
RestartKnows ==
  \A p \in Procs :
    ~overlapped /\ pc[p] \notin {"down", "load"} =>
      \A k \in owed[p] : BitsOf(k) \subseteq bitmap[p] /\ (~CBF => Found(p, k))

\* No process waits for a lock for ever: none holds one while it waits.
SavesReturn == \A p \in Procs : pc[p] \in Saving ~> pc[p] \notin Saving
===============================================================================
