--------------------------- MODULE LRUEvictionProofs ---------------------------
(***************************************************************************)
(* Theorems about LRUEviction, and then about the policies that are built  *)
(* on its state, the two FIFO policies and the cost-based and size-based   *)
(* LRU, for every set of keys and sizes, every capacity, every bound on    *)
(* time and every parameter of the policies.                               *)
(***************************************************************************)
EXTENDS FIFOAgeEviction, CostLRUEviction, SizeLRUEviction, EntryListProofs,
        FiniteSetTheorems, FunctionTheorems, WellFoundedInduction

-------------------------------------------------------------------------------
(* Type correctness *)

LEMMA TypeInit == Init => TypeOK
<1> SUFFICES ASSUME Init PROVE TypeOK
  OBVIOUS
<1>1. list \in Seq(Keys)
  BY EmptySeq DEF Init
<1>2. DOMAIN mapping \subseteq Keys /\ mapping \in [DOMAIN mapping -> Entries]
  <2>1. mapping = [k \in {} |-> 0] /\ DOMAIN mapping = {}
    BY DEF Init
  <2> QED BY <2>1
<1>3. /\ current_size \in Nat /\ cache_item_count \in Nat
      /\ cache_filled_once \in BOOLEAN /\ loop \in Loops /\ now \in 0..MaxTime
  <2>1. 0 \in 0..MaxTime
    BY LRUAssumption
  <2>2. current_size = 0 /\ cache_item_count = 0 /\ now = 0
    BY DEF Init
  <2>3. cache_filled_once = FALSE /\ loop = "idle"
    BY DEF Init
  <2> QED BY <2>1, <2>2, <2>3 DEF Loops
<1> QED BY <1>1, <1>2, <1>3 DEF TypeOK

\* The bytes of a resident object.
LEMMA DataIsNat ==
  ASSUME TypeOK
  PROVE  \A x \in DOMAIN mapping : DataOf[x] = mapping[x].data /\ DataOf[x] \in Nat
BY LRUAssumption DEF TypeOK, DataOf, Entries

\* A node that is erased takes its bytes out of the count, which had them.
LEMMA EraseKeeps ==
  ASSUME TypeOK, Consistent, NEW k \in DOMAIN mapping, Erase(k)
  PROVE  /\ list' \in Seq(Keys)
         /\ DOMAIN mapping' = DOMAIN mapping \ {k}
         /\ \A x \in DOMAIN mapping' : mapping'[x] = mapping[x]
         /\ mapping' \in [DOMAIN mapping' -> Entries]
         /\ current_size' \in Nat /\ current_size' <= current_size
         /\ mapping[k].data \in Nat /\ mapping[k].data <= current_size
         /\ cache_item_count' \in Nat
         /\ Consistent'
<1>1. /\ list \in Seq(Keys) /\ Unrepeated(list) /\ k \in Range(list)
      /\ Range(list) = DOMAIN mapping /\ current_size \in Nat
      /\ SumsTo(list, DataOf, current_size)
      /\ cache_item_count = Len(list)
  BY DEF TypeOK, Consistent
<1>2. \A x \in Range(list) : DataOf[x] = mapping[x].data /\ DataOf[x] \in Nat
  BY <1>1, DataIsNat
<1>3. /\ list' = Detach(list, k)
      /\ DOMAIN mapping' = DOMAIN mapping \ {k}
      /\ \A x \in DOMAIN mapping' : mapping'[x] = mapping[x]
      /\ mapping' \in [DOMAIN mapping' -> Entries]
      /\ current_size' = current_size - DataOf[k]
      /\ cache_item_count' = cache_item_count - 1
  BY <1>1, <1>2 DEF Erase, Restrict, TypeOK
<1>4. /\ list' \in Seq(Keys) /\ Len(list') = Len(list) - 1 /\ Len(list') \in Nat
      /\ Range(list') = DOMAIN mapping' /\ Unrepeated(list')
  BY <1>1, <1>3, DetachElements, DetachRange, LenProperties
<1>5. DataOf[k] <= current_size /\ SumsTo(list', DataOf', current_size')
  <2> DEFINE rest == DataOf'
  <2>1. \A x \in Range(list) \ {k} : rest[x] = DataOf[x]
    BY <1>1, <1>3 DEF DataOf
  <2> HIDE DEF rest
  <2>2. /\ DataOf[k] <= current_size
        /\ SumsTo(Detach(list, k), rest, current_size - DataOf[k])
    BY <1>1, <1>2, <2>1, DetachSum
  <2> QED BY <2>2, <1>3 DEF rest
<1>6. Consistent'
  BY <1>1, <1>3, <1>4, <1>5 DEF Consistent
<1>7. current_size' \in Nat /\ current_size' <= current_size
  BY <1>1, <1>2, <1>3, <1>5
<1> QED BY <1>1, <1>2, <1>3, <1>4, <1>5, <1>6, <1>7

\* A purge erases the last node of the list, and there is one.
LEMMA PurgeErases ==
  ASSUME TypeOK, Consistent, LoopBody
  PROVE  Last(list) \in DOMAIN mapping /\ Erase(Last(list))
BY FrontIsDetach DEF LoopBody, PurgeRegular, TypeOK, Consistent

\* Consistent is needed too: without it current_size could go below zero
\* and Detach could be asked for a key that is not linked.
LEMMA TypeStep ==
  ASSUME TypeOK, Consistent, [Next]_vars
  PROVE  TypeOK'
<1> USE LRUAssumption
<1>1. ASSUME NEW k \in Keys, NEW ts \in 0..MaxTime, Get(k, ts) PROVE TypeOK'
  <2>1. k \in Range(list)
    BY <1>1 DEF Get, Consistent
  <2>2. list' \in Seq(Keys)
    BY <1>1, <2>1, DetachElements, AttachElements DEF Get, TypeOK
  <2>3. DOMAIN mapping' = DOMAIN mapping /\ mapping' \in [DOMAIN mapping -> Entries]
    BY <1>1 DEF Get, TypeOK, Entries
  <2> QED BY <1>1, <2>2, <2>3 DEF Get, Advance, TypeOK
<1>2. ASSUME NEW k \in Keys, NEW d \in Sizes, NEW ts \in 0..MaxTime, Put(k, d, ts)
      PROVE  TypeOK'
  <2>1. list' \in Seq(Keys)
    BY <1>2, AttachElements DEF Put, TypeOK
  <2>2. DOMAIN mapping' = DOMAIN mapping \cup {k} /\ mapping' \in [DOMAIN mapping' -> Entries]
    BY <1>2 DEF Put, TypeOK, Entries
  <2> QED BY <1>2, <2>1, <2>2 DEF Put, Advance, TypeOK, Loops
<1>3. ASSUME NEW ts \in 0..MaxTime, HourlyPurging(ts) PROVE TypeOK'
  BY <1>3 DEF HourlyPurging, Advance, TypeOK, Loops
<1>4. ASSUME LoopBody PROVE TypeOK'
  <2>1. UNCHANGED <<cache_filled_once, loop, now>>
    BY <1>4 DEF LoopBody
  <2>2. /\ list' \in Seq(Keys) /\ DOMAIN mapping' \subseteq DOMAIN mapping
        /\ mapping' \in [DOMAIN mapping' -> Entries]
        /\ current_size' \in Nat /\ cache_item_count' \in Nat
    BY <1>4, PurgeErases, EraseKeeps
  <2> QED BY <2>1, <2>2 DEF TypeOK
<1>5. ASSUME LoopExit PROVE TypeOK'
  BY <1>5 DEF LoopExit, TypeOK, Loops
<1>6. CASE UNCHANGED vars
  BY <1>6 DEF vars, TypeOK
<1> QED BY <1>1, <1>2, <1>3, <1>4, <1>5, <1>6 DEF Next, Work
-------------------------------------------------------------------------------
(* The list, the map and the counts agree *)

LEMMA ConsistentInit == Init => Consistent
<1> SUFFICES ASSUME Init PROVE Consistent
  OBVIOUS
<1>1. list = <<>> /\ Len(list) = 0 /\ DOMAIN list = {} /\ DOMAIN mapping = {}
  BY DEF Init
<1>2. SumsTo(list, DataOf, current_size)
  BY <1>1, EmptySum DEF Init
<1> QED BY <1>1, <1>2 DEF Init, Consistent, Unrepeated, Range

LEMMA ConsistentGet ==
  ASSUME TypeOK, Consistent, NEW k \in Keys, NEW ts \in 0..MaxTime, Get(k, ts)
  PROVE  Consistent'
<1> DEFINE d == Detach(list, k)
           w == DataOf[k]
<1>1. /\ list \in Seq(Keys) /\ k \in Range(list) /\ Unrepeated(list)
      /\ Range(list) = DOMAIN mapping /\ current_size \in Nat
      /\ SumsTo(list, DataOf, current_size)
      /\ Len(list) \in Nat
  BY LenProperties DEF Get, TypeOK, Consistent
<1>2. \A x \in Range(list) : DataOf[x] \in Nat
  BY <1>1, DataIsNat
<1>3. /\ d \in Seq(Keys) /\ Len(d) = Len(list) - 1
      /\ Range(d) = Range(list) \ {k} /\ Unrepeated(d)
  BY <1>1, DetachElements, DetachRange
<1>4. w <= current_size /\ SumsTo(d, DataOf, current_size - w)
  BY <1>1, <1>2, DetachSum
<1>5. DOMAIN mapping' = DOMAIN mapping /\ DataOf' = DataOf
  <2>1. DOMAIN mapping' = DOMAIN mapping
        /\ \A x \in DOMAIN mapping : mapping'[x].data = mapping[x].data
    BY DEF Get, TypeOK, Entries
  <2> QED BY <2>1 DEF DataOf
<1>6. current_size - w \in Nat /\ (current_size - w) + w = current_size
      /\ w \in Nat
  BY <1>1, <1>2, <1>4
<1> HIDE DEF d
<1>7. /\ Range(Attach(d, k)) = Range(list) /\ Unrepeated(Attach(d, k))
      /\ Len(Attach(d, k)) = Len(list)
  <2>1. k \notin Range(d) /\ Len(d) + 1 = Len(list)
    BY <1>1, <1>3
  <2>2. Range(Attach(d, k)) = Range(d) \cup {k} /\ Len(Attach(d, k)) = Len(d) + 1
    BY <1>3, AttachRange
  <2>3. Unrepeated(Attach(d, k))
    BY <1>3, <2>1, AttachUnrepeated
  <2> QED BY <1>1, <1>3, <2>1, <2>2, <2>3
<1>8. SumsTo(Attach(d, k), DataOf, (current_size - w) + w)
  BY <1>1, <1>2, <1>3, <1>4, <1>6, AttachSum
<1>9. list' = Attach(d, k) /\ UNCHANGED <<current_size, cache_item_count>>
  BY DEF Get, d
<1> QED BY <1>1, <1>5, <1>6, <1>7, <1>8, <1>9 DEF Consistent

LEMMA ConsistentPut ==
  ASSUME TypeOK, Consistent, NEW k \in Keys, NEW d \in Sizes,
         NEW ts \in 0..MaxTime, Put(k, d, ts)
  PROVE  Consistent'
<1>1. /\ list \in Seq(Keys) /\ k \notin Range(list) /\ Unrepeated(list)
      /\ Range(list) = DOMAIN mapping /\ current_size \in Nat
      /\ SumsTo(list, DataOf, current_size)
  BY DEF Put, TypeOK, Consistent
<1>2. \A x \in Range(list) : DataOf[x] \in Nat
  BY <1>1, DataIsNat
<1>3. /\ DOMAIN mapping' = DOMAIN mapping \cup {k}
      /\ mapping'[k].data = d
      /\ \A x \in DOMAIN mapping : mapping'[x] = mapping[x]
  BY DEF Put
<1>4. DataOf'[k] = d /\ d \in Nat /\ \A x \in Range(list) : DataOf'[x] = DataOf[x]
  BY <1>1, <1>3, LRUAssumption DEF DataOf
<1>5. SumsTo(Attach(list, k), DataOf', current_size + DataOf'[k])
  <2> DEFINE more == DataOf'
  <2>1. more[k] \in Nat /\ \A x \in Range(list) : more[x] = DataOf[x]
    BY <1>4
  <2> HIDE DEF more
  <2>2. SumsTo(Attach(list, k), more, current_size + more[k])
    BY <1>1, <1>2, <2>1, AttachSum
  <2> QED BY <2>2 DEF more
<1>6. /\ Range(Attach(list, k)) = DOMAIN mapping'
      /\ Unrepeated(Attach(list, k))
      /\ Len(Attach(list, k)) = Len(list) + 1
  <2>1. /\ Range(Attach(list, k)) = Range(list) \cup {k}
        /\ Len(Attach(list, k)) = Len(list) + 1
    BY <1>1, AttachRange
  <2>2. Unrepeated(Attach(list, k))
    BY <1>1, AttachUnrepeated
  <2> QED BY <1>1, <1>3, <2>1, <2>2
<1>7. list' = Attach(list, k) /\ current_size' = current_size + d
      /\ cache_item_count' = cache_item_count + 1
  BY DEF Put
<1>8. SumsTo(list', DataOf', current_size')
  BY <1>4, <1>5, <1>7
<1> QED BY <1>6, <1>7, <1>8 DEF Consistent

LEMMA ConsistentPurge ==
  ASSUME TypeOK, Consistent, LoopBody
  PROVE  Consistent'
BY PurgeErases, EraseKeeps

LEMMA ConsistentStep ==
  ASSUME TypeOK, Consistent, [Next]_vars
  PROVE  Consistent'
<1>1. ASSUME NEW ts \in 0..MaxTime, HourlyPurging(ts) PROVE Consistent'
  BY <1>1 DEF HourlyPurging, Consistent, DataOf
<1>2. ASSUME LoopExit PROVE Consistent'
  BY <1>2 DEF LoopExit, Consistent, DataOf
<1>3. CASE UNCHANGED vars
  BY <1>3 DEF vars, Consistent, DataOf
<1> QED BY <1>1, <1>2, <1>3, ConsistentGet, ConsistentPut, ConsistentPurge
        DEF Next, Work

\* TypeOK and Consistent hold in every reachable state: the list and the
\* map of lru_eviction.cc never part, and current_size is the bytes linked.
THEOREM AlwaysConsistent == Spec => [](TypeOK /\ Consistent)
<1>1. Init => TypeOK /\ Consistent
  BY TypeInit, ConsistentInit
<1>2. TypeOK /\ Consistent /\ [Next]_vars => (TypeOK /\ Consistent)'
  BY TypeStep, ConsistentStep
<1> QED BY <1>1, <1>2, PTL DEF Spec

-------------------------------------------------------------------------------
(* The purge loops *)

LEMMA OverTargetHasNodes == TypeOK /\ Consistent => NeverSpins
<1> SUFFICES ASSUME TypeOK, Consistent, list = <<>> PROVE ~OverTarget
  BY DEF NeverSpins
<1>1. current_size = 0
  BY EmptySum DEF TypeOK, Consistent
<1> QED BY <1>1, LRUAssumption DEF OverTarget

\* No purge loop of LRU can be left spinning on an empty list: whatever the
\* sizes, a cache over its target has a node to purge.
THEOREM LoopsNeverSpin == Spec => []NeverSpins
BY AlwaysConsistent, OverTargetHasNodes, PTL

\* Only the loop of put ever sees more bytes than the capacity.
OverfullOnlyInPut ==
  /\ loop # "put" => current_size <= Capacity
  /\ ~cache_filled_once

LEMMA OverfullStep ==
  ASSUME TypeOK, Consistent, OverfullOnlyInPut, [Next]_vars
  PROVE  OverfullOnlyInPut'
<1> USE LRUAssumption DEF OverfullOnlyInPut
<1>1. ASSUME NEW k \in Keys, NEW ts \in 0..MaxTime, Get(k, ts)
      PROVE  OverfullOnlyInPut'
  BY <1>1 DEF Get
<1>2. ASSUME NEW k \in Keys, NEW d \in Sizes, NEW ts \in 0..MaxTime, Put(k, d, ts)
      PROVE  OverfullOnlyInPut'
  BY <1>2 DEF Put
<1>3. ASSUME NEW ts \in 0..MaxTime, HourlyPurging(ts) PROVE OverfullOnlyInPut'
  BY <1>3 DEF HourlyPurging, TypeOK
<1>4. ASSUME LoopBody PROVE OverfullOnlyInPut'
  <2>1. Last(list) \in DOMAIN mapping /\ Erase(Last(list))
    BY <1>4, PurgeErases
  <2>2. current_size \in Nat /\ current_size' \in Nat /\ current_size' <= current_size
    BY <2>1, EraseKeeps DEF TypeOK
  <2> QED BY <1>4, <2>2 DEF LoopBody
<1>5. ASSUME LoopExit PROVE OverfullOnlyInPut'
  BY <1>5 DEF LoopExit, OverTarget, Loops, TypeOK
<1>6. CASE UNCHANGED vars
  BY <1>6 DEF vars
<1> QED BY <1>1, <1>2, <1>3, <1>4, <1>5, <1>6 DEF Next, Work

\* Between operations the cache holds no more than its capacity, for every
\* mix of sizes, objects larger than the capacity included; so the flag
\* cache_filled_once is never set.
THEOREM CapacityHolds == Spec => []FitsAtRest
<1> DEFINE I == TypeOK /\ Consistent /\ OverfullOnlyInPut
<1>1. Init => I
  BY TypeInit, ConsistentInit, LRUAssumption DEF Init, OverfullOnlyInPut
<1>2. I /\ [Next]_vars => I'
  BY TypeStep, ConsistentStep, OverfullStep
<1>3. I => FitsAtRest
  BY DEF FitsAtRest, OverfullOnlyInPut
<1> QED BY <1>1, <1>2, <1>3, PTL DEF Spec

\* Both, with the types: the state of LRU is what its operations take it for.
THEOREM LRUIsWellFormed == Spec => []WellFormed
<1>1. TypeOK /\ Consistent /\ FitsAtRest => WellFormed
  BY DEF WellFormed
<1> QED BY <1>1, AlwaysConsistent, CapacityHolds, PTL

-------------------------------------------------------------------------------
(* The order of eviction *)

\* No object was requested after the last line of the log.
RequestedByNow == \A k \in DOMAIN mapping : mapping[k].timestamp <= now

IInv == TypeOK /\ Consistent /\ RequestedByNow /\ OldestAtTail

LEMMA RequestedByNowStep ==
  ASSUME TypeOK, RequestedByNow, [Next]_vars
  PROVE  RequestedByNow'
<1> USE LRUAssumption DEF RequestedByNow
<1>0. \A x \in DOMAIN mapping : mapping[x].timestamp \in 0..MaxTime
  BY DEF TypeOK, Entries
<1>1. ASSUME NEW k \in Keys, NEW ts \in 0..MaxTime, Get(k, ts)
      PROVE  RequestedByNow'
  <2>1. DOMAIN mapping' = DOMAIN mapping
        /\ \A x \in DOMAIN mapping :
             mapping'[x].timestamp = IF x = k THEN ts ELSE mapping[x].timestamp
    BY <1>1 DEF Get, TypeOK, Entries
  <2>2. now \in Int /\ now' = ts /\ ts >= now
    BY <1>1 DEF Get, Advance, TypeOK
  <2> QED BY <1>0, <2>1, <2>2
<1>2. ASSUME NEW k \in Keys, NEW d \in Sizes, NEW ts \in 0..MaxTime, Put(k, d, ts)
      PROVE  RequestedByNow'
  BY <1>0, <1>2 DEF Put, Advance, TypeOK
<1>3. ASSUME NEW ts \in 0..MaxTime, HourlyPurging(ts) PROVE RequestedByNow'
  BY <1>0, <1>3 DEF HourlyPurging, Advance, TypeOK
<1>4. ASSUME LoopBody PROVE RequestedByNow'
  BY <1>4 DEF LoopBody, PurgeRegular, Erase, Restrict
<1>5. ASSUME LoopExit PROVE RequestedByNow'
  BY <1>5 DEF LoopExit
<1>6. CASE UNCHANGED vars
  BY <1>6 DEF vars
<1> QED BY <1>1, <1>2, <1>3, <1>4, <1>5, <1>6 DEF Next, Work

Stamps == [k \in DOMAIN mapping |-> mapping[k].timestamp]

\* The list is in the order of last use when it is in that of the stamps.
LEMMA OldestIsDescending ==
  ASSUME list \in Seq(Keys), Range(list) = DOMAIN mapping
  PROVE  OldestAtTail <=> Descending(list, Stamps)
<1>1. \A i \in 1..Len(list) : list[i] \in DOMAIN mapping
  BY LenProperties DEF Range
<1>2. \A i \in 1..Len(list) : Stamps[list[i]] = mapping[list[i]].timestamp
  BY <1>1 DEF Stamps
<1> QED BY <1>2 DEF OldestAtTail, Descending

\* A key that is used last may go before all others that are linked.
LEMMA OldestAfterAttach ==
  ASSUME NEW rest \in Seq(Keys), NEW k \in Keys, NEW ts \in Int, NEW stamps, NEW new,
         \A x \in Range(rest) : stamps[x] \in Int /\ stamps[x] <= ts,
         \A x \in Range(rest) \ {k} : new[x] = stamps[x],
         k \notin Range(rest), new[k] = ts,
         Descending(rest, stamps)
  PROVE  Descending(Attach(rest, k), new)
<1>1. \A x \in Range(rest) : new[x] = stamps[x]
  OBVIOUS
<1>2. \A x \in Range(rest) \cup {k} : new[x] \in Int /\ new[x] <= new[k]
  BY <1>1
<1>3. Descending(rest, new)
  BY <1>1, DescendingSame
<1> QED BY <1>2, <1>3, DescendingAttach

\* The erasure of a node leaves the others in their order.
LEMMA EraseKeepsOrder ==
  ASSUME TypeOK, Consistent, OldestAtTail, NEW k \in DOMAIN mapping, Erase(k)
  PROVE  OldestAtTail'
<1>1. /\ list \in Seq(Keys) /\ Range(list) = DOMAIN mapping
      /\ list' = Detach(list, k)
  BY DEF TypeOK, Consistent, Erase
<1>2. /\ list' \in Seq(Keys) /\ Range(list') = DOMAIN mapping'
      /\ DOMAIN mapping' = DOMAIN mapping \ {k}
      /\ \A x \in DOMAIN mapping' : mapping'[x] = mapping[x]
  BY EraseKeeps DEF Consistent
<1>3. Descending(list', Stamps)
  BY <1>1, OldestIsDescending, DescendingDetach
<1>4. \A i \in 1..Len(list') :
        /\ list'[i] \in DOMAIN mapping /\ mapping'[list'[i]] = mapping[list'[i]]
        /\ Stamps[list'[i]] = mapping[list'[i]].timestamp
  <2>1. \A i \in 1..Len(list') : list'[i] \in DOMAIN mapping'
    BY <1>2, LenProperties DEF Range
  <2> QED BY <1>2, <2>1 DEF Stamps
<1> QED BY <1>3, <1>4 DEF OldestAtTail, Descending

LEMMA OldestStep ==
  ASSUME IInv, [Next]_vars
  PROVE  OldestAtTail'
<1> USE DEF IInv
<1>1. /\ list \in Seq(Keys) /\ Range(list) = DOMAIN mapping /\ Unrepeated(list)
      /\ \A x \in DOMAIN mapping : Stamps[x] \in 0..MaxTime /\ Stamps[x] <= now
      /\ Descending(list, Stamps)
  BY OldestIsDescending DEF TypeOK, Entries, Consistent, RequestedByNow, Stamps
\* The order after a get or a put, by the stamps of the next state.
<1> DEFINE new == Stamps'
<1>2. ASSUME list' \in Seq(Keys), Range(list') = DOMAIN mapping',
             Descending(list', new)
      PROVE  OldestAtTail'
  <2>1. \A i \in 1..Len(list') : list'[i] \in DOMAIN mapping'
    BY <1>2, LenProperties DEF Range
  <2>2. \A i \in 1..Len(list') : new[list'[i]] = mapping'[list'[i]].timestamp
    BY <2>1 DEF Stamps
  <2> HIDE DEF new
  <2> QED BY <1>2, <2>2 DEF OldestAtTail, Descending
<1>3. list' \in Seq(Keys) /\ Range(list') = DOMAIN mapping'
  BY TypeStep, ConsistentStep DEF TypeOK, Consistent
<1>4. ASSUME NEW k \in Keys, NEW ts \in 0..MaxTime, Get(k, ts)
      PROVE  OldestAtTail'
  <2> DEFINE d == Detach(list, k)
  <2>1. d \in Seq(Keys) /\ Range(d) = DOMAIN mapping \ {k} /\ Descending(d, Stamps)
    BY <1>1, <1>4, DetachElements, DetachRange, DescendingDetach DEF Get
  <2>2. new = [x \in DOMAIN mapping |-> IF x = k THEN ts ELSE Stamps[x]]
    BY <1>4 DEF Get, TypeOK, Entries, Stamps
  <2>3. k \in DOMAIN mapping /\ ts >= now /\ now \in Int /\ list' = Attach(d, k)
    BY <1>4, LRUAssumption DEF Get, Advance, TypeOK
  <2>4. \A x \in Range(d) : Stamps[x] \in Int /\ Stamps[x] <= ts
    BY <1>1, <2>1, <2>3
  <2>5. new[k] = ts /\ \A x \in Range(d) \ {k} : new[x] = Stamps[x]
    BY <2>1, <2>2, <2>3
  <2> HIDE DEF d, new
  <2>6. Descending(Attach(d, k), new)
    BY <2>1, <2>4, <2>5, OldestAfterAttach
  <2> QED BY <1>2, <1>3, <2>3, <2>6
<1>5. ASSUME NEW k \in Keys, NEW d \in Sizes, NEW ts \in 0..MaxTime, Put(k, d, ts)
      PROVE  OldestAtTail'
  <2>1. DOMAIN mapping' = DOMAIN mapping \cup {k}
        /\ mapping'[k].timestamp = ts
        /\ \A x \in DOMAIN mapping : mapping'[x] = mapping[x]
    BY <1>5 DEF Put
  <2>2. new[k] = ts /\ \A x \in DOMAIN mapping : new[x] = Stamps[x]
    BY <2>1 DEF Stamps
  <2>3. k \notin DOMAIN mapping /\ ts >= now /\ now \in Int /\ list' = Attach(list, k)
    BY <1>5, LRUAssumption DEF Put, Advance, TypeOK
  <2>4. \A x \in Range(list) : Stamps[x] \in Int /\ Stamps[x] <= ts
    BY <1>1, <2>3
  <2> HIDE DEF new
  <2>5. Descending(Attach(list, k), new)
    BY <1>1, <2>2, <2>3, <2>4, OldestAfterAttach
  <2> QED BY <1>2, <1>3, <2>3, <2>5
<1>6. ASSUME NEW ts \in 0..MaxTime, HourlyPurging(ts) PROVE OldestAtTail'
  BY <1>6 DEF HourlyPurging, OldestAtTail
<1>7. ASSUME LoopBody PROVE OldestAtTail'
  BY <1>7, PurgeErases, EraseKeepsOrder
<1>8. ASSUME LoopExit PROVE OldestAtTail'
  BY <1>8 DEF LoopExit, OldestAtTail
<1>9. CASE UNCHANGED vars
  BY <1>9 DEF vars, OldestAtTail
<1> QED BY <1>4, <1>5, <1>6, <1>7, <1>8, <1>9 DEF Next, Work

LEMMA InvariantInit == Init => IInv
<1> SUFFICES ASSUME Init PROVE RequestedByNow /\ OldestAtTail
  BY TypeInit, ConsistentInit DEF IInv
<1>1. list = <<>> /\ Len(list) = 0 /\ DOMAIN mapping = {}
  BY DEF Init
<1> QED BY <1>1 DEF RequestedByNow, OldestAtTail

\* The inductive invariant: the order of the list needs RequestedByNow, for
\* a request to be at least as recent as everything it is put in front of.
THEOREM Inductive == Spec => []IInv
<1>1. Init => IInv
  BY InvariantInit
<1>2. IInv /\ [Next]_vars => IInv'
  BY TypeStep, ConsistentStep, RequestedByNowStep, OldestStep DEF IInv
<1> QED BY <1>1, <1>2, PTL DEF Spec

\* The tail of the list is the least recently requested object.
THEOREM OrderedByLastUse == Spec => []OldestAtTail
<1>1. IInv => OldestAtTail
  BY DEF IInv
<1> QED BY <1>1, Inductive, PTL

\* A step that drops a key is a purge of the tail.
LEMMA DropsTheTail ==
  ASSUME TypeOK, Consistent, [Next]_vars, NEW k \in DOMAIN mapping \ DOMAIN mapping'
  PROVE  LoopBody /\ k = Last(list) /\ DOMAIN mapping' = DOMAIN mapping \ {k}
<1>1. ~UNCHANGED mapping
  OBVIOUS
<1>2. ASSUME NEW x \in Keys, NEW ts \in 0..MaxTime, Get(x, ts) PROVE FALSE
  BY <1>2 DEF Get
<1>3. ASSUME NEW x \in Keys, NEW d \in Sizes, NEW ts \in 0..MaxTime, Put(x, d, ts)
      PROVE  FALSE
  BY <1>3 DEF Put
<1>4. LoopBody
  BY <1>1, <1>2, <1>3 DEF Next, Work, HourlyPurging, LoopExit, vars
<1> QED BY <1>4 DEF LoopBody, PurgeRegular, Erase, Restrict

\* LRU evicts, among the objects it holds, one that was requested no later
\* than any it keeps.
THEOREM EvictionIsLRU == Spec => EvictsLeastRecent
<1>1. ASSUME IInv, [Next]_vars,
             NEW k \in DOMAIN mapping \ DOMAIN mapping', NEW j \in DOMAIN mapping'
      PROVE  mapping[k].timestamp <= mapping[j].timestamp
  <2>1. k = Last(list) /\ DOMAIN mapping' = DOMAIN mapping \ {k}
    BY <1>1, DropsTheTail DEF IInv
  <2>2. list \in Seq(Keys) /\ Range(list) = DOMAIN mapping
        /\ Len(list) \in Nat /\ DOMAIN list = 1..Len(list)
    BY <1>1, LenProperties DEF IInv, TypeOK, Consistent
  <2>3. PICK i \in 1..Len(list) : list[i] = j
    BY <2>1, <2>2 DEF Range
  <2>4. i <= Len(list) /\ Len(list) \in 1..Len(list)
    BY <2>2
  <2>5. mapping[list[i]].timestamp >= mapping[list[Len(list)]].timestamp
    BY <1>1, <2>4 DEF IInv, OldestAtTail
  <2>6. mapping[k].timestamp \in Int /\ mapping[j].timestamp \in Int
    BY <1>1, <2>1, LRUAssumption DEF IInv, TypeOK, Entries
  <2> QED BY <2>1, <2>3, <2>5, <2>6 DEF Last
<1>2. IInv /\ [Next]_vars =>
        [\A k \in DOMAIN mapping \ DOMAIN mapping', j \in DOMAIN mapping' :
           mapping[k].timestamp <= mapping[j].timestamp]_vars
  BY <1>1
<1> QED BY <1>2, Inductive, PTL DEF Spec, EvictsLeastRecent

\* What a purge takes although it heads the list is alone, and too large.
LEMMA LostAlone ==
  ASSUME TypeOK, Consistent, [Next]_vars,
         NEW k \in DOMAIN mapping \ DOMAIN mapping', loop = "put", k = Head(list)
  PROVE  mapping[k].data > Capacity
<1>1. LoopBody /\ k = Last(list)
  BY DropsTheTail
<1>2. /\ list \in Seq(Keys) /\ list # <<>> /\ Unrepeated(list)
      /\ Len(list) \in Nat /\ Len(list) # 0
      /\ k = list[1] /\ k = list[Len(list)]
  BY <1>1, LenProperties, EmptySeq
  DEF TypeOK, Consistent, LoopBody, PurgeRegular, Erase, Last
<1>3. Len(list) = 1
  <2>1. 1 \in 1..Len(list) /\ Len(list) \in 1..Len(list)
    BY <1>2
  <2> QED BY <2>1, <1>2 DEF Unrepeated
<1>4. k \in Range(list) /\ list' = Detach(list, k) /\ Consistent' /\ TypeOK'
  BY <1>1, <1>2, FrontIsDetach, ConsistentStep, TypeStep
  DEF LoopBody, PurgeRegular, Erase
<1>5. list' = <<>>
  <2>1. list' \in Seq(Keys) /\ Len(list') = 0
    BY <1>2, <1>3, <1>4, DetachElements
  <2> QED BY <2>1, EmptySeq
<1>6. current_size' = 0
  <2>1. current_size' \in Nat /\ SumsTo(<<>>, DataOf', current_size')
    BY <1>4, <1>5 DEF Consistent, TypeOK
  <2> HIDE DEF DataOf
  <2> QED BY <2>1, EmptySum
<1>7. current_size > Capacity /\ current_size' = current_size - mapping[k].data
  BY <1>1 DEF LoopBody, OverTarget, PurgeRegular, Erase
<1>8. mapping[k].data \in Nat /\ current_size \in Nat
  BY <1>1, PurgeErases, EraseKeeps DEF TypeOK
<1> QED BY <1>6, <1>7, <1>8, LRUAssumption

\* An object that fits in the cache is never purged by its own put.
THEOREM FittingObjectsArrive == Spec => LostOnArrivalOnlyIfTooLarge
<1>1. TypeOK /\ Consistent /\ [Next]_vars =>
        [\A k \in DOMAIN mapping \ DOMAIN mapping' :
           loop = "put" /\ k = Head(list) => mapping[k].data > Capacity]_vars
  BY LostAlone
<1> QED BY <1>1, AlwaysConsistent, PTL DEF Spec, LostOnArrivalOnlyIfTooLarge

\* The head of the list: the object got or put, until a purge takes it.
LEMMA HeadAfter ==
  ASSUME TypeOK, Consistent
  PROVE  /\ \A k \in Keys, ts \in 0..MaxTime : Get(k, ts) => Head(list') = k
         /\ \A k \in Keys, d \in Sizes, ts \in 0..MaxTime : Put(k, d, ts) => Head(list') = k
         /\ LoopBody /\ Head(list) \in DOMAIN mapping' => Head(list') = Head(list)
<1>1. list \in Seq(Keys) /\ Range(list) = DOMAIN mapping
  BY DEF TypeOK, Consistent
<1>2. ASSUME NEW k \in Keys, NEW ts \in 0..MaxTime, Get(k, ts)
      PROVE  Head(list') = k
  <2>1. Detach(list, k) \in Seq(Keys)
    BY <1>1, <1>2, DetachElements DEF Get
  <2> QED BY <1>2, <2>1, AttachHead DEF Get
<1>3. ASSUME NEW k \in Keys, NEW d \in Sizes, NEW ts \in 0..MaxTime, Put(k, d, ts)
      PROVE  Head(list') = k
  BY <1>1, <1>3, AttachHead DEF Put
<1>4. ASSUME LoopBody, Head(list) \in DOMAIN mapping'
      PROVE  Head(list') = Head(list)
  <2>1. Last(list) \in Range(list) /\ Erase(Last(list))
    BY <1>1, <1>4, PurgeErases
  <2>2. Head(list) # Last(list)
    BY <1>4, <2>1, <1>1, EraseKeeps
  <2> QED BY <1>1, <2>1, <2>2, DetachHead DEF Erase
<1> QED BY <1>2, <1>3, <1>4

-------------------------------------------------------------------------------
(* Refinement *)

\* Every step of LRU is a step of the abstract store or leaves it unchanged.
LEMMA StoreStep ==
  ASSUME TypeOK, Consistent, [Next]_vars
  PROVE  [Store!Next]_(Store!vars)
<1> USE DEF Store!vars
<1>1. ASSUME NEW k \in Keys, NEW ts \in 0..MaxTime, Get(k, ts)
      PROVE  UNCHANGED Store!vars
  <2>1. DOMAIN mapping' = DOMAIN mapping
        /\ \A x \in DOMAIN mapping : mapping'[x].data = mapping[x].data
    BY <1>1 DEF Get, TypeOK, Entries
  <2> QED BY <1>1, <2>1 DEF Get, DataOf
<1>2. ASSUME NEW k \in Keys, NEW d \in Sizes, NEW ts \in 0..MaxTime, Put(k, d, ts)
      PROVE  Store!Put(k, d)
  <2>1. DOMAIN DataOf = DOMAIN mapping
    BY DEF DataOf
  <2>2. DataOf' = [x \in DOMAIN mapping \cup {k} |-> IF x = k THEN d ELSE DataOf[x]]
    BY <1>2 DEF Put, DataOf
  <2> QED BY <1>2, <2>1, <2>2 DEF Put, Store!Put
<1>3. ASSUME NEW ts \in 0..MaxTime, HourlyPurging(ts) PROVE Store!HourlyPurging
  BY <1>3 DEF HourlyPurging, Store!HourlyPurging, DataOf
<1>4. ASSUME LoopBody PROVE \E k \in Keys : Store!Evict(k)
  <2> DEFINE v == Last(list)
  <2>1. v \in DOMAIN mapping /\ v \in Keys
    BY <1>4, PurgeErases, EraseKeeps DEF TypeOK
  <2>2. /\ DOMAIN DataOf = DOMAIN mapping
        /\ DataOf' = Store!Restrict(DataOf, DOMAIN DataOf \ {v})
    BY <1>4 DEF LoopBody, PurgeRegular, Erase, DataOf, Restrict, Store!Restrict
  <2>3. DataOf[v] = mapping[v].data
    BY <2>1 DEF DataOf
  <2>4. Store!OverTarget /\ current_size' = current_size - DataOf[v] /\ loop' = loop
    BY <1>4, <2>3 DEF LoopBody, PurgeRegular, Erase, OverTarget, Store!OverTarget
  <2> QED BY <2>1, <2>2, <2>4 DEF Store!Evict
<1>5. ASSUME LoopExit PROVE Store!Return
  BY <1>5 DEF LoopExit, OverTarget, Store!Return, Store!OverTarget, DataOf
<1>6. CASE UNCHANGED vars
  BY <1>6 DEF vars, DataOf
<1> QED BY <1>1, <1>2, <1>3, <1>4, <1>5, <1>6 DEF Next, Work, Store!Next, Store!Work

\* The safety part of ImplementsStore: LRU does to the abstract store only
\* what the store allows, for every instance.
THEOREM SafelyImplementsStore == Spec => Store!Init /\ [][Store!Next]_(Store!vars)
<1>1. Init => Store!Init
  BY DEF Init, Store!Init, DataOf
<1>2. TypeOK /\ Consistent /\ [Next]_vars => [Store!Next]_(Store!vars)
  BY StoreStep
<1> QED BY <1>1, <1>2, AlwaysConsistent, PTL DEF Spec

-------------------------------------------------------------------------------
(* First in, first out *)

\* No object was put after the last line of the log.
PutsByNow == \A k \in DOMAIN mapping : put_at[k] <= now

FIFOInv ==
  /\ FIFOTypeOK
  /\ Consistent
  /\ OverfullOnlyInPut
  /\ PutsByNow
  /\ Descending(list, put_at)

\* What the FIFO policies share with LRU is a step of LRU.
LEMMA FIFOSteps ==
  ASSUME [AgeNext]_ageVars
  PROVE  \/ \E k \in Keys, ts \in 0..MaxTime : CheckExpired(k, ts) \/ FIFOGet(k, ts)
         \/ \E k \in Keys, d \in Sizes, ts \in 0..MaxTime : FIFOPut(k, d, ts)
         \/ \E ts \in 0..MaxTime : FIFOHourlyPurging(ts)
         \/ FIFOLoopBody
         \/ FIFOLoopExit
         \/ UNCHANGED FIFOVars
BY DEF AgeNext, ageVars, CheckAndGet, AgePut, AgeHourlyPurging, AgeWork, FIFOWork

\* A get changes one timestamp and nothing the invariant speaks of.
LEMMA FIFOGetKeeps ==
  ASSUME FIFOInv, NEW k \in Keys, NEW ts \in 0..MaxTime, FIFOGet(k, ts)
  PROVE  FIFOInv'
<1> USE LRUAssumption DEF FIFOInv
<1>1. /\ DOMAIN mapping' = DOMAIN mapping
      /\ mapping' \in [DOMAIN mapping -> Entries]
      /\ \A x \in DOMAIN mapping : mapping'[x].data = mapping[x].data
  BY DEF FIFOGet, FIFOTypeOK, TypeOK, Entries
<1>2. DataOf' = DataOf
  BY <1>1 DEF DataOf
<1>3. now' = ts /\ ts >= now /\ now \in Int
  BY DEF FIFOGet, Advance, FIFOTypeOK, TypeOK
<1>4. FIFOTypeOK'
  BY <1>1, <1>3 DEF FIFOGet, FIFOTypeOK, TypeOK
<1>5. Consistent'
  BY <1>1, <1>2 DEF FIFOGet, Consistent
<1>6. OverfullOnlyInPut'
  BY DEF FIFOGet, OverfullOnlyInPut
<1>7. PutsByNow'
  <2>1. \A x \in DOMAIN mapping : put_at[x] \in Int
    BY DEF FIFOTypeOK
  <2> QED BY <1>1, <1>3, <2>1 DEF FIFOGet, PutsByNow
<1>8. Descending(list, put_at)'
  BY DEF FIFOGet, Descending
<1> QED BY <1>4, <1>5, <1>6, <1>7, <1>8

\* The expiry of an object takes it out of the list, the map and the counts.
LEMMA CheckExpiredKeeps ==
  ASSUME FIFOInv, NEW k \in Keys, NEW ts \in 0..MaxTime, CheckExpired(k, ts)
  PROVE  FIFOInv'
<1> USE LRUAssumption DEF FIFOInv
<1>1. /\ list \in Seq(Keys) /\ Range(list) = DOMAIN mapping /\ k \in DOMAIN mapping
      /\ list' = Detach(list, k) /\ current_size \in Nat
  BY DEF CheckExpired, Erase, FIFOTypeOK, TypeOK, Consistent
<1>2. /\ list' \in Seq(Keys)
      /\ DOMAIN mapping' = DOMAIN mapping \ {k}
      /\ mapping' \in [DOMAIN mapping' -> Entries]
      /\ current_size' \in Nat /\ current_size' <= current_size
      /\ cache_item_count' \in Nat
      /\ Consistent'
  BY <1>1, EraseKeeps DEF CheckExpired, FIFOTypeOK
<1>3. /\ DOMAIN put_at' = DOMAIN mapping'
      /\ \A x \in DOMAIN mapping' : put_at'[x] = put_at[x]
      /\ put_at' \in [DOMAIN mapping' -> 0..MaxTime]
  BY <1>2 DEF CheckExpired, Forget, Restrict, FIFOTypeOK
<1>4. Range(list') = DOMAIN mapping'
  BY <1>2 DEF Consistent
<1>5. now' = ts /\ ts >= now /\ now \in Int /\ UNCHANGED <<cache_filled_once, loop>>
  BY DEF CheckExpired, Advance, FIFOTypeOK, TypeOK
<1>6. FIFOTypeOK'
  <2>1. TypeOK'
    BY <1>2, <1>5 DEF FIFOTypeOK, TypeOK
  <2> QED BY <2>1, <1>3 DEF FIFOTypeOK
<1>7. OverfullOnlyInPut'
  BY <1>1, <1>2, <1>5 DEF OverfullOnlyInPut
<1>8. PutsByNow'
  <2>1. \A x \in DOMAIN mapping : put_at[x] \in Int /\ put_at[x] <= now
    BY DEF FIFOTypeOK, PutsByNow
  <2> QED BY <1>2, <1>3, <1>5, <2>1 DEF PutsByNow
<1>9. Descending(list, put_at)'
  <2>1. Descending(list', put_at)
    BY <1>1, DescendingDetach
  <2> DEFINE new == put_at'
             left == list'
  <2>2. left \in Seq(Keys) /\ \A x \in Range(left) : new[x] = put_at[x]
    BY <1>2, <1>3, <1>4
  <2>3. Descending(left, put_at)
    BY <2>1
  <2> HIDE DEF new, left
  <2>4. Descending(left, new)
    BY <2>2, <2>3, DescendingSame
  <2> QED BY <2>4 DEF new, left, Descending
<1> QED BY <1>2, <1>6, <1>7, <1>8, <1>9

\* A put goes before everything put earlier.
LEMMA FIFOPutKeeps ==
  ASSUME FIFOInv, NEW k \in Keys, NEW d \in Sizes, NEW ts \in 0..MaxTime,
         FIFOPut(k, d, ts)
  PROVE  FIFOInv'
<1> USE LRUAssumption DEF FIFOInv
<1>1. [Next]_vars
  BY DEF FIFOPut, Next
<1>2. TypeOK' /\ Consistent' /\ OverfullOnlyInPut'
  BY <1>1, TypeStep, ConsistentStep, OverfullStep DEF FIFOTypeOK
<1>3. /\ list \in Seq(Keys) /\ Range(list) = DOMAIN mapping /\ k \notin DOMAIN mapping
      /\ list' = Attach(list, k)
      /\ DOMAIN mapping' = DOMAIN mapping \cup {k}
      /\ now' = ts /\ ts >= now /\ now \in Int
  BY DEF FIFOPut, Put, Advance, FIFOTypeOK, TypeOK, Consistent
<1>4. /\ put_at' \in [DOMAIN mapping' -> 0..MaxTime]
      /\ put_at'[k] = ts
      /\ \A x \in DOMAIN mapping : put_at'[x] = put_at[x]
  BY <1>3 DEF FIFOPut, FIFOTypeOK
<1>5. \A x \in DOMAIN mapping' : put_at'[x] \in Int /\ put_at'[x] <= ts
  <2>1. \A x \in DOMAIN mapping : put_at[x] \in Int /\ put_at[x] <= now
    BY DEF FIFOTypeOK, PutsByNow
  <2> QED BY <1>3, <1>4, <2>1
<1>6. Descending(list, put_at)'
  <2> DEFINE new == put_at'
  <2>1. \A x \in Range(list) : new[x] = put_at[x]
    BY <1>3, <1>4
  <2>2. \A x \in Range(list) \cup {k} : new[x] \in Int /\ new[x] <= new[k]
    BY <1>3, <1>4, <1>5
  <2> HIDE DEF new
  <2>3. Descending(list, new)
    BY <1>3, <2>1, DescendingSame
  <2>4. Descending(Attach(list, k), new)
    BY <1>3, <2>2, <2>3, DescendingAttach
  <2> QED BY <1>3, <2>4 DEF new, Descending
<1> QED BY <1>2, <1>3, <1>4, <1>5, <1>6 DEF FIFOTypeOK, PutsByNow

\* A purge takes the last of the list, which leaves the order of the others.
LEMMA FIFOLoopBodyKeeps ==
  ASSUME FIFOInv, FIFOLoopBody
  PROVE  FIFOInv'
<1> USE LRUAssumption DEF FIFOInv
<1> DEFINE v == Last(list)
<1>1. [Next]_vars /\ LoopBody
  BY DEF FIFOLoopBody, Next, Work
<1>2. TypeOK' /\ Consistent' /\ OverfullOnlyInPut'
  BY <1>1, TypeStep, ConsistentStep, OverfullStep DEF FIFOTypeOK
<1>3. /\ list \in Seq(Keys) /\ v \in Range(list) /\ list' = Detach(list, v)
  BY <1>1, FrontIsDetach
  DEF LoopBody, PurgeRegular, Erase, FIFOTypeOK, TypeOK, Consistent
<1> HIDE DEF v
<1>4. /\ DOMAIN mapping' \subseteq DOMAIN mapping
      /\ DOMAIN put_at' = DOMAIN mapping'
      /\ \A x \in DOMAIN mapping' : put_at'[x] = put_at[x]
      /\ put_at' \in [DOMAIN mapping' -> 0..MaxTime]
      /\ now' = now
  BY DEF FIFOLoopBody, LoopBody, PurgeRegular, Erase, Forget, Restrict, FIFOTypeOK
<1>5. Descending(list, put_at)'
  <2> DEFINE new == put_at'
             left == list'
  <2>1. left \in Seq(Keys) /\ \A x \in Range(left) : new[x] = put_at[x]
    BY <1>2, <1>4 DEF TypeOK, Consistent
  <2>2. Descending(left, put_at)
    BY <1>3, DescendingDetach
  <2> HIDE DEF new, left
  <2>3. Descending(left, new)
    BY <2>1, <2>2, DescendingSame
  <2> QED BY <2>3 DEF new, left, Descending
<1> QED BY <1>2, <1>4, <1>5 DEF FIFOTypeOK, PutsByNow

LEMMA FIFOStep ==
  ASSUME FIFOInv, [AgeNext]_ageVars
  PROVE  FIFOInv'
<1> USE LRUAssumption
<1>1. ASSUME NEW ts \in 0..MaxTime, FIFOHourlyPurging(ts) PROVE FIFOInv'
  <2>1. [Next]_vars
    BY <1>1 DEF FIFOHourlyPurging, Next
  <2>2. TypeOK' /\ Consistent' /\ OverfullOnlyInPut'
    BY <2>1, TypeStep, ConsistentStep, OverfullStep DEF FIFOInv, FIFOTypeOK
  <2>3. UNCHANGED <<list, mapping, put_at>> /\ now' >= now /\ now' \in Int /\ now \in Int
    BY <1>1 DEF FIFOHourlyPurging, HourlyPurging, Advance, FIFOInv, FIFOTypeOK, TypeOK
  <2>4. \A x \in DOMAIN mapping : put_at[x] \in Int /\ put_at[x] <= now
    BY DEF FIFOInv, FIFOTypeOK, PutsByNow
  <2> QED BY <2>2, <2>3, <2>4 DEF FIFOInv, FIFOTypeOK, PutsByNow, Descending
<1>2. ASSUME FIFOLoopExit PROVE FIFOInv'
  <2>1. [Next]_vars
    BY <1>2 DEF FIFOLoopExit, Next, Work
  <2>2. TypeOK' /\ Consistent' /\ OverfullOnlyInPut'
    BY <2>1, TypeStep, ConsistentStep, OverfullStep DEF FIFOInv, FIFOTypeOK
  <2>3. UNCHANGED <<list, mapping, put_at, now>>
    BY <1>2 DEF FIFOLoopExit, LoopExit
  <2> QED BY <2>2, <2>3 DEF FIFOInv, FIFOTypeOK, PutsByNow, Descending
<1>3. CASE UNCHANGED FIFOVars
  BY <1>3 DEF FIFOVars, vars, FIFOInv, FIFOTypeOK, TypeOK, Consistent, DataOf,
              OverfullOnlyInPut, PutsByNow, Descending
<1> QED BY <1>1, <1>2, <1>3, FIFOSteps, FIFOGetKeeps, CheckExpiredKeeps,
           FIFOPutKeeps, FIFOLoopBodyKeeps

\* The inductive invariant of both FIFO policies: the order of the puts needs
\* PutsByNow, as the order of the requests does for LRU.
THEOREM FIFOInductive == AgeSpec => []FIFOInv
<1>1. AgeInit => FIFOInv
  <2> SUFFICES ASSUME AgeInit PROVE FIFOInv
    OBVIOUS
  <2>1. /\ Init
        /\ list = <<>> /\ Len(list) = 0
        /\ DOMAIN mapping = {} /\ put_at = [k \in {} |-> 0]
    BY DEF AgeInit, FIFOInit, Init
  <2>2. OverfullOnlyInPut
    BY <2>1, LRUAssumption DEF Init, OverfullOnlyInPut
  <2>3. put_at \in [DOMAIN mapping -> 0..MaxTime]
    BY <2>1
  <2>4. PutsByNow /\ Descending(list, put_at)
    BY <2>1 DEF PutsByNow, Descending
  <2> QED BY <2>1, <2>2, <2>3, <2>4, TypeInit, ConsistentInit DEF FIFOInv, FIFOTypeOK
<1>2. FIFOInv /\ [AgeNext]_ageVars => FIFOInv'
  BY FIFOStep
<1> QED BY <1>1, <1>2, PTL DEF AgeSpec

\* Whatever the time to live, the list, the map and the counts of the FIFO
\* policies agree, after an object was deleted by check as well, and between
\* operations the capacity holds.
THEOREM FIFOIsWellFormed == AgeSpec => []FIFOWellFormed
<1>1. FIFOInv => FIFOWellFormed
  BY DEF FIFOInv, FIFOWellFormed, OverfullOnlyInPut, FitsAtRest
<1> QED BY <1>1, FIFOInductive, PTL

\* The expiry of objects leaves no purge loop spinning on an empty list.
THEOREM FIFOLoopsNeverSpin == AgeSpec => []NeverSpins
<1>1. FIFOInv => NeverSpins
  BY OverTargetHasNodes DEF FIFOInv, FIFOTypeOK
<1> QED BY <1>1, FIFOInductive, PTL

\* README: "Items are purged in first-in-first-out order": what a purge
\* takes was put no later than anything it leaves, requests notwithstanding.
THEOREM FirstInFirstOut == AgeSpec => EvictsFirstIn
<1>1. ASSUME FIFOInv, [AgeNext]_ageVars, loop # "idle",
             NEW k \in DOMAIN mapping \ DOMAIN mapping', NEW j \in DOMAIN mapping'
      PROVE  put_at[k] <= put_at[j]
  <2>1. FIFOLoopBody
    <3>1. ~UNCHANGED mapping
      OBVIOUS
    <3>2. ASSUME NEW x \in Keys, NEW ts \in 0..MaxTime
          PROVE  ~FIFOGet(x, ts) /\ ~CheckExpired(x, ts)
      BY <1>1 DEF FIFOGet, CheckExpired
    <3>3. ASSUME NEW x \in Keys, NEW d \in Sizes, NEW ts \in 0..MaxTime
          PROVE  ~FIFOPut(x, d, ts)
      BY <1>1 DEF FIFOPut, Put
    <3>4. ASSUME NEW ts \in 0..MaxTime PROVE ~FIFOHourlyPurging(ts)
      BY <1>1 DEF FIFOHourlyPurging, HourlyPurging
    <3>5. ~FIFOLoopExit /\ ~UNCHANGED FIFOVars
      BY <3>1 DEF FIFOLoopExit, LoopExit, FIFOVars, vars
    <3> QED BY <1>1, <3>2, <3>3, <3>4, <3>5, FIFOSteps
  <2>2. k = Last(list) /\ DOMAIN mapping' \subseteq DOMAIN mapping
    BY <2>1 DEF FIFOLoopBody, LoopBody, PurgeRegular, Erase, Restrict
  <2>3. list \in Seq(Keys) /\ Range(list) = DOMAIN mapping
        /\ Len(list) \in Nat /\ DOMAIN list = 1..Len(list)
    BY <1>1, LenProperties DEF FIFOInv, FIFOTypeOK, TypeOK, Consistent
  <2>4. PICK i \in 1..Len(list) : list[i] = j
    BY <2>2, <2>3 DEF Range
  <2>5. i <= Len(list) /\ Len(list) \in 1..Len(list)
    BY <2>3
  <2>6. put_at[list[i]] >= put_at[list[Len(list)]]
    BY <1>1, <2>5 DEF FIFOInv, Descending
  <2>7. put_at[k] \in Int /\ put_at[j] \in Int
    BY <1>1, <2>2, LRUAssumption DEF FIFOInv, FIFOTypeOK
  <2> QED BY <2>2, <2>4, <2>6, <2>7 DEF Last
<1>2. FIFOInv /\ [AgeNext]_ageVars =>
        [\A k \in DOMAIN mapping \ DOMAIN mapping', i \in DOMAIN mapping' :
           loop # "idle" => put_at[k] <= put_at[i]]_FIFOVars
  BY <1>1
<1> QED BY <1>2, FIFOInductive, PTL DEF AgeSpec, EvictsFirstIn

-------------------------------------------------------------------------------
(* Eviction by score *)

\* Products of naturals grow with their factors.
LEMMA ProductGrows ==
  ASSUME NEW a \in Nat, NEW b \in Nat, NEW c \in Nat, NEW d \in Nat,
         a <= b, c <= d
  PROVE  a * c \in Nat /\ b * d \in Nat /\ a * c <= b * d
<1>1. PICK x \in Nat : b = a + x
  <2>1. b - a \in Nat /\ b = a + (b - a)
    OBVIOUS
  <2> QED BY <2>1
<1>2. PICK y \in Nat : d = c + y
  <2>1. d - c \in Nat /\ d = c + (d - c)
    OBVIOUS
  <2> QED BY <2>1
<1>3. /\ a * c \in Nat /\ a * y \in Nat /\ x * c \in Nat /\ x * y \in Nat
      /\ (a + x) * (c + y) = a * c + a * y + x * c + x * y
  OBVIOUS
<1> QED BY <1>1, <1>2, <1>3

LEMMA ProductGrowsStrictly ==
  ASSUME NEW a \in Nat, NEW b \in Nat, NEW c \in Nat, NEW d \in Nat,
         a < b, c <= d, 0 < d
  PROVE  a * c < b * d
<1>1. a + 1 \in Nat /\ a + 1 <= b /\ (a + 1) * d = a * d + d /\ a * d \in Nat
  OBVIOUS
<1>2. a * c <= a * d /\ a * c \in Nat
  BY ProductGrows
<1>3. (a + 1) * d <= b * d /\ b * d \in Nat
  BY <1>1, ProductGrows
<1> QED BY <1>1, <1>2, <1>3

\* The ages of a pass: none is negative, as the head was used last, and what
\* was used earlier is older.
LEMMA Ages ==
  ASSUME IInv, NEW k \in DOMAIN mapping
  PROVE  /\ Age(k) \in 0..MaxTime /\ Span \in Nat
         /\ \A other \in DOMAIN mapping :
              mapping[other].timestamp < mapping[k].timestamp => Age(k) < Age(other)
<1> USE LRUAssumption DEF IInv
<1>1. /\ list \in Seq(Keys) /\ Len(list) \in Nat /\ DOMAIN list = 1..Len(list)
      /\ Range(list) = DOMAIN mapping
  BY LenProperties DEF TypeOK, Consistent
<1>2. PICK i \in 1..Len(list) : list[i] = k
  BY <1>1 DEF Range
<1>3. 1 \in 1..Len(list) /\ Len(list) \in 1..Len(list) /\ list # <<>>
  BY <1>1, <1>2
<1>4. Head(list) = list[1] /\ Last(list) = list[Len(list)]
  BY <1>1, <1>3 DEF Last
<1>5. Head(list) \in DOMAIN mapping /\ Last(list) \in DOMAIN mapping
  BY <1>1, <1>3, <1>4 DEF Range
<1>6. \A x \in DOMAIN mapping : mapping[x].timestamp \in 0..MaxTime
  BY DEF TypeOK, Entries
<1>7. /\ mapping[Head(list)].timestamp >= mapping[k].timestamp
      /\ mapping[Head(list)].timestamp >= mapping[Last(list)].timestamp
  BY <1>2, <1>3, <1>4 DEF OldestAtTail
<1> DEFINE stamp(x) == mapping[x].timestamp
<1>8. \A x \in DOMAIN mapping : stamp(x) \in 0..MaxTime
  BY <1>6
<1>9. stamp(Head(list)) >= stamp(k) /\ stamp(Head(list)) >= stamp(Last(list))
  BY <1>7
<1>10. \A x : Age(x) = stamp(Head(list)) - stamp(x)
  BY DEF Age
<1>11. Span = stamp(Head(list)) - stamp(Last(list))
  BY DEF Span, Age
<1> HIDE DEF stamp
<1>12. Age(k) \in 0..MaxTime /\ Span \in Nat
  BY <1>5, <1>8, <1>9, <1>10, <1>11
<1>13. \A other \in DOMAIN mapping : stamp(other) < stamp(k) => Age(k) < Age(other)
  BY <1>5, <1>8, <1>10
<1> QED BY <1>12, <1>13 DEF stamp

\* The parameters of the formulas, with what they are made of.
LEMMA Parameters ==
  ASSUME IInv, NEW f \in SizeScores, NEW k \in DOMAIN mapping
  PROVE  /\ grades \in Nat /\ w_age \in Nat /\ w_size \in Nat /\ ef4_e \in Nat
         /\ grades > 0
         /\ SizeScore(f, k) \in Nat
         /\ Age(k) \in Nat /\ Span \in Nat /\ age_power[Age(k)] \in Nat
<1>1. mapping[k].data \in Sizes
  BY DEF IInv, TypeOK, Entries
<1>2. f \in [Sizes -> 0..grades]
  BY DEF SizeScores
<1>3. Age(k) \in 0..MaxTime /\ Span \in Nat
  BY Ages
<1>4. /\ grades \in Nat /\ w_age \in Nat /\ w_size \in Nat /\ ef4_e \in Nat
      /\ grades > 0
      /\ age_power \in [0..MaxTime -> Nat]
  BY CostLRUAssumption
<1>5. SizeScore(f, k) \in Nat
  BY <1>1, <1>2, <1>4 DEF SizeScore
<1>6. Age(k) \in Nat /\ age_power[Age(k)] \in Nat
  BY <1>3, <1>4
<1> QED BY <1>3, <1>4, <1>5, <1>6

\* A formula in which age counts gives the dominating object the higher score.
LEMMA ScoresRise ==
  ASSUME IInv, CostTypeOK, NEW f \in SizeScores, NEW k \in DOMAIN mapping
  PROVE  /\ Score(f, k) \in Nat
         /\ \A other \in DOMAIN mapping :
              Dominates(other, k) => Score(f, k) < Score(f, other)
<1> DEFINE g == grades
           n == Span
           F == eviction_formula
           a(x) == Age(x)
           z(x) == SizeScore(f, x)
           p(x) == age_power[Age(x)]
           w(x) == g * a(x) * w_age + z(x) * w_size * n
<1>1. /\ g \in Nat /\ w_age \in Nat /\ w_size \in Nat /\ ef4_e \in Nat /\ n \in Nat
      /\ g > 0
  BY Parameters
<1>2. \A x \in DOMAIN mapping : a(x) \in Nat /\ z(x) \in Nat /\ p(x) \in Nat
  BY Parameters
<1>3. F \in 1..8
  BY CostLRUAssumption DEF CostTypeOK
<1>4. ASSUME NEW x \in DOMAIN mapping
      PROVE  /\ F = 1 => Score(f, x) = w(x)
             /\ F = 2 => Score(f, x) = (IF x \in NoBFCust THEN 2 ELSE 1) * w(x)
             /\ F = 3 => Score(f, x) = a(x) * (z(x) * w_size)
             /\ F = 4 => Score(f, x) = p(x) * (z(x) * w_size + g * ef4_e)
             /\ F = 5 => Score(f, x) = p(x) * (z(x) * w_size + g * a(x))
             /\ F = 6 => Score(f, x) = g * p(x) + z(x) * w_size * a(x)
             /\ F = 7 => Score(f, x) = p(x) * (z(x) * w_size * n + g * ef4_e)
             /\ F = 8 => Score(f, x) = IF hour_count % lru_interval = 0
                                          THEN g * a(x) ELSE w(x)
  <2> HIDE DEF g, n, a, z, p, w
  <2> QED BY <1>3 DEF Score, Weighted, g, n, a, z, p, w
<1>5. ASSUME NEW other \in DOMAIN mapping, Dominates(other, k)
      PROVE  /\ a(k) < a(other) /\ p(k) < p(other) /\ z(k) <= z(other)
             /\ F # 3
             /\ F \in {1, 2, 8} => w_age > 0
             /\ F \in {4, 7} => ef4_e > 0
             /\ F = 2 /\ k \in NoBFCust => other \in NoBFCust
  <2>1. a(k) < a(other) /\ a(k) \in 0..MaxTime /\ a(other) \in 0..MaxTime
    BY <1>5, Ages DEF Dominates
  <2>2. p(k) < p(other)
    BY <2>1, CostLRUAssumption
  <2>3. /\ mapping[k].data \in Sizes /\ mapping[other].data \in Sizes
        /\ \A x, y \in Sizes : x <= y => f[x] <= f[y]
    BY DEF IInv, TypeOK, Entries, SizeScores
  <2>4. mapping[k].data <= mapping[other].data
    BY <1>5, <2>3, LRUAssumption DEF Dominates
  <2>5. z(k) <= z(other)
    BY <2>3, <2>4 DEF SizeScore
  <2>6. /\ F # 3
        /\ F \in {1, 2, 8} => w_age > 0
        /\ F \in {4, 7} => ef4_e > 0
        /\ F = 2 /\ k \in NoBFCust => other \in NoBFCust
    BY <1>5 DEF Dominates, AgeCounts
  <2> QED BY <2>1, <2>2, <2>5, <2>6
<1> HIDE DEF g, n, F, a, z, p
\* The parts of the scores are natural numbers, and grow.
<1>6. ASSUME NEW x \in DOMAIN mapping
      PROVE  /\ z(x) * w_size \in Nat /\ g * ef4_e \in Nat
             /\ ef4_e > 0 => g * ef4_e > 0
             /\ g * a(x) \in Nat /\ g * a(x) * w_age \in Nat
             /\ z(x) * w_size * n \in Nat /\ z(x) * w_size * a(x) \in Nat
             /\ g * p(x) \in Nat /\ w(x) \in Nat
  <2>1. z(x) * w_size \in Nat /\ g * ef4_e \in Nat /\ g * a(x) \in Nat /\ g * p(x) \in Nat
    BY <1>1, <1>2
  <2>2. ASSUME ef4_e > 0 PROVE g * ef4_e > 0
    <3>1. 0 * ef4_e < g * ef4_e
      BY <1>1, <2>2, ProductGrowsStrictly
    <3> QED BY <3>1, <2>1, <1>1
  <2>3. /\ g * a(x) * w_age \in Nat /\ z(x) * w_size * n \in Nat
        /\ z(x) * w_size * a(x) \in Nat
    BY <2>1, <1>1, <1>2
  <2> QED BY <2>1, <2>2, <2>3
<1>7. Score(f, k) \in Nat
  <2>1. w(k) \in Nat /\ 2 * w(k) \in Nat /\ 1 * w(k) \in Nat
    BY <1>6
  <2>2. /\ a(k) * (z(k) * w_size) \in Nat
        /\ p(k) * (z(k) * w_size + g * ef4_e) \in Nat
        /\ p(k) * (z(k) * w_size + g * a(k)) \in Nat
        /\ g * p(k) + z(k) * w_size * a(k) \in Nat
        /\ p(k) * (z(k) * w_size * n + g * ef4_e) \in Nat
    BY <1>2, <1>6
  <2> HIDE DEF w
  <2>3. F = 1 \/ F = 2 \/ F = 3 \/ F = 4 \/ F = 5 \/ F = 6 \/ F = 7 \/ F = 8
    BY <1>3 DEF F
  <2> QED BY <1>4, <1>6, <2>1, <2>2, <2>3
<1>8. ASSUME NEW other \in DOMAIN mapping, Dominates(other, k)
      PROVE  Score(f, k) < Score(f, other)
  <2>1. g * a(k) < g * a(other) /\ g * p(k) < g * p(other)
    <3>1. a(k) * g < a(other) * g /\ p(k) * g < p(other) * g
      BY <1>1, <1>2, <1>5, <1>8, ProductGrowsStrictly
    <3> QED BY <3>1, <1>1, <1>2
  <2>2. z(k) * w_size <= z(other) * w_size
    BY <1>1, <1>2, <1>5, <1>8, ProductGrows
  <2>3. /\ z(k) * w_size * n <= z(other) * w_size * n
        /\ z(k) * w_size * a(k) <= z(other) * w_size * a(other)
    <3>1. a(k) <= a(other)
      BY <1>2, <1>5, <1>8
    <3> QED BY <2>2, <3>1, <1>1, <1>2, <1>6, ProductGrows
  <2>4. ASSUME w_age > 0 PROVE w(k) < w(other)
    <3>1. g * a(k) * w_age < g * a(other) * w_age
      BY <2>1, <2>4, <1>1, <1>6, ProductGrowsStrictly
    <3> QED BY <2>3, <3>1, <1>6
  <2>5. CASE F = 1
    BY <2>4, <2>5, <1>4, <1>5, <1>8
  <2>6. CASE F = 2
    <3>1. w(k) < w(other) /\ w(k) \in Nat /\ w(other) \in Nat
      BY <2>4, <2>6, <1>5, <1>6, <1>8
    <3> HIDE DEF w
    <3>2. /\ Score(f, k) = (IF k \in NoBFCust THEN 2 ELSE 1) * w(k)
          /\ Score(f, other) = (IF other \in NoBFCust THEN 2 ELSE 1) * w(other)
      BY <2>6, <1>4
    <3>3. k \in NoBFCust => other \in NoBFCust
      BY <2>6, <1>5, <1>8
    <3> QED BY <3>1, <3>2, <3>3
  <2>7. CASE F = 4
    <3>1. z(k) * w_size + g * ef4_e <= z(other) * w_size + g * ef4_e
          /\ 0 < z(other) * w_size + g * ef4_e
      BY <2>2, <2>7, <1>5, <1>6, <1>8
    <3>2. z(k) * w_size + g * ef4_e \in Nat /\ z(other) * w_size + g * ef4_e \in Nat
      BY <1>6
    <3>3. p(k) * (z(k) * w_size + g * ef4_e) < p(other) * (z(other) * w_size + g * ef4_e)
      BY <3>1, <3>2, <1>2, <1>5, <1>8, ProductGrowsStrictly
    <3> QED BY <3>3, <2>7, <1>4
  <2>8. CASE F = 5
    <3>1. z(k) * w_size + g * a(k) <= z(other) * w_size + g * a(other)
          /\ 0 < z(other) * w_size + g * a(other)
      BY <2>1, <2>2, <2>8, <1>6
    <3>2. z(k) * w_size + g * a(k) \in Nat /\ z(other) * w_size + g * a(other) \in Nat
      BY <1>6
    <3>3. p(k) * (z(k) * w_size + g * a(k)) < p(other) * (z(other) * w_size + g * a(other))
      BY <3>1, <3>2, <1>2, <1>5, <1>8, ProductGrowsStrictly
    <3> QED BY <3>3, <2>8, <1>4
  <2>9. CASE F = 6
    <3>1. g * p(k) + z(k) * w_size * a(k) < g * p(other) + z(other) * w_size * a(other)
      BY <2>1, <2>3, <2>9, <1>6
    <3> QED BY <3>1, <2>9, <1>4
  <2>10. CASE F = 7
    <3>1. z(k) * w_size * n + g * ef4_e <= z(other) * w_size * n + g * ef4_e
          /\ 0 < z(other) * w_size * n + g * ef4_e
      BY <2>3, <2>10, <1>5, <1>6, <1>8
    <3>2. z(k) * w_size * n + g * ef4_e \in Nat /\ z(other) * w_size * n + g * ef4_e \in Nat
      BY <1>6
    <3>3. p(k) * (z(k) * w_size * n + g * ef4_e)
            < p(other) * (z(other) * w_size * n + g * ef4_e)
      BY <3>1, <3>2, <1>2, <1>5, <1>8, ProductGrowsStrictly
    <3> QED BY <3>3, <2>10, <1>4
  <2>11. CASE F = 8
    BY <2>1, <2>4, <2>11, <1>4, <1>5, <1>8
  <2>12. F # 3
    BY <1>5, <1>8
  <2>13. F = 1 \/ F = 2 \/ F = 3 \/ F = 4 \/ F = 5 \/ F = 6 \/ F = 7 \/ F = 8
    BY <1>3 DEF F
  <2> QED BY <2>5, <2>6, <2>7, <2>8, <2>9, <2>10, <2>11, <2>12, <2>13
<1> QED BY <1>7, <1>8

\* A pass knows the score of every object and orders them as it must.
PassScores ==
  /\ scored \subseteq DOMAIN mapping
  /\ deciding =>
       /\ loop # "idle"
       /\ DOMAIN score_vector = DOMAIN mapping
       /\ scored = DOMAIN mapping
       /\ \A k, other \in DOMAIN mapping :
            Dominates(other, k) => score_vector[k] < score_vector[other]

CostInv ==
  /\ CostTypeOK
  /\ IInv
  /\ OverfullOnlyInPut
  /\ PassScores

\* get and put leave the scores alone, which are of a pass that has ended.
LEMMA RequestKeeps ==
  ASSUME CostInv,
         \/ \E k \in Keys, ts \in 0..MaxTime : CostGet(k, ts)
         \/ \E k \in Keys, d \in Sizes, ts \in 0..MaxTime : CostPut(k, d, ts)
  PROVE  CostInv'
<1> USE DEF CostInv
<1>1. [Next]_vars
  BY DEF CostGet, CostPut, Next
<1>2. IInv' /\ OverfullOnlyInPut'
  BY <1>1, TypeStep, ConsistentStep, RequestedByNowStep, OldestStep, OverfullStep
  DEF IInv
<1>3. /\ loop = "idle" /\ DOMAIN mapping \subseteq DOMAIN mapping'
      /\ UNCHANGED <<pass, hours>>
  BY DEF CostGet, CostPut, Get, Put
<1>4. CostTypeOK'
  BY <1>2, <1>3 DEF CostTypeOK, IInv, pass, hours
<1>5. PassScores'
  BY <1>3 DEF PassScores, pass
<1> QED BY <1>2, <1>3, <1>4, <1>5 DEF hours

\* What only moves the program counter.
LEMMA CounterKeeps ==
  ASSUME CostInv, UNCHANGED <<contents, cache_filled_once, eviction_formula>>,
         now' >= now, CostTypeOK',
         loop' # "put" => current_size <= Capacity,
         scored' = scored, ~deciding'
  PROVE  CostInv'
<1> USE DEF CostInv, contents
<1>1. TypeOK' /\ now \in Int /\ now' \in Int
  BY LRUAssumption DEF CostTypeOK, TypeOK
<1>2. \A k \in DOMAIN mapping : mapping[k].timestamp \in Int
  BY LRUAssumption DEF IInv, TypeOK, Entries
<1>3. IInv'
  BY <1>1, <1>2 DEF IInv, Consistent, DataOf, RequestedByNow, OldestAtTail
<1>4. OverfullOnlyInPut'
  BY DEF OverfullOnlyInPut
<1>5. PassScores'
  BY DEF PassScores
<1> QED BY <1>3, <1>4, <1>5

LEMMA ComputeScoresKeeps ==
  ASSUME CostInv, ComputeScores
  PROVE  CostInv'
<1> USE DEF CostInv
<1>1. UNCHANGED <<vars, hours>>
  BY DEF ComputeScores
<1>2. IInv' /\ OverfullOnlyInPut'
  BY <1>1 DEF vars, hours, IInv, TypeOK, Consistent, DataOf, RequestedByNow,
              OldestAtTail, OverfullOnlyInPut
<1>3. PICK f \in SizeScores :
        /\ size_score' = f
        /\ score_vector' = [k \in DOMAIN mapping |-> Score(f, k)]
  BY DEF ComputeScores
<1>4. /\ deciding' = TRUE /\ loop # "idle" /\ loop' = loop
      /\ scored' = DOMAIN mapping /\ mapping' = mapping
      /\ eviction_formula' = eviction_formula
  BY <1>1 DEF ComputeScores, PassScores, vars, hours
<1>5. \A k \in DOMAIN mapping :
        /\ Score(f, k) \in Nat
        /\ \A other \in DOMAIN mapping :
             Dominates(other, k) => Score(f, k) < Score(f, other)
  BY ScoresRise
<1>6. CostTypeOK'
  <2>1. score_vector' \in [DOMAIN mapping -> Nat] /\ DOMAIN score_vector' = DOMAIN mapping
    BY <1>3, <1>5
  <2>2. TypeOK' /\ DOMAIN mapping \subseteq Keys
    BY <1>2 DEF IInv, TypeOK
  <2> QED BY <1>1, <1>3, <1>4, <2>1, <2>2 DEF CostTypeOK, hours
<1>7. PassScores'
  <2>1. ASSUME NEW k \in DOMAIN mapping, NEW other \in DOMAIN mapping, Dominates(other, k)'
        PROVE  score_vector'[k] < score_vector'[other]
    <3>1. Dominates(other, k)
      BY <1>4, <2>1 DEF Dominates, AgeCounts
    <3>2. Score(f, k) < Score(f, other)
      BY <1>5, <3>1
    <3> QED BY <3>2, <1>3
  <2>2. DOMAIN score_vector' = DOMAIN mapping
    BY <1>3
  <2> QED BY <1>4, <2>1, <2>2 DEF PassScores
<1> QED BY <1>2, <1>6, <1>7

LEMMA DecideDeleteKeeps ==
  ASSUME CostInv, DecideDelete
  PROVE  CostInv'
<1> USE DEF CostInv
<1>1. PICK key \in HighestScore : Erase(key) /\ Unscore(key)
  BY DEF DecideDelete
<1>2. /\ deciding /\ DOMAIN score_vector = DOMAIN mapping /\ scored = DOMAIN mapping
      /\ loop # "idle" /\ key \in DOMAIN mapping
  BY DEF DecideDelete, PassScores, HighestScore
<1>3. TypeOK /\ Consistent /\ RequestedByNow /\ OldestAtTail
  BY DEF IInv
<1>4. /\ list' \in Seq(Keys)
      /\ DOMAIN mapping' = DOMAIN mapping \ {key}
      /\ \A x \in DOMAIN mapping' : mapping'[x] = mapping[x]
      /\ mapping' \in [DOMAIN mapping' -> Entries]
      /\ current_size' \in Nat /\ current_size' <= current_size
      /\ cache_item_count' \in Nat
      /\ Consistent'
  BY <1>1, <1>2, <1>3, EraseKeeps
<1>5. /\ UNCHANGED <<cache_filled_once, loop, now, deciding, size_score>>
      /\ UNCHANGED <<eviction_formula, hour_count, total_hourly_purge_intervals>>
  BY DEF DecideDelete, hours
<1>6. TypeOK'
  BY <1>3, <1>4, <1>5 DEF TypeOK
<1>7. /\ scored' = scored \ {key}
      /\ DOMAIN score_vector' = DOMAIN score_vector \ {key}
      /\ \A x \in DOMAIN score_vector' : score_vector'[x] = score_vector[x]
      /\ score_vector' \in [DOMAIN score_vector' -> Nat]
  BY <1>1 DEF Unscore, Restrict, CostTypeOK
<1>8. CostTypeOK'
  <2>1. scored' \subseteq Keys
    BY <1>7 DEF CostTypeOK
  <2> QED BY <1>5, <1>6, <1>7, <2>1 DEF CostTypeOK
<1>9. RequestedByNow'
  BY <1>3, <1>4, <1>5 DEF RequestedByNow
<1>10. OldestAtTail'
  BY <1>1, <1>2, <1>3, EraseKeepsOrder
<1>11. OverfullOnlyInPut'
  <2>1. current_size \in Nat
    BY <1>3 DEF TypeOK
  <2> QED BY <1>4, <1>5, <2>1, LRUAssumption DEF OverfullOnlyInPut
<1>12. PassScores'
  <2>1. ASSUME NEW k \in DOMAIN mapping', NEW other \in DOMAIN mapping', Dominates(other, k)'
        PROVE  score_vector'[k] < score_vector'[other]
    <3>1. Dominates(other, k)
      BY <1>4, <1>5, <2>1 DEF Dominates, AgeCounts
    <3>2. score_vector[k] < score_vector[other]
      BY <1>2, <1>4, <3>1 DEF PassScores
    <3> QED BY <3>2, <1>2, <1>4, <1>7
  <2> QED BY <1>2, <1>4, <1>5, <1>7, <2>1 DEF PassScores
<1> QED BY <1>4, <1>5, <1>6, <1>8, <1>9, <1>10, <1>11, <1>12 DEF IInv

\* A pass that has met every object has emptied the cache.
LEMMA PassFits ==
  ASSUME CostInv, deciding, score_vector = Nothing
  PROVE  current_size <= Capacity
<1>1. list \in Seq(Keys) /\ Range(list) = {} /\ current_size \in Nat
      /\ SumsTo(list, DataOf, current_size)
  BY DEF CostInv, IInv, TypeOK, Consistent, PassScores, Nothing
<1>2. list = <<>>
  <2>1. Len(list) \in Nat /\ \A i \in 1..Len(list) : list[i] \in Range(list)
    BY <1>1, LenProperties DEF Range
  <2>2. ~(1 \in 1..Len(list))
    BY <1>1, <2>1
  <2>3. Len(list) = 0
    BY <2>1, <2>2
  <2> QED BY <1>1, <2>3, EmptySeq
<1>3. current_size = 0
  <2> HIDE DEF DataOf
  <2> QED BY <1>1, <1>2, EmptySum
<1> QED BY <1>3, LRUAssumption

LEMMA CostStep ==
  ASSUME CostInv, [CostNext]_CostVars
  PROVE  CostInv'
<1> USE LRUAssumption
<1>1. ASSUME PutFits PROVE CostInv'
  <2>1. CostTypeOK'
    BY <1>1 DEF PutFits, CostInv, CostTypeOK, TypeOK, contents, pass, hours, Loops
  <2> QED BY <1>1, <2>1, CounterKeeps
      DEF PutFits, CostInv, CostTypeOK, TypeOK, pass, hours
<1>2. ASSUME NEW ts \in 0..MaxTime, CostHourlyPurging(ts) PROVE CostInv'
  <2>1. now' = ts /\ ts >= now
    BY <1>2 DEF CostHourlyPurging, Advance
  <2>2. total_hourly_purge_intervals' \in 0..lru_interval - 1
    <3>1. total_hourly_purge_intervals + 1 \in Nat /\ lru_interval \in Nat \ {0}
      BY CostLRUAssumption DEF CostInv, CostTypeOK
    <3> QED BY <1>2, <3>1 DEF CostHourlyPurging
  <2>3. CostTypeOK'
    BY <1>2, <2>1, <2>2
    DEF CostHourlyPurging, CostInv, CostTypeOK, TypeOK, contents, pass, Loops
  <2>4. current_size <= Capacity /\ ~deciding
    BY <1>2 DEF CostHourlyPurging, CostInv, OverfullOnlyInPut, PassScores
  <2> QED BY <1>2, <2>1, <2>3, <2>4, CounterKeeps DEF CostHourlyPurging, pass
<1>3. ASSUME DecideEnd PROVE CostInv'
  <2>1. current_size <= Capacity
    BY <1>3, PassFits DEF DecideEnd
  <2>2. CostTypeOK'
    BY <1>3
    DEF DecideEnd, CostInv, CostTypeOK, TypeOK, contents, hours, Loops, Nothing
  <2> QED BY <1>3, <2>1, <2>2, CounterKeeps
      DEF DecideEnd, CostInv, CostTypeOK, TypeOK, hours
<1>4. CASE UNCHANGED CostVars
  BY <1>4 DEF CostVars, vars, pass, hours, CostInv, CostTypeOK, IInv, TypeOK, AgeCounts,
              Consistent, DataOf, RequestedByNow, OldestAtTail, OverfullOnlyInPut,
              PassScores, Dominates
<1> QED BY <1>1, <1>2, <1>3, <1>4, RequestKeeps, ComputeScoresKeeps, DecideDeleteKeeps
        DEF CostNext, CostWork

\* The inductive invariant of the cost-based LRU: scores are taken while the
\* list is in the order of last use, which makes them what Ages says, and no
\* score changes before the pass has ended.
THEOREM CostInductive == CostSpec => []CostInv
<1>1. CostInit => CostInv
  <2> SUFFICES ASSUME CostInit PROVE CostInv
    OBVIOUS
  <2>1. Init /\ list = <<>> /\ Len(list) = 0 /\ DOMAIN mapping = {}
    BY DEF CostInit, Init
  <2>2. TypeOK /\ Consistent
    BY <2>1, TypeInit, ConsistentInit
  <2>3. IInv
    BY <2>1, <2>2 DEF IInv, RequestedByNow, OldestAtTail
  <2>4. OverfullOnlyInPut
    BY <2>1, LRUAssumption DEF Init, OverfullOnlyInPut
  <2>5. CostTypeOK
    <3>1. lru_interval \in Nat \ {0}
      BY CostLRUAssumption
    <3>2. 0 \in 0..lru_interval - 1 /\ {} \subseteq Keys
      BY <3>1
    <3>3. Nothing \in [DOMAIN Nothing -> Nat]
      BY DEF Nothing
    <3> QED BY <2>2, <3>2, <3>3 DEF CostInit, CostTypeOK
  <2> QED BY <2>3, <2>4, <2>5 DEF CostInv, CostInit, PassScores
<1>2. CostInv /\ [CostNext]_CostVars => CostInv'
  BY CostStep
<1> QED BY <1>1, <1>2, PTL DEF CostSpec

\* The list, the map, the counts and the scores of the cost-based LRU agree,
\* and one pass is enough to bring a cache under its capacity.
THEOREM CostIsWellFormed == CostSpec => []CostWellFormed
<1>1. CostInv => CostWellFormed
  BY DEF CostInv, CostWellFormed, IInv, ScoresAreOfResidents, PassScores,
         OverfullOnlyInPut, FitsAtRest
<1> QED BY <1>1, CostInductive, PTL

\* Whatever the weights, 0 included, the powers of the ages, the size scores
\* and the hour, a pass never evicts an object while one that is older and at
\* least as large stays, wherever the age has a part in the score.
THEOREM NoneDominatedGoes == CostSpec => EvictsNoneDominated
<1>1. ASSUME CostInv, [CostNext]_CostVars,
             NEW k \in DOMAIN mapping \ DOMAIN mapping', NEW other \in DOMAIN mapping',
             Dominates(other, k)
      PROVE  FALSE
  <2>1. DecideDelete
    <3>1. ~UNCHANGED mapping
      OBVIOUS
    <3>2. ASSUME NEW x \in Keys, NEW ts \in 0..MaxTime PROVE ~CostGet(x, ts)
      BY DEF CostGet, Get
    <3>3. ASSUME NEW x \in Keys, NEW d \in Sizes, NEW ts \in 0..MaxTime
          PROVE  ~CostPut(x, d, ts)
      BY DEF CostPut, Put
    <3>4. ASSUME NEW ts \in 0..MaxTime PROVE ~CostHourlyPurging(ts)
      BY <3>1 DEF CostHourlyPurging, contents
    <3>5. ~PutFits /\ ~ComputeScores /\ ~DecideEnd /\ ~UNCHANGED CostVars
      BY <3>1 DEF PutFits, ComputeScores, DecideEnd, CostVars, vars, contents
    <3> QED BY <1>1, <3>2, <3>3, <3>4, <3>5 DEF CostNext, CostWork
  <2>2. PICK key \in HighestScore : Erase(key)
    BY <2>1 DEF DecideDelete
  <2>3. k = key /\ other \in DOMAIN mapping
    BY <2>2 DEF Erase, Restrict
  <2>4. /\ deciding /\ DOMAIN score_vector = DOMAIN mapping
        /\ score_vector[k] < score_vector[other]
    BY <1>1, <2>1, <2>3 DEF DecideDelete, CostInv, PassScores
  <2>5. score_vector[k] >= score_vector[other]
    BY <2>2, <2>3, <2>4 DEF HighestScore
  <2>6. score_vector[k] \in Nat /\ score_vector[other] \in Nat
    BY <1>1, <2>3, <2>4 DEF CostInv, CostTypeOK
  <2> QED BY <2>4, <2>5, <2>6
<1>2. CostInv /\ [CostNext]_CostVars =>
        [\A k \in DOMAIN mapping \ DOMAIN mapping', other \in DOMAIN mapping' :
           ~Dominates(other, k)]_CostVars
  BY <1>1
<1> QED BY <1>2, CostInductive, PTL DEF CostSpec, EvictsNoneDominated

-------------------------------------------------------------------------------
(* The largest of the least recent *)

\* A cache that is over capacity is so by the object just put, at the head.
PutFillsAtHead ==
  loop = "put" /\ OverCapacity =>
    /\ list # <<>>
    /\ current_size - mapping[list[1]].data <= Capacity

\* A purge is part of an operation and its window no wider than configured.
WindowIsNarrow ==
  purging => /\ loop # "idle"
             /\ \/ Len(list) + 1 - cursor <= LRU_list_size
                \/ Len(list) + 1 - cursor <= 1

SizeInv ==
  /\ SizeTypeOK
  /\ IInv
  /\ OverfullOnlyInPut
  /\ PutFillsAtHead
  /\ WindowIsNarrow
  /\ StopsAtTheHead

\* A set of numbers has a least element.
LEMMA Least ==
  ASSUME NEW T \in SUBSET Nat, T # {}
  PROVE  \E m \in T : \A n \in T : m <= n
<1> DEFINE R == OpToRel(<, Nat)
<1>1. IsWellFoundedOn(R, Nat)
  BY NatLessThanWellFounded
<1>2. \A x, y \in Nat : x < y => <<x, y>> \in R
  BY DEF OpToRel
<1> HIDE DEF R
<1>3. PICK m \in T : \A n \in Nat : <<n, m>> \in R => n \notin T
  BY <1>1, WFMin
<1>4. \A n \in T : ~(n < m)
  BY <1>2, <1>3
<1> QED BY <1>3, <1>4

\* Of bounded numbers in a row there is a first that none exceeds.
LEMMA FirstLargest ==
  ASSUME NEW a \in Nat, NEW b \in Nat, a <= b, NEW w, NEW bound \in Nat,
         \A i \in a..b : w[i] \in Nat /\ w[i] <= bound
  PROVE  \E i \in a..b : /\ \A j \in a..b : w[i] >= w[j]
                         /\ \A j \in a..b : w[j] = w[i] => i <= j
<1> DEFINE Gaps == {bound - w[i] : i \in a..b}
<1>1. Gaps \in SUBSET Nat /\ Gaps # {}
  <2>1. \A i \in a..b : bound - w[i] \in Nat
    OBVIOUS
  <2>2. a \in a..b
    OBVIOUS
  <2> QED BY <2>1, <2>2
<1>2. PICK g \in Gaps : \A h \in Gaps : g <= h
  BY <1>1, Least
<1>3. PICK m \in a..b : g = bound - w[m]
  OBVIOUS
<1>4. \A j \in a..b : w[m] >= w[j]
  <2> SUFFICES ASSUME NEW j \in a..b PROVE w[m] >= w[j]
    OBVIOUS
  <2>1. bound - w[m] <= bound - w[j]
    BY <1>2, <1>3
  <2> QED BY <2>1
<1> HIDE DEF Gaps
<1> DEFINE Tied == {i \in a..b : w[i] = w[m]}
<1>5. Tied \in SUBSET Nat /\ Tied # {}
  OBVIOUS
<1>6. PICK i \in Tied : \A j \in Tied : i <= j
  BY <1>5, Least
<1> QED BY <1>4, <1>6

\* No object is larger than all that are resident.
LEMMA DataIsCounted ==
  ASSUME TypeOK, Consistent
  PROVE  \A x \in DOMAIN mapping : DataOf[x] = mapping[x].data /\ DataOf[x] \in 0..current_size
<1>1. ASSUME NEW x \in Range(list) PROVE DataOf[x] <= current_size
  BY <1>1, DataIsNat, DetachSum DEF Consistent, TypeOK
<1> QED BY <1>1, DataIsNat DEF Consistent, TypeOK

LEMMA ListedKeys ==
  ASSUME TypeOK, Consistent
  PROVE  /\ Len(list) \in Nat
         /\ DOMAIN list = 1..Len(list)
         /\ \A i \in 1..Len(list) : list[i] \in DOMAIN mapping
BY LenProperties DEF TypeOK, Consistent, Range

\* A window that has not reached the head sentinel has a largest object.
LEMMA VictimIsLargest ==
  ASSUME SizeTypeOK, Consistent, cursor > 0, cursor <= Len(list)
  PROVE  /\ Victim \in cursor..Len(list)
         /\ list[Victim] \in DOMAIN mapping
         /\ \A j \in cursor..Len(list) :
              mapping[list[j]].data <= mapping[list[Victim]].data
<1> DEFINE n == Len(list)
           w == [i \in cursor..n |-> mapping[list[i]].data]
           Best(i) == /\ \A j \in Window : mapping[list[i]].data >= mapping[list[j]].data
                      /\ \A j \in Window : mapping[list[j]].data = mapping[list[i]].data => i <= j
<1>1. n \in Nat /\ cursor \in Nat /\ cursor <= n /\ current_size \in Nat
  BY ListedKeys DEF SizeTypeOK, TypeOK
<1>2. \A i \in cursor..n : list[i] \in DOMAIN mapping
  BY <1>1, ListedKeys DEF SizeTypeOK
<1>3. \A i \in cursor..n : w[i] \in Nat /\ w[i] <= current_size
  BY <1>2, DataIsCounted DEF SizeTypeOK
<1>4. \E i \in cursor..n : /\ \A j \in cursor..n : w[i] >= w[j]
                           /\ \A j \in cursor..n : w[j] = w[i] => i <= j
  <2> HIDE DEF w, n
  <2> QED BY <1>1, <1>3, FirstLargest
<1>5. \E i \in Window : Best(i)
  BY <1>4 DEF Window
<1>6. Victim \in Window /\ Best(Victim)
  <2>1. Victim = CHOOSE i \in Window : Best(i)
    BY DEF Victim
  <2> HIDE DEF Best
  <2> QED BY <1>5, <2>1
<1>7. \A j \in cursor..n : w[j] <= w[Victim]
  BY <1>3, <1>6 DEF Window
<1> QED BY <1>2, <1>6, <1>7 DEF Window

-------------------------------------------------------------------------------
(* The size-based invariant is kept *)

LEMMA SizeStarts == SizeInit => SizeInv
<1> SUFFICES ASSUME SizeInit PROVE SizeInv
  OBVIOUS
<1>1. Init
  BY DEF SizeInit
<1>2. TypeOK /\ IInv
  BY <1>1, TypeInit, InvariantInit DEF IInv
<1>3. SizeTypeOK
  <2>1. Len(list) = 0
    BY <1>1 DEF Init
  <2>2. /\ purge_size_based_limit \in 0..LRU_list_size
        /\ cursor \in 0..Len(list) /\ total_items_purged \in Nat
    BY <2>1, SizeLRUAssumption DEF SizeInit
  <2>3. purging \in BOOLEAN
    BY DEF SizeInit
  <2> QED BY <1>2, <2>2, <2>3 DEF SizeTypeOK
<1>4. OverfullOnlyInPut /\ PutFillsAtHead /\ WindowIsNarrow /\ StopsAtTheHead
  BY <1>1, LRUAssumption DEF SizeInit, Init, OverfullOnlyInPut, PutFillsAtHead,
     WindowIsNarrow, StopsAtTheHead
<1> QED BY <1>2, <1>3, <1>4 DEF SizeInv

\* The parts of the invariant that are about LRU alone.
LEMMA LRUPartKeeps ==
  ASSUME IInv, OverfullOnlyInPut, [Next]_vars
  PROVE  IInv' /\ OverfullOnlyInPut'
BY TypeStep, ConsistentStep, RequestedByNowStep, OldestStep, OverfullStep DEF IInv

\* get, put and hourly_purging run outside a purge, and leave the cursor alone.
LEMMA OutsideAPurge ==
  ASSUME SizeInv, ~purging, IInv', OverfullOnlyInPut', PutFillsAtHead',
         UNCHANGED purgeVars, Len(list') >= Len(list)
  PROVE  SizeInv'
<1>1. Len(list) \in Nat /\ Len(list') \in Nat
  BY LenProperties DEF SizeInv, IInv, TypeOK
<1>2. SizeTypeOK'
  BY <1>1 DEF SizeInv, SizeTypeOK, IInv, purgeVars
<1>3. WindowIsNarrow' /\ StopsAtTheHead'
  BY DEF WindowIsNarrow, StopsAtTheHead, purgeVars
<1> QED BY <1>2, <1>3 DEF SizeInv

LEMMA AtRest ==
  ASSUME SizeInv, loop = "idle"
  PROVE  ~purging /\ current_size <= Capacity
BY DEF SizeInv, WindowIsNarrow, OverfullOnlyInPut

LEMMA SizeGetStep ==
  ASSUME SizeInv, NEW k \in Keys, NEW ts \in 0..MaxTime, SizeGet(k, ts)
  PROVE  SizeInv'
<1>1. Get(k, ts) /\ UNCHANGED purgeVars /\ loop = "idle" /\ loop' = "idle"
  BY DEF SizeGet, Get
<1>2. IInv' /\ OverfullOnlyInPut'
  BY <1>1, LRUPartKeeps DEF SizeInv, Next
<1>3. Len(list') = Len(list)
  <2>1. list \in Seq(Keys) /\ k \in Range(list)
    BY <1>1 DEF SizeInv, IInv, TypeOK, Consistent, Get
  <2>2. cache_item_count' = Len(list') /\ cache_item_count = Len(list)
    BY <1>2 DEF SizeInv, IInv, Consistent
  <2> QED BY <1>1, <2>2 DEF Get
<1>4. Len(list) \in Nat
  BY LenProperties DEF SizeInv, IInv, TypeOK
<1>5. PutFillsAtHead'
  BY <1>1 DEF PutFillsAtHead
<1> QED BY <1>1, <1>2, <1>3, <1>4, <1>5, AtRest, OutsideAPurge

LEMMA SizePutStep ==
  ASSUME SizeInv, NEW k \in Keys, NEW d \in Sizes, NEW ts \in 0..MaxTime, SizePut(k, d, ts)
  PROVE  SizeInv'
<1>1. Put(k, d, ts) /\ UNCHANGED purgeVars /\ loop = "idle"
  BY DEF SizePut, Put
<1>2. IInv' /\ OverfullOnlyInPut'
  BY <1>1, LRUPartKeeps DEF SizeInv, Next
<1>3. /\ Len(list') = Len(list) + 1 /\ Len(list) \in Nat /\ list' # <<>> /\ list'[1] = k
  <2>1. list \in Seq(Keys)
    BY DEF SizeInv, IInv, TypeOK
  <2>2. Len(list) \in Nat
    BY <2>1, LenProperties
  <2>3. Len(Attach(list, k)) = Len(list) + 1
    BY <2>1, AttachElements
  <2>4. Attach(list, k)[1] = k
    BY <2>1, AttachElements
  <2>5. list' = Attach(list, k)
    BY <1>1 DEF Put
  <2> QED BY <2>1, <2>2, <2>3, <2>4, <2>5
<1>4. PutFillsAtHead'
  <2>1. mapping'[k].data = d /\ current_size' = current_size + d
    BY <1>1 DEF Put
  <2>2. current_size <= Capacity /\ current_size \in Nat /\ Capacity \in Nat /\ d \in Nat
    BY <1>1, AtRest, LRUAssumption DEF SizeInv, IInv, TypeOK
  <2>3. current_size' - mapping'[list'[1]].data <= Capacity
    BY <1>3, <2>1, <2>2
  <2> QED BY <1>3, <2>3 DEF PutFillsAtHead
<1>5. Len(list') >= Len(list) /\ ~purging
  BY <1>1, <1>3, AtRest
<1> QED BY <1>1, <1>2, <1>4, <1>5, OutsideAPurge

LEMMA SizeHourlyStep ==
  ASSUME SizeInv, NEW ts \in 0..MaxTime, SizeHourlyPurging(ts)
  PROVE  SizeInv'
<1>1. /\ HourlyPurging(ts) /\ UNCHANGED purgeVars /\ loop = "idle" /\ loop' = "hourly"
      /\ list' = list
  BY DEF SizeHourlyPurging, HourlyPurging
<1>2. IInv' /\ OverfullOnlyInPut'
  BY <1>1, LRUPartKeeps DEF SizeInv, Next
<1>3. Len(list) \in Nat
  BY LenProperties DEF SizeInv, IInv, TypeOK
<1>4. PutFillsAtHead'
  BY <1>1 DEF PutFillsAtHead
<1> QED BY <1>1, <1>2, <1>3, <1>4, AtRest, OutsideAPurge

LEMMA SizeExitStep ==
  ASSUME SizeInv, SizeLoopExit
  PROVE  SizeInv'
<1>1. /\ ~purging /\ LoopExit /\ UNCHANGED purgeVars /\ loop' = "idle"
      /\ list' = list
  BY DEF SizeLoopExit, LoopExit
<1>2. IInv' /\ OverfullOnlyInPut'
  BY <1>1, LRUPartKeeps DEF SizeInv, Next, Work
<1>3. Len(list) \in Nat
  BY LenProperties DEF SizeInv, IInv, TypeOK
<1>4. PutFillsAtHead'
  BY <1>1 DEF PutFillsAtHead
<1> QED BY <1>1, <1>2, <1>3, <1>4, OutsideAPurge

\* The first window lies within the list.
LEMMA StartStep ==
  ASSUME SizeInv, PurgeStart
  PROVE  SizeInv'
<1>1. /\ OverTarget /\ list # <<>> /\ purging' = TRUE
      /\ purge_size_based_limit' = ReducedLimit
      /\ cursor' = IF ReducedLimit = 0 THEN Len(list) ELSE Len(list) + 1 - ReducedLimit
      /\ UNCHANGED <<vars, total_items_purged>>
  BY DEF PurgeStart
<1>2. /\ cache_item_count = Len(list) /\ Len(list) \in Nat /\ Len(list) # 0
      /\ purge_size_based_limit \in 0..LRU_list_size /\ LRU_list_size \in Nat
  BY <1>1, LenProperties, EmptySeq, SizeLRUAssumption
     DEF SizeInv, SizeTypeOK, IInv, TypeOK, Consistent
<1>3. ReducedLimit \in 0..LRU_list_size /\ ReducedLimit <= Len(list)
  BY <1>2 DEF ReducedLimit
<1>4. /\ cursor' \in 1..Len(list)
      /\ \/ Len(list) + 1 - cursor' <= LRU_list_size
         \/ Len(list) + 1 - cursor' <= 1
  BY <1>1, <1>2, <1>3
<1>5. IInv' /\ OverfullOnlyInPut'
  BY <1>1, LRUPartKeeps DEF SizeInv
<1>6. UNCHANGED <<list, mapping, current_size, loop>>
  BY <1>1 DEF vars
<1>7. SizeTypeOK'
  BY <1>1, <1>3, <1>4, <1>5, <1>6 DEF SizeInv, SizeTypeOK, IInv
<1>8. PutFillsAtHead'
  BY <1>6 DEF SizeInv, PutFillsAtHead, OverCapacity
<1>9. WindowIsNarrow' /\ StopsAtTheHead'
  BY <1>1, <1>4, <1>6 DEF WindowIsNarrow, StopsAtTheHead, OverTarget
<1> QED BY <1>5, <1>7, <1>8, <1>9 DEF SizeInv

\* The state in which an iteration of the purge finds the window.
LEMMA Overfull ==
  ASSUME SizeInv, purging, OverCapacity, cursor > 0
  PROVE  /\ loop = "put" /\ list # <<>>
         /\ cursor \in 1..Len(list) /\ Len(list) \in Nat
         /\ current_size - mapping[list[1]].data <= Capacity
         /\ Victim \in cursor..Len(list) /\ list[Victim] \in DOMAIN mapping
         /\ \A j \in cursor..Len(list) :
              mapping[list[j]].data <= mapping[list[Victim]].data
<1>1. Len(list) \in Nat /\ cursor \in 1..Len(list)
  BY LenProperties DEF SizeInv, SizeTypeOK, TypeOK
<1>2. loop = "put"
  BY LRUAssumption DEF SizeInv, IInv, TypeOK, OverfullOnlyInPut, OverCapacity
<1>3. list # <<>> /\ current_size - mapping[list[1]].data <= Capacity
  BY <1>2 DEF SizeInv, PutFillsAtHead
<1>4. SizeTypeOK /\ Consistent /\ cursor <= Len(list)
  BY <1>1 DEF SizeInv, IInv
<1> QED BY <1>1, <1>2, <1>3, <1>4, VictimIsLargest

\* The deletion of an object, wherever it is in the list.
LEMMA ErasureKeeps ==
  ASSUME IInv, OverfullOnlyInPut, NEW key \in DOMAIN mapping, Erase(key),
         UNCHANGED <<cache_filled_once, loop, now>>
  PROVE  IInv' /\ OverfullOnlyInPut'
<1>1. /\ list' \in Seq(Keys)
      /\ DOMAIN mapping' = DOMAIN mapping \ {key}
      /\ \A x \in DOMAIN mapping' : mapping'[x] = mapping[x]
      /\ mapping' \in [DOMAIN mapping' -> Entries]
      /\ current_size' \in Nat /\ current_size' <= current_size
      /\ cache_item_count' \in Nat
      /\ Consistent'
  BY EraseKeeps DEF IInv
<1>2. TypeOK'
  BY <1>1 DEF IInv, TypeOK
<1>3. RequestedByNow'
  BY <1>1 DEF IInv, RequestedByNow
<1>4. OldestAtTail'
  BY EraseKeepsOrder DEF IInv
<1>5. OverfullOnlyInPut'
  BY <1>1, LRUAssumption DEF IInv, TypeOK, OverfullOnlyInPut
<1> QED BY <1>1, <1>2, <1>3, <1>4, <1>5 DEF IInv

\* By the time the window reaches the sentinel, its largest object, which is
\* no smaller than the one just put, brings the cache below its capacity.
LEMMA DeleteStep ==
  ASSUME SizeInv, PurgeDelete
  PROVE  SizeInv'
<1> DEFINE key == list[Victim]
<1>1. /\ purging /\ OverCapacity /\ cursor > 0 /\ Erase(key) /\ now' = now
      /\ purging' = (Cardinality(Window) > 1)
      /\ IF purging' THEN cursor' = cursor - 1 /\ total_items_purged' = total_items_purged + 1
                     ELSE cursor' = 0 /\ total_items_purged' = 0
      /\ UNCHANGED <<cache_filled_once, purge_size_based_limit, loop>>
  BY DEF PurgeDelete
<1>2. /\ loop = "put" /\ cursor \in 1..Len(list) /\ Len(list) \in Nat
      /\ current_size - mapping[list[1]].data <= Capacity
      /\ Victim \in cursor..Len(list) /\ key \in DOMAIN mapping
      /\ \A j \in cursor..Len(list) : mapping[list[j]].data <= mapping[key].data
  BY <1>1, Overfull
<1> HIDE DEF key
<1>3. IInv' /\ OverfullOnlyInPut'
  BY <1>1, <1>2, ErasureKeeps DEF SizeInv
<1>4. /\ list' = Detach(list, key) /\ list \in Seq(Keys) /\ key \in Range(list)
      /\ \A x \in DOMAIN mapping \ {key} : mapping'[x] = mapping[x]
      /\ mapping[key].data \in Nat
      /\ current_size' = current_size - mapping[key].data
      /\ current_size' \in Nat
  BY <1>1, <1>2, EraseKeeps DEF SizeInv, IInv, TypeOK, Consistent, Erase
<1>5. Len(list') = Len(list) - 1
  BY <1>4, DetachElements
<1>6. /\ list[1] \in DOMAIN mapping /\ mapping[list[1]].data \in Nat
      /\ current_size \in Nat /\ Capacity \in Nat
  <2>1. 1 \in 1..Len(list)
    BY <1>2
  <2> QED BY <2>1, ListedKeys, LRUAssumption DEF SizeInv, IInv, TypeOK, Entries
<1>7. SizeTypeOK'
  <2>1. cursor' \in 0..Len(list')
    <3>1. cursor - 1 \in 0..Len(list) - 1
      BY <1>2
    <3> QED BY <1>1, <1>5, <3>1
  <2>2. total_items_purged' \in Nat
    BY <1>1 DEF SizeInv, SizeTypeOK
  <2>3. purging' \in BOOLEAN
    BY <1>1
  <2> QED BY <1>1, <1>3, <2>1, <2>2, <2>3 DEF SizeInv, SizeTypeOK, IInv
<1>8. PutFillsAtHead'
  <2> SUFFICES ASSUME current_size' > Capacity
               PROVE  /\ list' # <<>>
                      /\ current_size' - mapping'[list'[1]].data <= Capacity
    BY DEF PutFillsAtHead, OverCapacity
  <2>1. key # list[1]
    BY <1>2, <1>4, <1>6
  <2>2. list' # <<>> /\ list'[1] = list[1]
    <3>1. list # <<>> /\ key # Head(list)
      BY <1>1, <2>1, Overfull
    <3>2. Head(list') = Head(list)
      BY <1>4, <3>1, DetachHead
    <3>3. Len(list') > 0
      <4>1. PICK i \in 1..Len(list) : list[i] = key
        BY <1>4, LenProperties DEF Range
      <4>2. i > 1
        BY <2>1, <4>1
      <4> QED BY <1>2, <1>5, <4>2
    <3> QED BY <3>1, <3>2, <3>3, <1>5, HeadTailProperties, <1>4, LenProperties
  <2>3. mapping'[list[1]] = mapping[list[1]]
    BY <1>4, <1>6, <2>1
  <2> DEFINE head == mapping[list[1]].data
             deleted == mapping[key].data
  <2>4. /\ head \in Int /\ deleted \in Nat /\ current_size \in Int /\ Capacity \in Int
        /\ current_size - head <= Capacity
        /\ current_size' = current_size - deleted
    BY <1>2, <1>4, <1>6
  <2>5. mapping'[list'[1]].data = head
    BY <2>2, <2>3
  <2> HIDE DEF head, deleted
  <2>6. current_size' - head <= Capacity
    BY <2>4
  <2> QED BY <2>2, <2>5, <2>6
<1>9. WindowIsNarrow'
  BY <1>1, <1>2, <1>5 DEF SizeInv, WindowIsNarrow
<1>10. StopsAtTheHead'
  <2> SUFFICES ASSUME purging', current_size' > Capacity, cursor' = 0
               PROVE  FALSE
    BY <1>7 DEF SizeTypeOK, StopsAtTheHead, OverCapacity
  <2>1. cursor = 1 /\ 1 \in cursor..Len(list)
    BY <1>1, <1>2
  <2>2. mapping[list[1]].data <= mapping[key].data
    BY <1>2, <2>1
  <2> QED BY <1>2, <1>4, <1>6, <2>2
<1> QED BY <1>3, <1>7, <1>8, <1>9, <1>10 DEF SizeInv

LEMMA EndStep ==
  ASSUME SizeInv, PurgeEnd
  PROVE  SizeInv'
<1>1. /\ purging' = FALSE /\ cursor' = 0 /\ total_items_purged' = 0
      /\ UNCHANGED <<vars, purge_size_based_limit>>
  BY DEF PurgeEnd
<1>2. UNCHANGED <<list, mapping, current_size, loop>>
  BY <1>1 DEF vars
<1>3. IInv' /\ OverfullOnlyInPut'
  BY <1>1, LRUPartKeeps DEF SizeInv
<1>4. SizeTypeOK'
  <2>1. Len(list) \in Nat
    BY LenProperties DEF SizeInv, IInv, TypeOK
  <2>2. cursor' \in 0..Len(list') /\ total_items_purged' \in Nat
    BY <1>1, <1>2, <2>1
  <2>3. purging' \in BOOLEAN /\ purge_size_based_limit' \in 0..LRU_list_size
    BY <1>1 DEF SizeInv, SizeTypeOK
  <2> QED BY <1>3, <2>2, <2>3 DEF SizeTypeOK, IInv
<1>5. PutFillsAtHead' /\ WindowIsNarrow' /\ StopsAtTheHead'
  BY <1>1, <1>2 DEF SizeInv, PutFillsAtHead, OverCapacity, WindowIsNarrow, StopsAtTheHead
<1> QED BY <1>3, <1>4, <1>5 DEF SizeInv

LEMMA SizeStep == SizeInv /\ [SizeNext]_SizeVars => SizeInv'
<1> SUFFICES ASSUME SizeInv, [SizeNext]_SizeVars PROVE SizeInv'
  OBVIOUS
<1>1. CASE UNCHANGED SizeVars
  <2>1. UNCHANGED vars /\ UNCHANGED purgeVars
    BY <1>1 DEF SizeVars
  <2>2. IInv' /\ OverfullOnlyInPut'
    BY <2>1, LRUPartKeeps DEF SizeInv
  <2>3. SizeTypeOK' /\ PutFillsAtHead' /\ WindowIsNarrow' /\ StopsAtTheHead'
    BY <2>1, <2>2 DEF vars, purgeVars, SizeInv, SizeTypeOK, IInv, PutFillsAtHead,
       OverCapacity, WindowIsNarrow, StopsAtTheHead
  <2> QED BY <2>2, <2>3 DEF SizeInv
<1> QED BY <1>1, SizeGetStep, SizePutStep, SizeHourlyStep, SizeExitStep, StartStep,
           DeleteStep, EndStep DEF SizeNext, SizeWork

-------------------------------------------------------------------------------
(* What the size-based policy promises *)

\* The strengthening holds in every reachable state.
THEOREM SizeInductive == SizeSpec => []SizeInv
BY SizeStarts, SizeStep, PTL DEF SizeSpec

\* List, hash map and counts agree at every step of a purge, and between
\* operations the capacity holds: no hourly purge ever finds an overfull cache.
THEOREM SizeIsWellFormed == SizeSpec => []SizeWellFormed
<1>1. SizeInv => SizeWellFormed
  BY DEF SizeInv, IInv, SizeWellFormed, OverfullOnlyInPut, FitsAtRest
<1> QED BY <1>1, SizeInductive, PTL

\* No purge goes on from the head sentinel, whatever the sizes and the window.
THEOREM WalkEndsAtTheHead == SizeSpec => []StopsAtTheHead
<1>1. SizeInv => StopsAtTheHead
  BY DEF SizeInv
<1> QED BY <1>1, SizeInductive, PTL

\* Only the deletion of the purge takes an object out.
LEMMA OnlyPurgesRemove ==
  ASSUME [SizeNext]_SizeVars, NEW k \in DOMAIN mapping, k \notin DOMAIN mapping'
  PROVE  PurgeDelete /\ k = list[Victim]
<1>1. ASSUME NEW j \in Keys, NEW ts \in 0..MaxTime, Get(j, ts) PROVE FALSE
  BY <1>1 DEF Get
<1>2. ASSUME NEW j \in Keys, NEW d \in Sizes, NEW ts \in 0..MaxTime, Put(j, d, ts)
      PROVE  FALSE
  BY <1>2 DEF Put
<1>3. UNCHANGED mapping => FALSE
  OBVIOUS
<1>4. PurgeDelete
  BY <1>1, <1>2, <1>3
     DEF SizeNext, SizeWork, SizeGet, SizePut, SizeHourlyPurging, HourlyPurging,
         SizeLoopExit, LoopExit, PurgeStart, PurgeEnd, SizeVars, vars
<1>5. k = list[Victim]
  BY <1>4 DEF PurgeDelete, Erase, Restrict
<1> QED BY <1>4, <1>5

\* As many objects as there are between two places of the list fit there.
LEMMA ListedBetween ==
  ASSUME TypeOK, Consistent, NEW a \in Nat, NEW b \in Nat, NEW T,
         \A j \in T : j \in Range(list) /\ PositionOf(list, j) \in a..b, a <= b
  PROVE  Cardinality(T) \in Nat /\ Cardinality(T) <= b - a + 1
<1> DEFINE f == [j \in T |-> PositionOf(list, j)]
<1>1. IsFiniteSet(a..b) /\ Cardinality(a..b) = b - a + 1
  BY FS_Interval
<1>2. f \in Injection(T, a..b)
  <2>1. f \in [T -> a..b]
    OBVIOUS
  <2>2. \A j \in T : list[f[j]] = j
    BY PositionOfElement DEF TypeOK
  <2> HIDE DEF f
  <2> QED BY <2>1, <2>2, Fun_IsInj
<1>3. IsFiniteSet(T) /\ Cardinality(T) <= Cardinality(a..b)
  BY <1>1, <1>2, FS_Injection
<1>4. Cardinality(T) \in Nat
  BY <1>3, FS_CardinalityType
<1> QED BY <1>1, <1>3, <1>4

\* README's promise about the policy: of the objects that stay, fewer than X
\* were used before the deleted one, and none of those is larger.
THEOREM LargestOfOldestGoes == SizeSpec => EvictsLargestOfOldest
<1>1. ASSUME SizeInv, [SizeNext]_SizeVars, NEW k \in DOMAIN mapping \ DOMAIN mapping'
      PROVE  LET older == {j \in DOMAIN mapping' : mapping[j].timestamp < mapping[k].timestamp}
             IN /\ older = {} \/ Cardinality(older) < LRU_list_size
                /\ \A j \in older : mapping[j].data <= mapping[k].data
  <2> DEFINE older == {j \in DOMAIN mapping' : mapping[j].timestamp < mapping[k].timestamp}
             n == Len(list)
             at(j) == PositionOf(list, j)
  <2>1. PurgeDelete /\ k = list[Victim]
    BY <1>1, OnlyPurgesRemove
  <2>2. /\ purging /\ OverCapacity /\ cursor > 0
        /\ DOMAIN mapping' \subseteq DOMAIN mapping
    BY <2>1 DEF PurgeDelete, Erase, Restrict
  <2>3. /\ cursor \in 1..n /\ n \in Nat /\ Victim \in cursor..n
        /\ \A j \in cursor..n : mapping[list[j]].data <= mapping[k].data
    BY <1>1, <2>1, <2>2, Overfull
  <2>4. n + 1 - cursor <= LRU_list_size \/ n + 1 - cursor <= 1
    BY <1>1, <2>2 DEF SizeInv, WindowIsNarrow
  <2>5. LRU_list_size \in Nat
    BY SizeLRUAssumption
  <2>6. ASSUME NEW j \in older PROVE at(j) \in Victim + 1..n /\ list[at(j)] = j
                                     /\ j \in Range(list)
    <3>1. j \in Range(list) /\ list \in Seq(Keys)
      BY <1>1, <2>2 DEF SizeInv, IInv, Consistent, TypeOK
    <3>2. at(j) \in 1..n /\ list[at(j)] = j
      BY <3>1, PositionOfElement
    <3>3. mapping[j].timestamp \in Int /\ mapping[k].timestamp \in Int
      BY <1>1, <2>2, LRUAssumption DEF SizeInv, IInv, TypeOK, Entries
    <3>4. at(j) > Victim
      <4> SUFFICES ASSUME at(j) <= Victim PROVE FALSE
        BY <2>3, <3>2
      <4>1. mapping[list[at(j)]].timestamp >= mapping[list[Victim]].timestamp
        BY <1>1, <2>3, <3>2 DEF SizeInv, IInv, OldestAtTail
      <4> QED BY <2>1, <3>2, <3>3, <4>1
    <3> QED BY <2>3, <3>1, <3>2, <3>4
  <2>7. \A j \in older : mapping[j].data <= mapping[k].data
    <3>1. \A j \in older : at(j) \in cursor..n /\ list[at(j)] = j
      BY <2>3, <2>6
    <3> HIDE DEF older, at
    <3> QED BY <2>3, <3>1
  <2>8. older # {} => Cardinality(older) < LRU_list_size
    <3> SUFFICES ASSUME older # {} PROVE Cardinality(older) < LRU_list_size
      OBVIOUS
    <3>1. Victim + 1 <= n /\ Victim + 1 \in Nat
      BY <2>3, <2>6
    <3>2. \A j \in older : j \in Range(list) /\ at(j) \in Victim + 1..n
      BY <2>6
    <3> HIDE DEF older
    <3>3. Cardinality(older) \in Nat /\ Cardinality(older) <= n - (Victim + 1) + 1
      BY <1>1, <2>3, <3>1, <3>2, ListedBetween DEF SizeInv, IInv
    <3> QED BY <2>3, <2>4, <2>5, <3>1, <3>3
  <2> QED BY <2>7, <2>8
<1>2. SizeInv /\ [SizeNext]_SizeVars =>
        [\A k \in DOMAIN mapping \ DOMAIN mapping' :
           LET older == {j \in DOMAIN mapping' : mapping[j].timestamp < mapping[k].timestamp}
           IN /\ older = {} \/ Cardinality(older) < LRU_list_size
              /\ \A j \in older : mapping[j].data <= mapping[k].data]_SizeVars
  BY <1>1
<1> QED BY <1>2, SizeInductive, PTL DEF SizeSpec, EvictsLargestOfOldest

\* A deletion in the middle of the list is an eviction of the store.
LEMMA DeletionIsEviction ==
  ASSUME SizeInv, PurgeDelete
  PROVE  \E k \in Keys : Store!Evict(k)
<1> DEFINE v == list[Victim]
<1>1. purging /\ OverCapacity /\ cursor > 0 /\ Erase(v) /\ loop' = loop
  BY DEF PurgeDelete
<1>2. loop = "put" /\ v \in DOMAIN mapping /\ v \in Keys
  BY <1>1, Overfull DEF SizeInv, IInv, TypeOK
<1> HIDE DEF v
<1>3. /\ DOMAIN DataOf = DOMAIN mapping
      /\ DataOf' = Store!Restrict(DataOf, DOMAIN DataOf \ {v})
  BY <1>1 DEF Erase, DataOf, Restrict, Store!Restrict
<1>4. DataOf[v] = mapping[v].data
  BY <1>2 DEF DataOf
<1>5. Store!OverTarget /\ current_size' = current_size - DataOf[v]
  BY <1>1, <1>2, <1>4 DEF Erase, OverCapacity, Store!OverTarget
<1> QED BY <1>1, <1>2, <1>3, <1>5 DEF Store!Evict

\* The policy does to the abstract store only what the store allows, for every
\* instance: a purge is an eviction after the other, its window is invisible,
\* and an object leaves only while its operation is over its target.
THEOREM SizeImplementsTheStore == SizeSpec => SizeImplementsStore
<1>1. SizeInit => Store!Init
  BY DEF SizeInit, Init, Store!Init, DataOf
<1>2. ASSUME SizeInv, [SizeNext]_SizeVars PROVE [Store!Next]_(Store!vars)
  <2>1. CASE [Next]_vars
    BY <1>2, <2>1, StoreStep DEF SizeInv, IInv
  <2>2. CASE PurgeDelete
    BY <1>2, <2>2, DeletionIsEviction DEF Store!Next, Store!Work
  <2> QED BY <1>2, <2>1, <2>2
          DEF SizeNext, SizeWork, SizeGet, SizePut, SizeHourlyPurging, SizeLoopExit,
              PurgeStart, PurgeEnd, SizeVars, Next, Work
<1>3. SizeInv /\ [SizeNext]_SizeVars => [Store!Next]_(Store!vars)
  BY <1>2
<1> QED BY <1>1, <1>3, SizeInductive, PTL DEF SizeSpec, SizeImplementsStore
===============================================================================
