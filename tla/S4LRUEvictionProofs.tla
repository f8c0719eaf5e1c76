-------------------------- MODULE S4LRUEvictionProofs --------------------------
(***************************************************************************)
(* Theorems about S4LRUEviction for every number of queues, every set of   *)
(* keys and sizes and every capacity.                                      *)
(***************************************************************************)
EXTENDS S4LRUEviction, EntryListProofs, FiniteSetTheorems

-------------------------------------------------------------------------------
(* The inductive invariant *)

Fits(q) == current_size[q] <= total_capacity

\* The queues that the purge has behind it are within their shares.
FitsAbove == loop # "idle" => \A q \in Queues : q > j => Fits(q)

\* The object being put or got is the newest of its queue.
NodeAtHead ==
  \A k \in node \cap DOMAIN mapping : Head(lists[mapping[k].queue]) = k

\* A get overfills no queue but that of its object, which by itself fits.
GetOverfillsOne ==
  loop = "get" =>
    \A k \in node :
      /\ k \in DOMAIN mapping
      /\ mapping[k].data <= total_capacity
      /\ \A q \in Queues : q > mapping[k].queue => Fits(q)

\* A put overfills no queue but the lowest, where its object is.
PutOverfillsLowest ==
  loop = "put" =>
    /\ \A q \in Queues \ {0} : Fits(q)
    /\ \A k \in node \cap DOMAIN mapping : mapping[k].queue = 0

Typed == TypeOK /\ Consistent /\ IsFiniteSet(DOMAIN mapping)

IInv ==
  /\ Typed
  /\ FitsAtRest
  /\ FitsAbove
  /\ NodeAtHead
  /\ GetOverfillsOne
  /\ PutOverfillsLowest

-------------------------------------------------------------------------------
(* The queues *)

LEMMA QueuesAreNumbers ==
  /\ Top \in Nat /\ 0 \in Queues /\ Top \in Queues /\ EntryQueue \in Queues
  /\ \A q \in Queues : q \in Nat /\ Above(q) \in Queues
  /\ \A q \in Queues : q # 0 => Below(q) \in Queues
  /\ total_capacity \in Nat
BY S4LRUAssumption DEF Top, Queues, EntryQueue, Above, Below, total_capacity

LEMMA QueuesAreIntegers == total_capacity \in Int /\ \A q \in Queues : q \in Int
BY S4LRUAssumption DEF Top, Queues, total_capacity

\* What is in the state for a resident object.
LEMMA Resident ==
  ASSUME TypeOK, Consistent, NEW k \in DOMAIN mapping
  PROVE  /\ k \in Keys /\ mapping[k] \in Entries
         /\ mapping[k].queue \in Queues
         /\ DataOf[k] = mapping[k].data /\ DataOf[k] \in Nat
         /\ k \in Range(lists[mapping[k].queue])
BY S4LRUAssumption DEF TypeOK, Consistent, Entries, DataOf

LEMMA QueueOf ==
  ASSUME TypeOK, Consistent, NEW q \in Queues
  PROVE  /\ lists[q] \in Seq(Keys) /\ current_size[q] \in Nat
         /\ Unrepeated(lists[q]) /\ SumsTo(lists[q], DataOf, current_size[q])
         /\ \A x : x \in Range(lists[q]) <=> x \in DOMAIN mapping /\ mapping[x].queue = q
         /\ \A x \in Range(lists[q]) : DataOf[x] \in Nat
<1>1. \A x \in DOMAIN mapping : DataOf[x] \in Nat
  BY Resident
<1> QED BY <1>1 DEF TypeOK, Consistent

\* The queues after the detach of an object from its own.
Without(k) == [lists EXCEPT ![mapping[k].queue] = Detach(@, k)]
SizeWithout(k) == [current_size EXCEPT ![mapping[k].queue] = @ - mapping[k].data]

LEMMA DetachQueue ==
  ASSUME TypeOK, Consistent, NEW k \in DOMAIN mapping,
         NEW rest, \A x \in DOMAIN mapping \ {k} : rest[x] = DataOf[x],
         NEW q \in Queues
  PROVE  /\ Without(k)[q] \in Seq(Keys) /\ SizeWithout(k)[q] \in Nat
         /\ Unrepeated(Without(k)[q])
         /\ Range(Without(k)[q])
              = {x \in DOMAIN mapping \ {k} : mapping[x].queue = q}
         /\ SumsTo(Without(k)[q], rest, SizeWithout(k)[q])
<1>1. mapping[k].queue \in Queues /\ k \in Range(lists[mapping[k].queue])
      /\ DataOf[k] = mapping[k].data /\ DataOf[k] \in Nat
  BY Resident
<1>2. /\ lists[q] \in Seq(Keys) /\ current_size[q] \in Nat
      /\ Unrepeated(lists[q]) /\ SumsTo(lists[q], DataOf, current_size[q])
      /\ \A x : x \in Range(lists[q]) <=> x \in DOMAIN mapping /\ mapping[x].queue = q
      /\ \A x \in Range(lists[q]) : DataOf[x] \in Nat
  BY QueueOf
<1>3. CASE q = mapping[k].queue
  <2>1. Without(k)[q] = Detach(lists[q], k)
        /\ SizeWithout(k)[q] = current_size[q] - DataOf[k]
    BY <1>1, <1>3 DEF Without, SizeWithout, TypeOK
  <2>2. k \in Range(lists[q]) /\ \A x \in Range(lists[q]) \ {k} : rest[x] = DataOf[x]
    BY <1>1, <1>2, <1>3
  <2> HIDE DEF DataOf
  <2>3. DataOf[k] <= current_size[q]
        /\ SumsTo(Detach(lists[q], k), rest, current_size[q] - DataOf[k])
    BY <1>2, <2>2, DetachSum
  <2>4. Detach(lists[q], k) \in Seq(Keys)
        /\ Range(Detach(lists[q], k)) = Range(lists[q]) \ {k}
        /\ Unrepeated(Detach(lists[q], k))
    BY <1>2, <2>2, DetachElements, DetachRange
  <2>5. SizeWithout(k)[q] \in Nat
    BY <1>1, <1>2, <2>1, <2>3
  <2> QED BY <1>2, <2>1, <2>3, <2>4, <2>5
<1>4. CASE q # mapping[k].queue
  <2>1. Without(k)[q] = lists[q] /\ SizeWithout(k)[q] = current_size[q]
    BY <1>1, <1>4 DEF Without, SizeWithout, TypeOK
  <2>2. \A x \in Range(lists[q]) : rest[x] = DataOf[x]
    BY <1>2, <1>4
  <2> HIDE DEF DataOf
  <2>3. SumsTo(lists[q], rest, current_size[q])
    BY <1>2, <2>2, SumOfSame
  <2>4. Range(lists[q]) = {x \in DOMAIN mapping \ {k} : mapping[x].queue = q}
    BY <1>2, <1>4
  <2> QED BY <1>2, <2>1, <2>3, <2>4
<1> QED BY <1>3, <1>4

\* An object that moves is in its new queue, and in no other.
LEMMA Moved ==
  ASSUME Typed, NEW k \in DOMAIN mapping, NEW to \in Queues,
         Move(k, mapping[k].queue, to), UNCHANGED cache_item_count
  PROVE  /\ Consistent'
         /\ lists' \in [Queues -> Seq(Keys)] /\ current_size' \in [Queues -> Nat]
         /\ DOMAIN mapping' = DOMAIN mapping /\ mapping' \in [DOMAIN mapping -> Entries]
         /\ mapping'[k].queue = to /\ DataOf' = DataOf
         /\ \A x \in DOMAIN mapping \ {k} : mapping'[x] = mapping[x]
         /\ \A q \in Queues \ {mapping[k].queue, to} :
              lists'[q] = lists[q] /\ current_size'[q] = current_size[q]
<1> DEFINE mid == Without(k)
           size == SizeWithout(k)
<1>1. k \in Keys /\ mapping[k] \in Entries /\ mapping[k].queue \in Queues
      /\ DataOf[k] = mapping[k].data /\ DataOf[k] \in Nat
  BY Resident DEF Typed
<1>2. \A q \in Queues :
        /\ mid[q] \in Seq(Keys) /\ size[q] \in Nat
        /\ Unrepeated(mid[q])
        /\ Range(mid[q]) = {x \in DOMAIN mapping \ {k} : mapping[x].queue = q}
        /\ SumsTo(mid[q], DataOf, size[q])
  BY DetachQueue DEF Typed
<1>3. /\ lists' = [mid EXCEPT ![to] = Attach(@, k)]
      /\ current_size' = [size EXCEPT ![to] = @ + DataOf[k]]
  BY <1>1 DEF Move, Without, SizeWithout
<1>4. DOMAIN mid = Queues /\ DOMAIN size = Queues
      /\ \A q \in Queues \ {mapping[k].queue} : mid[q] = lists[q] /\ size[q] = current_size[q]
  BY DEF Without, SizeWithout, Typed, TypeOK
<1>5. /\ DOMAIN mapping' = DOMAIN mapping /\ mapping' \in [DOMAIN mapping -> Entries]
      /\ mapping'[k].queue = to
      /\ \A x \in DOMAIN mapping \ {k} : mapping'[x] = mapping[x]
      /\ \A x \in DOMAIN mapping : mapping'[x].data = mapping[x].data
  BY <1>1 DEF Move, Typed, TypeOK, Entries
<1>6. DataOf' = DataOf
  BY <1>5 DEF DataOf
<1> HIDE DEF mid, size
<1>7. ASSUME NEW q \in Queues
      PROVE  /\ lists'[q] \in Seq(Keys) /\ current_size'[q] \in Nat
             /\ Unrepeated(lists'[q])
             /\ Range(lists'[q]) = {x \in DOMAIN mapping : mapping'[x].queue = q}
             /\ SumsTo(lists'[q], DataOf, current_size'[q])
  <2>1. CASE q = to
    <3>1. lists'[q] = Attach(mid[q], k) /\ current_size'[q] = size[q] + DataOf[k]
      BY <1>3, <1>4, <2>1
    <3>2. k \notin Range(mid[q]) /\ \A x \in Range(mid[q]) : DataOf[x] \in Nat
      BY <1>2, Resident DEF Typed
    <3> HIDE DEF DataOf
    <3>3. SumsTo(Attach(mid[q], k), DataOf, size[q] + DataOf[k])
      BY <1>1, <1>2, <3>2, AttachSum
    <3>4. Attach(mid[q], k) \in Seq(Keys)
          /\ Range(Attach(mid[q], k)) = Range(mid[q]) \cup {k}
          /\ Unrepeated(Attach(mid[q], k))
      BY <1>1, <1>2, <3>2, AttachElements, AttachUnrepeated
    <3>5. Range(mid[q]) \cup {k} = {x \in DOMAIN mapping : mapping'[x].queue = q}
      BY <1>2, <1>5, <2>1
    <3> QED BY <1>1, <1>2, <3>1, <3>3, <3>4, <3>5
  <2>2. CASE q # to
    <3>1. lists'[q] = mid[q] /\ current_size'[q] = size[q]
      BY <1>3, <1>4, <2>2
    <3>2. Range(mid[q]) = {x \in DOMAIN mapping : mapping'[x].queue = q}
      BY <1>2, <1>5, <2>2
    <3> QED BY <1>2, <3>1, <3>2
  <2> QED BY <2>1, <2>2
<1>8. DOMAIN lists' = Queues /\ DOMAIN current_size' = Queues
  BY <1>3, <1>4
<1>9. lists' \in [Queues -> Seq(Keys)] /\ current_size' \in [Queues -> Nat]
  BY <1>3, <1>4, <1>7, <1>8
<1>10. \A q \in Queues \ {mapping[k].queue, to} :
         lists'[q] = lists[q] /\ current_size'[q] = current_size[q]
  BY <1>3, <1>4
<1>11. Consistent'
  BY <1>5, <1>6, <1>7 DEF Consistent, Typed
<1> QED BY <1>5, <1>6, <1>9, <1>10, <1>11

\* An object that is put enters the lowest queue.
LEMMA Entered ==
  ASSUME Typed, NEW k \in Keys, NEW d \in Sizes, Put(k, d)
  PROVE  /\ Typed'
         /\ \A q \in Queues \ {0} :
              lists'[q] = lists[q] /\ current_size'[q] = current_size[q]
         /\ k \in DOMAIN mapping' /\ mapping'[k].queue = 0 /\ Head(lists'[0]) = k
<1> USE QueuesAreNumbers
<1>1. /\ lists' = [lists EXCEPT ![0] = Attach(@, k)]
      /\ current_size' = [current_size EXCEPT ![0] = @ + d]
      /\ k \notin DOMAIN mapping
      /\ mapping' = [x \in DOMAIN mapping \cup {k} |->
                       IF x = k THEN [data |-> d, queue |-> 0] ELSE mapping[x]]
  BY DEF Put, EntryQueue
<1>2. /\ DOMAIN mapping' = DOMAIN mapping \cup {k}
      /\ mapping'[k] = [data |-> d, queue |-> 0]
      /\ \A x \in DOMAIN mapping : mapping'[x] = mapping[x]
      /\ mapping' \in [DOMAIN mapping' -> Entries]
  BY <1>1 DEF Typed, TypeOK, Entries
<1>3. d \in Nat /\ DataOf'[k] = d /\ \A x \in DOMAIN mapping : DataOf'[x] = DataOf[x]
  BY <1>2, S4LRUAssumption DEF DataOf
<1>4. ASSUME NEW q \in Queues
      PROVE  /\ lists'[q] \in Seq(Keys) /\ current_size'[q] \in Nat
             /\ Unrepeated(lists'[q])
             /\ Range(lists'[q]) = {x \in DOMAIN mapping' : mapping'[x].queue = q}
             /\ SumsTo(lists'[q], DataOf', current_size'[q])
  <2> DEFINE more == DataOf'
  <2>1. /\ lists[q] \in Seq(Keys) /\ current_size[q] \in Nat
        /\ Unrepeated(lists[q]) /\ SumsTo(lists[q], DataOf, current_size[q])
        /\ \A x : x \in Range(lists[q]) <=> x \in DOMAIN mapping /\ mapping[x].queue = q
        /\ \A x \in Range(lists[q]) : DataOf[x] \in Nat
    BY QueueOf DEF Typed
  <2>2. k \notin Range(lists[q]) /\ \A x \in Range(lists[q]) : more[x] = DataOf[x]
    BY <1>1, <1>3, <2>1
  <2>3. more[k] = d
    BY <1>3
  <2> HIDE DEF more
  <2>4. CASE q = 0
    <3>1. lists'[q] = Attach(lists[q], k) /\ current_size'[q] = current_size[q] + d
      BY <1>1, <2>4 DEF Typed, TypeOK
    <3>2. SumsTo(Attach(lists[q], k), more, current_size[q] + more[k])
      BY <1>3, <2>1, <2>2, <2>3, AttachSum
    <3>3. Attach(lists[q], k) \in Seq(Keys)
          /\ Range(Attach(lists[q], k)) = Range(lists[q]) \cup {k}
          /\ Unrepeated(Attach(lists[q], k))
      BY <2>1, <2>2, AttachElements, AttachUnrepeated
    <3>4. Range(lists[q]) \cup {k} = {x \in DOMAIN mapping' : mapping'[x].queue = q}
      BY <1>2, <2>1, <2>4
    <3> QED BY <1>3, <2>1, <2>3, <3>1, <3>2, <3>3, <3>4 DEF more
  <2>5. CASE q # 0
    <3>1. lists'[q] = lists[q] /\ current_size'[q] = current_size[q]
      BY <1>1, <2>5
    <3>2. SumsTo(lists[q], more, current_size[q])
      BY <2>1, <2>2, SumOfSame
    <3>3. Range(lists[q]) = {x \in DOMAIN mapping' : mapping'[x].queue = q}
      BY <1>1, <1>2, <2>1, <2>5
    <3> QED BY <2>1, <3>1, <3>2, <3>3 DEF more
  <2> QED BY <2>4, <2>5
<1>5. lists' \in [Queues -> Seq(Keys)] /\ current_size' \in [Queues -> Nat]
  BY <1>1, <1>4 DEF Typed, TypeOK
<1>6. /\ IsFiniteSet(DOMAIN mapping') /\ cache_item_count' = Cardinality(DOMAIN mapping')
      /\ cache_item_count' \in Nat
  BY <1>1, <1>2, FS_AddElement, FS_CardinalityType DEF Put, Typed, Consistent
<1>7. Consistent'
  BY <1>4, <1>6 DEF Consistent
<1>8. TypeOK'
  BY <1>2, <1>5, <1>6 DEF Put, TypeOK, Typed
<1>9. Head(lists'[0]) = k
  <2>1. lists'[0] = Attach(lists[0], k) /\ lists[0] \in Seq(Keys)
    BY <1>1 DEF Typed, TypeOK
  <2> QED BY <2>1, AttachHead
<1> QED BY <1>1, <1>2, <1>6, <1>7, <1>8, <1>9 DEF Typed

\* An object that is bumped out leaves the lowest queue.
LEMMA Left ==
  ASSUME Typed, BumpOut
  PROVE  /\ Typed'
         /\ j = 0 /\ Last(lists[0]) \in DOMAIN mapping
         /\ mapping[Last(lists[0])].queue = 0
         /\ lists'[0] = Detach(lists[0], Last(lists[0]))
         /\ DOMAIN mapping' = DOMAIN mapping \ {Last(lists[0])}
         /\ \A x \in DOMAIN mapping' : mapping'[x] = mapping[x]
         /\ \A q \in Queues \ {0} :
              lists'[q] = lists[q] /\ current_size'[q] = current_size[q]
<1> USE QueuesAreNumbers
<1> DEFINE v == Bumped(j)
<1>1. j \in Queues /\ v \in DOMAIN mapping /\ mapping[v].queue = j
  BY QueueOf, FrontIsDetach DEF Typed, TypeOK, BumpOut, Bumped
<1>2. j = 0 /\ mapping[v].queue = 0
  BY <1>1 DEF BumpOut
<1>3. lists' = Without(v) /\ current_size' = SizeWithout(v)
  BY <1>2 DEF BumpOut, Without, SizeWithout
<1>4. /\ DOMAIN mapping' = DOMAIN mapping \ {v}
      /\ \A x \in DOMAIN mapping' : mapping'[x] = mapping[x]
      /\ mapping' \in [DOMAIN mapping' -> Entries]
  BY DEF BumpOut, Restrict, Typed, TypeOK
<1>5. \A x \in DOMAIN mapping \ {v} : DataOf'[x] = DataOf[x]
  BY <1>4 DEF DataOf
<1>6. ASSUME NEW q \in Queues
      PROVE  /\ lists'[q] \in Seq(Keys) /\ current_size'[q] \in Nat
             /\ Unrepeated(lists'[q])
             /\ Range(lists'[q]) = {x \in DOMAIN mapping' : mapping'[x].queue = q}
             /\ SumsTo(lists'[q], DataOf', current_size'[q])
  <2> DEFINE rest == DataOf'
  <2>1. \A x \in DOMAIN mapping \ {v} : rest[x] = DataOf[x]
    BY <1>5
  <2> HIDE DEF rest, v
  <2>2. /\ Without(v)[q] \in Seq(Keys) /\ SizeWithout(v)[q] \in Nat
        /\ Unrepeated(Without(v)[q])
        /\ Range(Without(v)[q]) = {x \in DOMAIN mapping \ {v} : mapping[x].queue = q}
        /\ SumsTo(Without(v)[q], rest, SizeWithout(v)[q])
    BY <1>1, <2>1, DetachQueue DEF Typed
  <2>3. {x \in DOMAIN mapping \ {v} : mapping[x].queue = q}
          = {x \in DOMAIN mapping' : mapping'[x].queue = q}
    BY <1>4
  <2> QED BY <1>3, <2>2, <2>3 DEF rest
<1>7. lists' \in [Queues -> Seq(Keys)] /\ current_size' \in [Queues -> Nat]
  BY <1>6 DEF Typed, TypeOK, BumpOut
<1>8. /\ IsFiniteSet(DOMAIN mapping') /\ cache_item_count' = Cardinality(DOMAIN mapping')
      /\ cache_item_count' \in Nat
  <2>1. IsFiniteSet(DOMAIN mapping) /\ cache_item_count = Cardinality(DOMAIN mapping)
        /\ cache_item_count' = cache_item_count - 1
    BY DEF BumpOut, Typed, Consistent
  <2> HIDE DEF v
  <2>2. IsFiniteSet(DOMAIN mapping \ {v})
        /\ Cardinality(DOMAIN mapping \ {v}) = Cardinality(DOMAIN mapping) - 1
    BY <1>1, <2>1, FS_RemoveElement
  <2>3. Cardinality(DOMAIN mapping \ {v}) \in Nat
    BY <2>2, FS_CardinalityType
  <2> QED BY <1>4, <2>1, <2>2, <2>3
<1>9. Consistent'
  BY <1>6, <1>8 DEF Consistent
<1>10. TypeOK'
  BY <1>4, <1>7, <1>8 DEF BumpOut, TypeOK, Typed
<1>11. \A q \in Queues \ {0} : lists'[q] = lists[q] /\ current_size'[q] = current_size[q]
  BY DEF BumpOut
<1>12. lists'[0] = Detach(lists[0], v)
  BY DEF BumpOut, Typed, TypeOK
<1> QED BY <1>1, <1>2, <1>4, <1>8, <1>9, <1>10, <1>11, <1>12 DEF Typed, Bumped

\* An object that is bumped down is the last of the queue the purge is at.
LEMMA Descended ==
  ASSUME Typed, BumpDown
  PROVE  /\ Typed'
         /\ j # 0 /\ j \in Queues /\ Bumped(j) \in DOMAIN mapping
         /\ mapping[Bumped(j)].queue = j /\ mapping'[Bumped(j)].queue = j - 1
         /\ lists'[j] = Detach(lists[j], Bumped(j))
         /\ DOMAIN mapping' = DOMAIN mapping
         /\ \A x \in DOMAIN mapping \ {Bumped(j)} : mapping'[x] = mapping[x]
         /\ \A q \in Queues \ {j, j-1} :
              lists'[q] = lists[q] /\ current_size'[q] = current_size[q]
<1> USE QueuesAreNumbers
<1> DEFINE v == Bumped(j)
<1>1. j \in Queues /\ v \in DOMAIN mapping /\ mapping[v].queue = j
  BY QueueOf, FrontIsDetach DEF Typed, TypeOK, BumpDown, Bumped
<1>2. j # 0 /\ j - 1 \in Queues /\ j - 1 # j
  <2>1. mapping[v].queue # 0
    BY DEF BumpDown
  <2> HIDE DEF v
  <2>2. j # 0
    BY <1>1, <2>1
  <2> QED BY <1>1, <2>2 DEF Below
<1>3. Move(v, mapping[v].queue, j - 1) /\ UNCHANGED <<cache_item_count, loop, j, node>>
  BY DEF BumpDown, Below
<1> HIDE DEF v
<1>4. /\ Consistent'
      /\ lists' \in [Queues -> Seq(Keys)] /\ current_size' \in [Queues -> Nat]
      /\ DOMAIN mapping' = DOMAIN mapping /\ mapping' \in [DOMAIN mapping -> Entries]
      /\ mapping'[v].queue = j - 1
      /\ \A x \in DOMAIN mapping \ {v} : mapping'[x] = mapping[x]
      /\ \A q \in Queues \ {j, j-1} :
           lists'[q] = lists[q] /\ current_size'[q] = current_size[q]
  <2>1. UNCHANGED cache_item_count
    BY <1>3
  <2> HIDE QueuesAreNumbers
  <2> QED BY <1>1, <1>2, <1>3, <2>1, Moved
<1>5. Typed'
  BY <1>3, <1>4 DEF Typed, TypeOK
<1>6. lists'[j] = Detach(lists[j], v)
  BY <1>1, <1>2, <1>3 DEF Move, Typed, TypeOK
<1> QED BY <1>1, <1>2, <1>4, <1>5, <1>6 DEF v

\* An object that is requested is first in the queue above, or in the top.
LEMMA Ascended ==
  ASSUME Typed, NEW k \in Keys, Get(k)
  PROVE  /\ Typed'
         /\ k \in DOMAIN mapping /\ DOMAIN mapping' = DOMAIN mapping
         /\ mapping'[k].queue = Above(mapping[k].queue)
         /\ mapping'[k].data = mapping[k].data
         /\ Head(lists'[mapping'[k].queue]) = k
         /\ \A q \in Queues \ {mapping[k].queue, Above(mapping[k].queue)} :
              lists'[q] = lists[q] /\ current_size'[q] = current_size[q]
<1> USE QueuesAreNumbers
<1> DEFINE from == mapping[k].queue
           to == Above(mapping[k].queue)
<1>1. k \in DOMAIN mapping /\ from \in Queues /\ to \in Queues
      /\ Move(k, from, to) /\ UNCHANGED cache_item_count
  BY Resident DEF Get, Typed
<1> HIDE DEF to
<1>2. /\ Consistent'
      /\ lists' \in [Queues -> Seq(Keys)] /\ current_size' \in [Queues -> Nat]
      /\ DOMAIN mapping' = DOMAIN mapping /\ mapping' \in [DOMAIN mapping -> Entries]
      /\ mapping'[k].queue = to /\ DataOf' = DataOf
      /\ \A q \in Queues \ {from, to} :
           lists'[q] = lists[q] /\ current_size'[q] = current_size[q]
  BY <1>1, Moved
<1>3. Typed'
  BY <1>2 DEF Typed, TypeOK, Get
<1>4. Head(lists'[to]) = k
  <2>1. Without(k)[to] \in Seq(Keys)
    BY <1>1, DetachQueue DEF Typed
  <2>2. lists'[to] = Attach(Without(k)[to], k)
    BY <1>1 DEF Move, Without, Typed, TypeOK
  <2> QED BY <2>1, <2>2, AttachHead
<1>5. mapping'[k].data = mapping[k].data
  BY <1>1, <1>2 DEF DataOf
<1> QED BY <1>1, <1>2, <1>3, <1>4, <1>5 DEF to

-------------------------------------------------------------------------------
(* The bytes of a queue *)

\* An object is no larger than the queue it is in.
LEMMA NoLargerThanQueue ==
  ASSUME Typed, NEW k \in DOMAIN mapping
  PROVE  mapping[k].data <= current_size[mapping[k].queue]
<1> DEFINE q == mapping[k].queue
<1>1. q \in Queues /\ k \in Range(lists[q]) /\ DataOf[k] = mapping[k].data
  BY Resident DEF Typed
<1> HIDE DEF q, DataOf
<1>2. DataOf[k] <= current_size[q]
  BY <1>1, QueueOf, DetachSum DEF Typed
<1> QED BY <1>1, <1>2 DEF q

\* An object that is first and last in its queue is all that is in it.
LEMMA AloneInQueue ==
  ASSUME Typed, NEW k \in DOMAIN mapping,
         Head(lists[mapping[k].queue]) = k, Last(lists[mapping[k].queue]) = k
  PROVE  mapping[k].data = current_size[mapping[k].queue]
<1> DEFINE q == mapping[k].queue
           list == lists[q]
<1>1. /\ q \in Queues /\ k \in Range(list)
      /\ DataOf[k] = mapping[k].data /\ DataOf[k] \in Nat
  BY Resident DEF Typed
<1>2. /\ list \in Seq(Keys) /\ Unrepeated(list) /\ current_size[q] \in Nat
      /\ SumsTo(list, DataOf, current_size[q])
      /\ \A x \in Range(list) : DataOf[x] \in Nat
  BY <1>1, QueueOf DEF Typed
<1>3. Head(list) = k /\ Last(list) = k
  OBVIOUS
<1> HIDE DEF q, list, DataOf
<1>4. Len(list) \in Nat /\ Len(list) # 0 /\ list # <<>>
  BY <1>1, <1>2, LenProperties, EmptySeq DEF Range
<1>5. list[1] = k /\ list[Len(list)] = k
  BY <1>2, <1>3, <1>4 DEF Last
<1>6. Len(list) = 1
  <2>1. 1 \in 1..Len(list) /\ Len(list) \in 1..Len(list)
    BY <1>4
  <2> QED BY <1>2, <1>5, <2>1 DEF Unrepeated
<1>7. Detach(list, k) = <<>>
  <2>1. Detach(list, k) \in Seq(Keys) /\ Len(Detach(list, k)) = 0
    BY <1>1, <1>2, <1>6, DetachElements
  <2> QED BY <2>1, EmptySeq
<1>8. /\ DataOf[k] <= current_size[q]
      /\ SumsTo(<<>>, DataOf, current_size[q] - DataOf[k])
  BY <1>1, <1>2, <1>7, DetachSum
<1>9. current_size[q] - DataOf[k] \in Nat
  BY <1>1, <1>2, <1>8
<1>10. current_size[q] - DataOf[k] = 0
  BY <1>8, <1>9, EmptySum
<1>11. current_size[q] = DataOf[k]
  BY <1>1, <1>2, <1>10
<1> QED BY <1>1, <1>11 DEF q

\* The purge does not reach the object of a get.
LEMMA NodeNotBumped ==
  ASSUME IInv, loop = "get", OverShare(j), NEW k \in node
  PROVE  /\ k \in DOMAIN mapping /\ j <= mapping[k].queue
         /\ lists[j] # <<>> => k # Bumped(j) \/ mapping[k].queue # j
<1>1. k \in DOMAIN mapping /\ k \in node \cap DOMAIN mapping
  BY DEF IInv, GetOverfillsOne
<1>2. /\ mapping[k].queue \in Queues /\ j \in Queues /\ mapping[k].data \in Nat
      /\ current_size[j] \in Nat
  BY <1>1, Resident DEF IInv, Typed, TypeOK
<1>3. j <= mapping[k].queue
  <2>1. ~Fits(j)
    BY <1>2, QueuesAreNumbers DEF Fits, OverShare
  <2>2. ~(j > mapping[k].queue)
    BY <1>1, <1>2, <2>1 DEF IInv, GetOverfillsOne
  <2>3. mapping[k].queue \in Int /\ j \in Int
    BY <1>2, QueuesAreIntegers
  <2> QED BY <2>2, <2>3
<1>4. ASSUME k = Bumped(j), mapping[k].queue = j
      PROVE  FALSE
  <2>1. Head(lists[mapping[k].queue]) = k /\ Last(lists[mapping[k].queue]) = k
    BY <1>1, <1>4 DEF IInv, NodeAtHead, Bumped
  <2>2. mapping[k].data = current_size[j]
    BY <1>1, <1>4, <2>1, AloneInQueue DEF IInv
  <2>3. mapping[k].data <= total_capacity
    BY <1>1 DEF IInv, GetOverfillsOne
  <2> QED BY <1>2, <2>2, <2>3, QueuesAreNumbers DEF OverShare
<1> QED BY <1>1, <1>3, <1>4

-------------------------------------------------------------------------------
(* The inductive invariant is preserved *)

LEMMA IInvInit == Init => IInv
<1> SUFFICES ASSUME Init PROVE IInv
  OBVIOUS
<1> USE DEF Init
<1>1. DOMAIN mapping = {} /\ IsFiniteSet(DOMAIN mapping) /\ cache_item_count = Cardinality(DOMAIN mapping)
  BY FS_EmptySet
<1>2. TypeOK
  <2>1. mapping \in [DOMAIN mapping -> Entries]
    BY <1>1
  <2> QED BY <1>1, <2>1, QueuesAreNumbers, EmptySeq DEF TypeOK
<1>3. Consistent
  <2>1. ASSUME NEW q \in Queues
        PROVE  Unrepeated(lists[q]) /\ Range(lists[q]) = {} /\ SumsTo(lists[q], DataOf, current_size[q])
    <3>1. lists[q] = <<>> /\ current_size[q] = 0
      OBVIOUS
    <3>2. Len(<<>>) = 0 /\ DOMAIN <<>> = {}
      OBVIOUS
    <3>3. SumsTo(<<>>, DataOf, 0)
      BY EmptySum
    <3> QED BY <3>1, <3>2, <3>3 DEF Unrepeated, Range
  <2> QED BY <1>1, <2>1 DEF Consistent
<1>4. FitsAtRest
  BY QueuesAreNumbers DEF FitsAtRest
<1> QED BY <1>1, <1>2, <1>3, <1>4
        DEF IInv, Typed, FitsAbove, NodeAtHead, GetOverfillsOne, PutOverfillsLowest

LEMMA PutStep ==
  ASSUME IInv, NEW k \in Keys, NEW d \in Sizes, Put(k, d)
  PROVE  IInv'
<1>1. /\ Typed'
      /\ \A q \in Queues \ {0} : lists'[q] = lists[q] /\ current_size'[q] = current_size[q]
      /\ k \in DOMAIN mapping' /\ mapping'[k].queue = 0 /\ Head(lists'[0]) = k
  BY Entered DEF IInv
<1>2. loop = "idle" /\ loop' = "put" /\ j' = Top /\ node' = {k}
  BY DEF Put
<1>3. \A q \in Queues \ {0} : Fits(q)'
  BY <1>1, <1>2 DEF IInv, FitsAtRest, Fits
<1>4. \A q \in Queues : ~(q > Top)
  BY QueuesAreNumbers DEF Queues
<1> QED BY <1>1, <1>2, <1>3, <1>4
        DEF IInv, FitsAtRest, FitsAbove, NodeAtHead, GetOverfillsOne, PutOverfillsLowest

LEMMA GetStep ==
  ASSUME IInv, NEW k \in Keys, Get(k)
  PROVE  IInv'
<1> DEFINE from == mapping[k].queue
           to == Above(from)
<1>1. /\ Typed'
      /\ k \in DOMAIN mapping /\ DOMAIN mapping' = DOMAIN mapping
      /\ mapping'[k].queue = to /\ mapping'[k].data = mapping[k].data
      /\ Head(lists'[to]) = k
      /\ \A q \in Queues \ {from, to} :
           lists'[q] = lists[q] /\ current_size'[q] = current_size[q]
  BY Ascended DEF IInv
<1>2. loop = "idle" /\ loop' = "get" /\ j' = Top /\ node' = {k}
  BY DEF Get
<1>3. from \in Queues /\ to \in Queues /\ \A q \in Queues : q > to => q # from /\ q # to
  BY <1>1, Resident, QueuesAreNumbers DEF IInv, Typed, Above, Queues
<1>4. \A q \in Queues : Fits(q)
  BY <1>2 DEF IInv, FitsAtRest, Fits
<1>5. mapping[k].data <= total_capacity
  <2>1. mapping[k].data <= current_size[from] /\ mapping[k].data \in Nat
        /\ current_size[from] \in Nat
    BY <1>1, <1>3, NoLargerThanQueue, Resident DEF IInv, Typed, TypeOK
  <2>2. current_size[from] <= total_capacity
    BY <1>3, <1>4 DEF Fits
  <2> QED BY <2>1, <2>2, QueuesAreIntegers
<1>6. \A q \in Queues : q > to => Fits(q)'
  BY <1>1, <1>3, <1>4 DEF Fits
<1>7. \A q \in Queues : ~(q > Top)
  BY QueuesAreNumbers DEF Queues
<1> HIDE DEF from, to
<1> QED BY <1>1, <1>2, <1>5, <1>6, <1>7
        DEF IInv, FitsAtRest, FitsAbove, NodeAtHead, GetOverfillsOne, PutOverfillsLowest

LEMMA BumpDownStep ==
  ASSUME IInv, BumpDown
  PROVE  IInv'
<1> USE QueuesAreNumbers
<1> DEFINE v == Bumped(j)
<1>1. /\ Typed'
      /\ j # 0 /\ j \in Queues /\ v \in DOMAIN mapping /\ mapping[v].queue = j
      /\ lists'[j] = Detach(lists[j], v)
      /\ DOMAIN mapping' = DOMAIN mapping
      /\ \A x \in DOMAIN mapping \ {v} : mapping'[x] = mapping[x]
      /\ \A q \in Queues \ {j, j-1} : lists'[q] = lists[q] /\ current_size'[q] = current_size[q]
  BY Descended DEF IInv
<1>2. OverShare(j) /\ lists[j] # <<>> /\ loop # "idle" /\ UNCHANGED <<loop, j, node>>
  BY DEF BumpDown
<1> HIDE DEF v
<1>3. loop = "get"
  <2>1. ~Fits(j)
    <3>1. current_size[j] \in Int
      BY <1>1 DEF IInv, Typed, TypeOK
    <3> QED BY <1>2, <3>1, QueuesAreIntegers DEF Fits, OverShare
  <2> QED BY <1>1, <1>2, <2>1 DEF IInv, PutOverfillsLowest, Typed, TypeOK
<1>4. \A k \in node : /\ k \in DOMAIN mapping /\ k # v /\ j <= mapping[k].queue
                      /\ mapping[k].queue \in Queues
                      /\ mapping'[k] = mapping[k]
  BY <1>1, <1>2, <1>3, NodeNotBumped, Resident DEF v, IInv, Typed
<1>5. NodeAtHead'
  <2> SUFFICES ASSUME NEW k \in node PROVE Head(lists'[mapping[k].queue]) = k
    BY <1>2, <1>4 DEF NodeAtHead
  <2>0. mapping[k].queue \in Int /\ j \in Int /\ j <= mapping[k].queue
    BY <1>1, <1>4, QueuesAreIntegers
  <2>1. Head(lists[mapping[k].queue]) = k /\ mapping[k].queue # j - 1
    BY <1>4, <2>0 DEF IInv, NodeAtHead
  <2>2. CASE mapping[k].queue = j
    <3>1. lists[j] \in Seq(Keys) /\ v \in Range(lists[j])
      BY <1>1, QueueOf DEF IInv, Typed
    <3> QED BY <1>1, <1>4, <2>1, <2>2, <3>1, DetachHead
  <2>3. CASE mapping[k].queue # j
    BY <1>1, <1>4, <2>1, <2>3
  <2> QED BY <2>2, <2>3
<1>6. GetOverfillsOne'
  <2> SUFFICES ASSUME NEW k \in node
               PROVE  /\ k \in DOMAIN mapping /\ mapping[k].data <= total_capacity
                      /\ \A q \in Queues : q > mapping[k].queue => Fits(q)'
    BY <1>1, <1>2, <1>4 DEF GetOverfillsOne
  <2>0. mapping[k].queue \in Int /\ j \in Int /\ j <= mapping[k].queue
    BY <1>1, <1>4, QueuesAreIntegers
  <2>1. \A q \in Queues : q > mapping[k].queue => q # j /\ q # j - 1
    BY <2>0, QueuesAreIntegers
  <2> QED BY <1>1, <1>3, <2>1 DEF IInv, GetOverfillsOne, Fits
<1>7. FitsAbove'
  <2>1. ASSUME NEW q \in Queues, q > j PROVE q # j /\ q # j - 1
    <3>1. q \in Int /\ j \in Int
      BY <1>1, QueuesAreIntegers
    <3> QED BY <2>1, <3>1
  <2> QED BY <1>1, <1>2, <2>1 DEF IInv, FitsAbove, Fits
<1> QED BY <1>1, <1>2, <1>3, <1>5, <1>6, <1>7 DEF IInv, FitsAtRest, PutOverfillsLowest

LEMMA BumpOutStep ==
  ASSUME IInv, BumpOut
  PROVE  IInv'
<1> USE QueuesAreNumbers
<1> DEFINE v == Last(lists[0])
<1>1. /\ Typed'
      /\ j = 0 /\ v \in DOMAIN mapping /\ mapping[v].queue = 0
      /\ lists'[0] = Detach(lists[0], v)
      /\ DOMAIN mapping' = DOMAIN mapping \ {v}
      /\ \A x \in DOMAIN mapping' : mapping'[x] = mapping[x]
      /\ \A q \in Queues \ {0} : lists'[q] = lists[q] /\ current_size'[q] = current_size[q]
  BY Left DEF IInv
<1>2. OverShare(j) /\ lists[j] # <<>> /\ loop # "idle" /\ UNCHANGED <<loop, j, node>>
  BY DEF BumpOut
<1>3. ASSUME loop = "get", NEW k \in node PROVE k \in DOMAIN mapping \ {v}
  <2>1. k \in DOMAIN mapping /\ (k # v \/ mapping[k].queue # 0)
    BY <1>1, <1>2, <1>3, NodeNotBumped DEF Bumped
  <2> QED BY <1>1, <2>1
<1> HIDE DEF v
<1>4. NodeAtHead'
  <2> SUFFICES ASSUME NEW k \in node \cap (DOMAIN mapping \ {v})
               PROVE  Head(lists'[mapping[k].queue]) = k
    BY <1>1, <1>2 DEF NodeAtHead
  <2>1. Head(lists[mapping[k].queue]) = k /\ mapping[k].queue \in Queues
    BY Resident DEF IInv, NodeAtHead, Typed
  <2>2. CASE mapping[k].queue = 0
    <3>1. lists[0] \in Seq(Keys) /\ v \in Range(lists[0])
      BY <1>1, QueueOf DEF IInv, Typed
    <3> QED BY <1>1, <2>1, <2>2, <3>1, DetachHead
  <2>3. CASE mapping[k].queue # 0
    BY <1>1, <2>1, <2>3
  <2> QED BY <2>2, <2>3
<1>5. \A q \in Queues \ {0} : Fits(q)' = Fits(q)
  BY <1>1 DEF Fits
<1>6. GetOverfillsOne'
  <2> SUFFICES ASSUME loop = "get", NEW k \in node
               PROVE  /\ k \in DOMAIN mapping' /\ mapping'[k].data <= total_capacity
                      /\ \A q \in Queues : q > mapping'[k].queue => Fits(q)'
    BY <1>2 DEF GetOverfillsOne
  <2>1. k \in DOMAIN mapping' /\ mapping'[k] = mapping[k] /\ mapping[k].queue \in Queues
    BY <1>1, <1>3, Resident DEF IInv, Typed
  <2>2. mapping[k].queue \in Nat
    BY <2>1
  <2>3. \A q \in Queues : q > mapping[k].queue => q # 0
    BY <2>2
  <2> QED BY <1>5, <2>1, <2>3 DEF IInv, GetOverfillsOne
<1>7. PutOverfillsLowest'
  BY <1>1, <1>2, <1>5 DEF IInv, PutOverfillsLowest
<1>8. FitsAbove'
  <2>1. \A q \in Queues : q > 0 => q # 0
    OBVIOUS
  <2> QED BY <1>1, <1>2, <1>5, <2>1 DEF IInv, FitsAbove
<1> QED BY <1>1, <1>2, <1>4, <1>6, <1>7, <1>8 DEF IInv, FitsAtRest

LEMMA NextQueueStep ==
  ASSUME IInv, NextQueue \/ Return \/ UNCHANGED vars
  PROVE  IInv'
<1> USE QueuesAreNumbers
<1>1. UNCHANGED <<lists, mapping, current_size, cache_item_count>> /\ j' \in Queues
      /\ loop' \in {loop, "idle"} /\ node' \in {node, {}}
  BY DEF NextQueue, Return, vars, IInv, Typed, TypeOK, Queues, Top
<1>2. Typed'
  BY <1>1 DEF IInv, Typed, TypeOK, Consistent, DataOf
<1>3. \A q \in Queues : Fits(q)' = Fits(q) /\ (~OverShare(q) => Fits(q))
  BY <1>1 DEF Fits, OverShare, IInv, Typed, TypeOK
<1>4. FitsAbove'
  <2>1. CASE NextQueue
    <3>1. j \in Queues /\ j' = j - 1 /\ Fits(j) /\ loop # "idle"
      BY <2>1, <1>3 DEF NextQueue, IInv, Typed, TypeOK
    <3>2. \A q \in Queues : q > j - 1 => q = j \/ q > j
      BY <3>1
    <3> QED BY <1>3, <3>1, <3>2 DEF IInv, FitsAbove
  <2>2. CASE Return
    BY <2>2 DEF Return, FitsAbove
  <2>3. CASE UNCHANGED vars
    BY <2>3 DEF vars, IInv, FitsAbove, Fits
  <2> QED BY <2>1, <2>2, <2>3
<1>5. FitsAtRest'
  <2>1. CASE NextQueue
    BY <2>1 DEF NextQueue, FitsAtRest
  <2>2. CASE Return
    <3>1. \A q \in Queues : q = 0 \/ q > 0
      OBVIOUS
    <3>2. \A q \in Queues : Fits(q)
      BY <2>2, <3>1, <1>3 DEF Return, IInv, FitsAbove, Typed, TypeOK
    <3> QED BY <1>1, <3>2 DEF FitsAtRest, Fits
  <2>3. CASE UNCHANGED vars
    BY <2>3 DEF vars, IInv, FitsAtRest
  <2> QED BY <2>1, <2>2, <2>3
<1>6. NodeAtHead' /\ GetOverfillsOne' /\ PutOverfillsLowest'
  BY <1>1, <1>3 DEF IInv, NodeAtHead, GetOverfillsOne, PutOverfillsLowest
<1> QED BY <1>2, <1>4, <1>5, <1>6 DEF IInv

LEMMA IInvStep == IInv /\ [Next]_vars => IInv'
BY PutStep, GetStep, BumpDownStep, BumpOutStep, NextQueueStep DEF Next, Work

-------------------------------------------------------------------------------
(* The theorems *)

THEOREM Inductive == Spec => []IInv
BY IInvInit, IInvStep, PTL DEF Spec

\* The queues and the map of s4lru_eviction.cc never part, the byte counts are
\* those of the queues, and between operations every queue is within its share.
THEOREM QueuesAreWellFormed == Spec => []WellFormed
<1>1. IInv => WellFormed
  BY DEF IInv, Typed, WellFormed
<1> QED BY <1>1, Inductive, PTL

\* The node that get goes on with is never one that its purge deleted.
THEOREM NodeSurvivesPurge == Spec => []NodeOutlivesGet
<1>1. IInv => NodeOutlivesGet
  BY DEF IInv, GetOverfillsOne, NodeOutlivesGet
<1> QED BY <1>1, Inductive, PTL

\* A put purges nothing but the lowest queue.
THEOREM UpperQueuesAreProtected == Spec => PutsStayBelow
<1> DEFINE Stays == loop = "put" \/ loop' = "put" =>
                      \A q \in Queues \ {0} : lists'[q] = lists[q]
<1>1. IInv /\ [Next]_vars => [Stays]_vars
  <2> SUFFICES ASSUME IInv, Next, loop = "put" \/ loop' = "put",
                      NEW q \in Queues \ {0}
               PROVE  lists'[q] = lists[q]
    OBVIOUS
  <2>1. ASSUME NEW k \in Keys, NEW d \in Sizes, Put(k, d) PROVE lists'[q] = lists[q]
    BY <2>1, Entered DEF IInv
  <2>2. ASSUME NEW k \in Keys, Get(k) PROVE FALSE
    BY <2>2 DEF Get
  <2>3. CASE BumpDown
    <3>1. loop = "put" /\ OverShare(j)
      BY <2>3 DEF BumpDown
    <3>2. j \in Queues \ {0} /\ current_size[j] \in Nat
      BY <2>3, Descended DEF IInv, Typed, TypeOK
    <3> QED BY <3>1, <3>2, QueuesAreNumbers DEF IInv, PutOverfillsLowest, Fits, OverShare
  <2>4. CASE BumpOut
    BY <2>4, Left DEF IInv
  <2>5. CASE NextQueue \/ Return
    BY <2>5 DEF NextQueue, Return
  <2> QED BY <2>1, <2>2, <2>3, <2>4, <2>5 DEF Next, Work
<1> QED BY <1>1, Inductive, PTL DEF Spec, PutsStayBelow

\* An object that fits in a queue is not bumped out by its own put, nor by a
\* get of it.
THEOREM FittingObjectsArrive == Spec => LostOnArrivalOnlyIfTooLarge
<1> DEFINE Arrives == \A k \in node \cap DOMAIN mapping :
                        k \notin DOMAIN mapping' => mapping[k].data > total_capacity
<1>1. IInv /\ [Next]_vars => [Arrives]_vars
  <2> SUFFICES ASSUME IInv, Next, NEW k \in node \cap DOMAIN mapping,
                      k \notin DOMAIN mapping'
               PROVE  mapping[k].data > total_capacity
    OBVIOUS
  <2>1. BumpOut
    <3>1. ASSUME NEW x \in Keys, NEW d \in Sizes, Put(x, d) PROVE FALSE
      BY <3>1 DEF Put
    <3>2. ASSUME NEW x \in Keys, Get(x) PROVE FALSE
      BY <3>2, Ascended DEF IInv
    <3>3. CASE BumpDown
      BY <3>3, Descended DEF IInv
    <3>4. CASE NextQueue \/ Return
      BY <3>4 DEF NextQueue, Return
    <3> QED BY <3>1, <3>2, <3>3, <3>4 DEF Next, Work
  <2>2. k = Last(lists[0]) /\ mapping[k].queue = 0 /\ j = 0
    BY <2>1, Left DEF IInv
  <2>3. Head(lists[0]) = k
    BY <2>2 DEF IInv, NodeAtHead
  <2>4. mapping[k].data = current_size[0]
    BY <2>2, <2>3, AloneInQueue DEF IInv
  <2> QED BY <2>1, <2>2, <2>4 DEF BumpOut, OverShare
<1> QED BY <1>1, Inductive, PTL DEF Spec, LostOnArrivalOnlyIfTooLarge

\* The loop of purge_regular never finds a queue over its share empty, where
\* it would give up and leave the cache overfull.
THEOREM PurgeNeverGivesUp ==
  Spec => [](\A q \in Queues : OverShare(q) => lists[q] # <<>>)
<1>1. IInv => \A q \in Queues : OverShare(q) => lists[q] # <<>>
  <2> SUFFICES ASSUME IInv, NEW q \in Queues, lists[q] = <<>> PROVE ~OverShare(q)
    OBVIOUS
  <2>1. current_size[q] \in Nat /\ SumsTo(<<>>, DataOf, current_size[q])
    BY QueueOf DEF IInv, Typed
  <2>2. current_size[q] = 0
    BY <2>1, EmptySum
  <2> QED BY <2>2, QueuesAreNumbers DEF OverShare
<1> QED BY <1>1, Inductive, PTL
==============================================================================
