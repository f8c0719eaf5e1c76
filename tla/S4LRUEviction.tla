----------------------------- MODULE S4LRUEviction -----------------------------
(***************************************************************************)
(* lib/s4lru_eviction.cc: the segmented LRU.  An object enters in queue 0, *)
(* each request moves it up a queue, and a queue that is over its share of *)
(* the capacity bumps objects from its tail into the queue below; queue 0  *)
(* bumps them out.  One step is one iteration of a loop of purge_regular,  *)
(* after which get goes on with its node.  purge_regular gives up when a   *)
(* queue over its share is empty: here nothing is enabled in that state.   *)
(***************************************************************************)
EXTENDS EntryList, Functions, FiniteSets

CONSTANTS Keys,         \* cache keys
          Sizes,        \* object sizes, in bytes
          Capacity,     \* the size the cache was built with
          queue_count

ASSUME S4LRUAssumption ==
  /\ Sizes \subseteq Nat
  /\ Capacity \in Nat
  /\ queue_count \in Nat \ {0}

Top == queue_count - 1
Queues == 0..Top

\* The share of each queue.
total_capacity == Capacity \div queue_count

VARIABLES
  lists,              \* queue -> keys from head[queue]->next to tail[queue]->prev
  mapping,            \* _mapping: resident key -> [data, queue]
  current_size,       \* queue -> bytes
  cache_item_count,
  loop,               \* "idle", or the caller of purge_regular: "put", "get"
  j,                  \* the queue purge_regular is at; 0 outside
  node                \* the key being put or got, in a set; {} outside

vars == <<lists, mapping, current_size, cache_item_count, loop, j, node>>

Entries == [data : Sizes, queue : Queues]

TypeOK ==
  /\ lists \in [Queues -> Seq(Keys)]
  /\ DOMAIN mapping \subseteq Keys
  /\ mapping \in [DOMAIN mapping -> Entries]
  /\ current_size \in [Queues -> Nat]
  /\ cache_item_count \in Nat
  /\ loop \in {"idle", "put", "get"}
  /\ j \in Queues
  /\ node \subseteq Keys

Init ==
  /\ lists = [q \in Queues |-> <<>>]
  /\ mapping = [k \in {} |-> 0]
  /\ current_size = [q \in Queues |-> 0]
  /\ cache_item_count = 0
  /\ loop = "idle"
  /\ j = 0
  /\ node = {}

-------------------------------------------------------------------------------
(* Faulty variants of the definitions below *)

\* detach comes after attach, which has set the queue of the node.
MoveWithin(k, from, to) ==
  /\ lists' = [[lists EXCEPT ![from] = Detach(@, k)] EXCEPT ![to] = Attach(@, k)]
  /\ current_size' = [[current_size EXCEPT ![to] = @ - mapping[k].data]
                                    EXCEPT ![to] = @ + mapping[k].data]
  /\ mapping' = [mapping EXCEPT ![k].queue = to]

\* "Switch 1 of 2" at MRU: the head of the queue is bumped.
BumpedMRU(q) == Head(lists[q])

\* An object enters in the queue above the lowest.
EntryQueueAbove == IF Top > 0 THEN 1 ELSE 0

\* An object bumped from a queue is attached to the same queue.
BelowSame(q) == q

-------------------------------------------------------------------------------
(* attach and detach *)

\* The queue of an object that is requested in queue q.
Above(q) == IF q + 1 > Top THEN Top ELSE q + 1

\* The queue an object is bumped to.
Below(q) == q - 1

\* Everything starts in queue 0.
EntryQueue == 0

\* detach from one queue, then attach to the head of another, or of the same.
Move(k, from, to) ==
  /\ lists' = [[lists EXCEPT ![from] = Detach(@, k)] EXCEPT ![to] = Attach(@, k)]
  /\ current_size' = [[current_size EXCEPT ![from] = @ - mapping[k].data]
                                    EXCEPT ![to] = @ + mapping[k].data]
  /\ mapping' = [mapping EXCEPT ![k].queue = to]

-------------------------------------------------------------------------------
(* put and get, up to their call of purge_regular *)

\* Faulty variant of Put: it leaves the purge to the next get.
PutUnpurged(k, d) ==
  /\ loop = "idle"
  /\ k \notin DOMAIN mapping
  /\ lists' = [lists EXCEPT ![EntryQueue] = Attach(@, k)]
  /\ mapping' = [x \in DOMAIN mapping \cup {k} |->
                   IF x = k THEN [data |-> d, queue |-> EntryQueue] ELSE mapping[x]]
  /\ current_size' = [current_size EXCEPT ![EntryQueue] = @ + d]
  /\ cache_item_count' = cache_item_count + 1
  /\ UNCHANGED <<loop, j, node>>

Put(k, d) ==
  /\ loop = "idle"
  /\ k \notin DOMAIN mapping
  /\ lists' = [lists EXCEPT ![EntryQueue] = Attach(@, k)]
  /\ mapping' = [x \in DOMAIN mapping \cup {k} |->
                   IF x = k THEN [data |-> d, queue |-> EntryQueue] ELSE mapping[x]]
  /\ current_size' = [current_size EXCEPT ![EntryQueue] = @ + d]
  /\ cache_item_count' = cache_item_count + 1
  /\ loop' = "put"
  /\ j' = Top
  /\ node' = {k}

Get(k) ==
  /\ loop = "idle"
  /\ k \in DOMAIN mapping
  /\ Move(k, mapping[k].queue, Above(mapping[k].queue))
  /\ loop' = "get"
  /\ j' = Top
  /\ node' = {k}
  /\ UNCHANGED cache_item_count

-------------------------------------------------------------------------------
(* purge_regular *)

OverShare(q) == current_size[q] > total_capacity

\* tail[q]->prev
Bumped(q) == Last(lists[q])

\* An object leaves its queue for the one below.
BumpDown ==
  /\ loop # "idle"
  /\ OverShare(j)
  /\ lists[j] # <<>>
  /\ mapping[Bumped(j)].queue # 0
  /\ Move(Bumped(j), mapping[Bumped(j)].queue, Below(j))
  /\ UNCHANGED <<cache_item_count, loop, j, node>>

\* An object leaves queue 0 and the cache.
BumpOut ==
  /\ loop # "idle"
  /\ OverShare(j)
  /\ lists[j] # <<>>
  /\ LET victim == Bumped(j) IN
       /\ mapping[victim].queue = 0
       /\ lists' = [lists EXCEPT ![0] = Detach(@, victim)]
       /\ current_size' = [current_size EXCEPT ![0] = @ - mapping[victim].data]
       /\ mapping' = Restrict(mapping, DOMAIN mapping \ {victim})
  /\ cache_item_count' = cache_item_count - 1
  /\ UNCHANGED <<loop, j, node>>

NextQueue ==
  /\ loop # "idle"
  /\ ~OverShare(j)
  /\ j > 0
  /\ j' = j - 1
  /\ UNCHANGED <<lists, mapping, current_size, cache_item_count, loop, node>>

\* purge_regular returns and so does its caller.
Return ==
  /\ loop # "idle"
  /\ ~OverShare(j)
  /\ j = 0
  /\ loop' = "idle"
  /\ node' = {}
  /\ UNCHANGED <<lists, mapping, current_size, cache_item_count, j>>

Work == BumpDown \/ BumpOut \/ NextQueue \/ Return

\* hourly_purging does nothing.
Next ==
  \/ \E k \in Keys, d \in Sizes : Put(k, d)
  \/ \E k \in Keys : Get(k)
  \/ Work

\* The loops wait for nothing: a started operation keeps taking steps.
Spec == Init /\ [][Next]_vars /\ WF_vars(Work)

-------------------------------------------------------------------------------
(* Properties *)

DataOf == [k \in DOMAIN mapping |-> mapping[k].data]

\* Each resident object is linked once, in the queue it believes to be in,
\* by which detach finds the byte count to correct; and the byte counts are
\* those of the queues.
Consistent ==
  /\ \A q \in Queues :
       /\ Unrepeated(lists[q])
       /\ Range(lists[q]) = {k \in DOMAIN mapping : mapping[k].queue = q}
       /\ SumsTo(lists[q], DataOf, current_size[q])
  /\ cache_item_count = Cardinality(DOMAIN mapping)

\* Between operations no queue is over its share: what a purge bumps into a
\* queue it has still to visit.
FitsAtRest ==
  loop = "idle" => \A q \in Queues : current_size[q] <= total_capacity

\* All of this, with the types of the state.
WellFormed == TypeOK /\ Consistent /\ FitsAtRest

\* get uses its node after the purge that its promotion may set off, so the
\* node must not be among the purged, however the queues overflow.
NodeOutlivesGet == loop = "get" => node \subseteq DOMAIN mapping

\* The purpose of the segments: a put, however large, displaces nothing that
\* was requested again since it was put or bumped down to queue 0.
PutsStayBelow ==
  [][loop = "put" \/ loop' = "put" =>
       \A q \in Queues \ {0} : lists'[q] = lists[q]]_vars

\* An object that fits in a queue is not lost by the put that brings it.
LostOnArrivalOnlyIfTooLarge ==
  [][\A k \in node \cap DOMAIN mapping :
       k \notin DOMAIN mapping' => mapping[k].data > total_capacity]_vars

\* Every put and every get returns.
OperationsReturn == (loop # "idle") ~> (loop = "idle")
==============================================================================
