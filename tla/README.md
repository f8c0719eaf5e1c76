# TLA+ models of the Edgio Caching Emulator

The emulator replays an access log, sorted by time, through a chain of cache
layers, each with an admission and an eviction policy, and reports the hit
ratios they would have had. It is one thread. What is hard about it is seldom
concurrency (only the file of a Bloom filter may be shared) but data structures that must agree over long runs (a linked list, a
hash map, a byte count and an item count per policy), purge loops whose
termination rests on that agreement, nodes that are used after a purge that may
have freed them, counters that must add up over a recursion, and behaviour that
depends on the time of the log's lines. A wrong step here does not crash: it
makes a policy look better or worse than it is.

## Inventory

| part | source | state | operations | correct when |
|---|---|---|---|---|
| log replay | `lib/emulator.cc` | infinite-cache map and counters, traffic, two timers | a log line; periodic report and purge | every accepted line is counted once by everybody; each report counts one interval |
| cache layers | `lib/cache.cc` | counters per layer, `next`, `respect_lower_admission` | `process` (recursive), `check`, `add`, `hourly_purging` | misses of a layer are the requests of the next; refusals travel up where asked |
| LRU | `lib/lru_eviction.cc` | list, `_mapping`, `current_size`, item count | `get`, `put`, `hourly_purging`, `purge_regular` | the views agree, order of use, capacity holds, loops end |
| size-based LRU | `lib/size_lru_eviction.cc` | as LRU, and the length of the purge window | as LRU, `purge_size_based_multimap` | takes the largest of the oldest, never walks off the list, ends |
| S4LRU | `lib/s4lru_eviction.cc` | one list and byte count per queue | `get` and `put` with a cascading purge | shares hold, no use of a freed node, puts leave promoted objects alone |
| FIFO, FIFO with age | `lib/fifo_eviction.cc`, `lib/fifo_age_eviction.cc` | as LRU; `ttl` | as LRU; `check` may delete | order of puts, views agree after expiry |
| cost-based LRU | `lib/cost_lru_eviction.cc` | as LRU, a map of scores, running size mean | as LRU, a pass by score | capacity holds after one pass, order of scores, no stale score |
| second-hit admission | `lib/second_hit_admission.cc`, `include/bloomfilter.h` | counting Bloom filters, with the time the first was begun | `check`, with rotation | n requests within `max_age` are enough, fewer are not (but for collisions) |
| Bloom filter file | `include/bloomfilter.h` | bitmap, file and locks of each process | constructor, `add`, `flush`, `write_to_disk` | what was saved is there after a restart; saves by several processes accumulate and end |
| other admissions | `lib/null_admission.cc`, `lib/size_admission.cc` | none | `check` | stateless |
| configuration | `lib/sim_structs.cc` (`EmConfItems`) | members set by options or by a file | `command_line_parser`, `config_file_parser` | the meaning does not depend on the order of the lines, beyond last-one-wins |
| customer statistics | `lib/sim_structs.cc`, and copies in the size- and cost-based LRU | counters and hit ratio per customer, protected or not | `compute_periodic_stats` | protection ends with recovery and needs its switch |
| driver | `src/lru_2hc.cpp` | the layer it builds | `main` | the three parts together cache what was asked for often enough |
| scripts | `run_em.sh`, `analysis/` | - | sort the log, read the reports | not modelled |

Interaction: the emulator calls `head->process`; a layer calls `check`/`get` of
its eviction policy, on a miss `process` of the next layer, then perhaps `check`
of its admission and `put` of its eviction policy. After each line the emulator
may print and reset all counters (15 minutes of log time) and call
`hourly_purging` of every layer (1 hour). All calls are synchronous. The one thing
that is shared between processes is the file of a Bloom filter, which
`write_to_disk` locks with `fcntl`.

What is hard, per part, is the list `hazards` of `PROJECT.json`, each at its line
and with the properties that would catch it.

## Modules

| module | models | state and actions |
|---|---|---|
| `EntryList` | `attach`, `detach` of every policy | no state; a list is the sequence of linked keys, head first |
| `EvictionStore` | what `CacheEviction` promises (abstract) | resident sizes, bytes, the operation under way; `Put`, `HourlyPurging`, `Evict`, `Return` |
| `LRUEviction` | LRU | `Get`, `Put`, `HourlyPurging` up to their loops; `LoopBody`, `LoopExit` one iteration a step |
| `SizeLRUEviction` | size-based LRU | `Get` and `Put` of `LRUEviction`, with `PurgeStart`, `PurgeDelete`, `PurgeEnd` for the sliding window in the place of its loop |
| `S4LRUEviction` | S4LRU | `Put`, `Get`, then `BumpDown`, `BumpOut`, `NextQueue`, `Return` of `purge_regular` |
| `FIFOEviction`, `FIFOAgeEviction` | both FIFO policies | `LRUEviction` with another `get` (`FIFOGet`) and the time of each put; then `CheckExpired` |
| `CostLRUEviction` | cost-based LRU | `Get` and `Put` of `LRUEviction` with another loop: `PutFits`, or `ComputeScores`, `DecideDelete`, `DecideEnd` of a pass; eight formulas |
| `BloomFilter` | the counting filter of the `-D CBF` build | pure operators on filter values: `Add` in one sum, `AddOne` and `AddLoop` as the loop of the code |
| `SecondHitAdmission`, `SecondHitAdmissionRot` | the two policies | one action, `Check` |
| `Admissions` | the policies without a memory | pure operators: the answers a check may give |
| `AdmissionsCompared` | both on one log | the two `Check`s together |
| `CacheChain` | `Cache` and the recursion of `process` | `Call`, `Hit`, `Miss`, `Admit`, `Refuse`: one activation's part a step |
| `Emulator` | the work on a line that counts, over `CacheChain` | `ReadLine`, `ProcessStep`, `PeriodicReport`, `PeriodicPurge` |
| `LogReplay` | the outer loop, over `Emulator` | `Read`, `PassOver`, `Abort` for the three fates of a line, `End` |
| `Lru2hc` | the shipped program: `LRUEviction`, `SecondHitAdmissionRot` and `Emulator` by `INSTANCE` on shared variables | `ReadLine`, `Hit`, `Miss`, `Add`, `PurgeOne`, `Added`, `Periodic` |
| `BloomFilterFile` | the bitmap, its file and its locks, in several processes | `Start` and `LoadWord` of the constructor, `add`, `flush`, `Stop`; `Save` to `Written` for `write_to_disk` |
| `Configuration` | both parsers of `EmConfItems` | a line or an option a step; `FileEnd` with its override |
| `CustomerStats` | `compute_periodic_stats`, under a parsed configuration | `compute_periodic_stats`; `Serve`, the traffic nothing in the repository supplies |

They compose in three stacks: `LogReplay` on `Emulator` on `CacheChain` on
`Admissions`; `Lru2hc`, which puts the two real policies in the place of the free
answers of that chain and is shown to implement `Emulator`; and `CustomerStats` on
`Configuration`. `LRUEviction` and `SizeLRUEviction` are shown to implement
`EvictionStore` (the latter its safety part); the FIFO policies, the cost-based and the
size-based LRU extend `LRUEviction`, whose code their files repeat.

Lemmas, theorems and proofs are in modules of their own: `EntryListProofs` about
the lists, and `LRUEvictionProofs`, `S4LRUEvictionProofs`, `SecondHitProofs`,
`BloomFilterFileProofs`, `EmulatorProofs`, `Lru2hcProofs` and `CustomerStatsProofs`, each
about the modules it is named for; `LRUEvictionProofs` is about every policy that
extends `LRUEviction`, and `CustomerStatsProofs` about `Configuration` as well. The `MC*` modules give the constants of the runs. Each module contains, under
*faulty variants*, slips the code could have, each of which some property
rejects; no specification uses them.

### Abstractions

* A slot of `_mapping` that holds a null pointer (`operator[]` leaves one at each
  lookup of an absent key) is an absent key: the code tests for null everywhere.
* `check` precedes `get` and `put`, so both `assert(0)` branches are guards.
* The test `> total_capacity * .80` is `5 * size > 4 * capacity`.
* Counters that are only printed, timestamps no decision reads (S4LRU), and
  operations nothing calls (`initial_put*`, `manual_delete`, dumps,
  `set_total_capacity_by_value`) are left out.
* Timestamps do not decrease: `run_em.sh` sorts the lines of each log file and
  takes the files in the order of their times, and the sample logs do not overlap.
  The unsigned subtractions of the code rest on that as well.
* The multimap of the size-based purge is the set of positions from `cursor` to
  the tail: each iteration deletes one entry and adds the node before.
* The size score of the cost-based policy, a floating-point running mean and
  deviation, is any function monotone in the size, in steps of 1/`grades`; the
  power of an age is any increasing table (`age_power`). Rounding is not modelled.
* A log line is a record: its fields split and converted, how many there are and
  how many words the status field has at its slash, because `at()` throws on a
  missing one, and which of the two numbers begin with a digit. The order of these
  tests decides: a size that is no number returns 0 before a missing byte count can
  throw. A line that returns 0 leaves no trace.
* Histories the code does not keep serve the properties: in `LogReplay` the times of the
  requests, reported or not, and what each layer has written; in the policies the
  times of uses and puts. No guard reads one.
* Names of the configuration the parser treats alike (numbers, switches, lists)
  are represented by a few of each group, no name being in two
  (`ConfigurationAssumption`); words are converted to numbers before. Percentages of `CustomerStats` are truncated as in the code; the
  floating-point product is exact for the values of the run.
* The file of a filter is the set of bits set in it, read and written a word at a
  time; a process may stop between any two words. Hash functions are constants.
* A line that passes the filters of `emulator.cc` has an object among `Keys` and a
  size that is a number (`LinesAssumption`; `Lru2hcAssumption` repeats it for the
  shipped program, with what the filters assume of their buckets and a capacity
  that is a number).
* In `CacheChain` the admission policy of a layer is one of `Admissions`; a
  probabilistic one answers freely, which takes in every answer of the second-hit
  policies too. The eviction policy may lose any objects at `put`, at an expired
  `check` or at a purge. The counters must add up whatever the policies are.
* Where the code would follow a null pointer or spin without effect, the model
  has no step: the runs check deadlock, or a liveness property, to exclude it.

## Runs

`WellFormed` (`FIFOWellFormed`, `CostWellFormed`, `SizeWellFormed`), `WellCounted` and
`WellConfigured` join the type invariant of a
module and the agreement of its state (`Consistent`, `FitsAtRest`, `FillIsExact`,
`ReportsAndLinesAgree`, `ParsedAsAWhole`, where the module has them): one
invariant that every other property of the module rests on.

Deadlock is checked in every passing run but three. The logs of `emulator` and
`lru_2hc` end, and the process of `customer_stats` may have ended at a
configuration it refuses.

| run | constants | shows |
|---|---|---|
| `lru` | 4 keys, capacity 4, sizes that share, fill and exceed it, times 0..2 | the views agree and the capacity holds (`WellFormed`), the order is that of use (`OldestAtTail`, `EvictsLeastRecent`), nothing that fits is lost on arrival, and the policy implements `EvictionStore`, fairness included: every operation returns |
| `size_lru` | the same with a window of 2 | the window stays on the list (`StopsAtTheHead`), the victim is the largest of the oldest, every put returns, the safety part of `EvictionStore` |
| `size_lru_hourly` | the same | **violated**: an hourly purge that deletes nothing, for ever |
| `s4lru` | 4 keys, 3 queues of 3 bytes, sizes 1..4 | cascades end within the shares (`WellFormed`, `OperationsReturn`), the node of `get` survives its purge (`NodeOutlivesGet`), puts leave the upper queues alone (`PutsStayBelow`) |
| `fifo_age` | 4 keys, capacity 4, `ttl` 1 or past the log | order of puts whatever is requested or expires |
| `cost_lru` | 3 keys, all 8 formulas, all monotone size scores | one pass is enough (`CostWellFormed`), and never evicts an object while one that is older and at least as large stays, wherever the formula and its weights let the age count (`EvictsNoneDominated`) |
| `admissions` | `NVAL` 1, 4 keys over 5 buckets, own, shared and picked more than once by a key, `max_age` 2, times 0..7, counters that wrap at 2 | second-hit caching within `max_age` and not before; rotation only forgets; the fill rate is exact. A full counter is at its greatest value, as 255 would be: one increment more would wrap it, and `NHitAdmits` and the fill would fail |
| `third_hit` | the same with `NVAL` 2, times 0..6 | **violated**: a rotation splits the count of a key |
| `emulator` | logs of 4 lines out of 22, of which 2 are accepted (an object and a part of it) and the others passed over or cut short, for each reason there is and for two at once, where the order of the tests decides; 2 layers, either setting of `respect_lower_admission`, admission that answers freely in both or by size above one that takes all; times 2..4, a report after 1 s and a purge after 2 | counters of layers, infinite cache, reports and lines add up however the run ends (`LayersAddUp`, `NoBetterThanInfinite`, `WellCounted`); a report counts the requests of one interval and the one that triggers it, the first request is reported by itself, and what stays unreported is one interval (`ReportsAreWindows`); what a layer that respects refusals has ever written, the one below has written, and no layer holds what it did not write (`RefusalsTravelUp`) |
| `lru_2hc` | the shipped program with `NVAL` 1, 3 objects on a disk of 2 bytes, one that fills it, whose lines have no size of their own, and one that on some lines does not fit; 3 buckets, filters that live 1 s, times 2..6 | what was missed often enough is on the disk when its request returns, as a promise (`NHitIsCached`) and as what no step may break (`NHitIsKept`), the disk is a well-formed LRU in the order of the log (`DiskIsLRU`), what is on the disk was asked for often enough (`NoOneHitWonders`, in terms of the hashes of a key that pick its bucket, see *Proofs*), and the program implements `Emulator` |
| `bloom_file` | both builds, 2 processes, 3 saves, a file of two whole words and an incomplete one, 2 keys that share a bit | saves that do not overlap accumulate, through crashes at any point; a restarted filter has what was saved; no save waits for ever |
| `customer_stats` | files and commands of up to 3 lines over every group of names, then a customer with hit ratios of 0, 48.9, 49, 50 and 50.9% | a configuration means what it says as a whole; nobody who has recovered stays protected |

Why the bounds are enough. A purge needs a list with a head, a tail and a middle,
one object that fills the cache and one that never fits; four keys allow a purge
that deletes several objects and leaves some. Times 0..2 give equal, ordered and
expired timestamps. Three queues are the least with one between lowest and top.
The times of `admissions` are the least in which the filters rotate twice (begun at
1, at 4 and at 7), so a filter is dropped while keys it knew are still asked for. The times of
`emulator` allow every combination of a report and a purge being due, a purge
between two reports (at 3, after a report at 2) among them, and begin later than
an interval after 0, as those of real logs do. Two layers have a head, a tail and one
refusal between them; what is said of two neighbours in a longer chain is said of
neighbours only. Four lines let a report close one window and leave lines in the
next when a fault ends the run. In `lru_2hc` the filters rotate twice, and the
second object of the disk is evicted and admitted again. Three saves are one by
each process and one more over their result; the incomplete word of the file is
where the merge by words loses bits. Three lines of a configuration are two that
contradict each other and one that overrides both. The ratios of `customer_stats`
differ by more and by less than one percent on either side of a whole one, which
is what truncation gets wrong.

The bounds are `MaxTime` (timestamps), `MaxUrls` (lines between two reports),
`MaxLines` (lines of a log that are counted, lines of a configuration) and
`MaxSaves`; `total_hourly_purge_intervals` is kept modulo `lru_interval`.

Fairness: weak fairness of the steps that carry a started operation on (`Work`;
in `Emulator`, the recursion and the periodic functions). The program is a single
thread whose loops wait for nothing, so an operation that has begun keeps taking
steps; that the log goes on is not assumed. In `Lru2hc` the same holds of `Process`
and the periodic functions. In `BloomFilterFile` it is weak fairness of each
process inside `write_to_disk`: a process that waits for a lock is not enabled,
so the system need not be fair in granting locks; with a bounded number of saves a
lock is free for good in the end. A process may stop at any step, and nothing is
assumed about restarts.

### Disagreements met while modelling

Two violation runs, with the lines they quote, are under `findings` in
`PROJECT.json`: the hourly purge of the size-based LRU does not end between 80% and
100% of the capacity, and n-hit caching with `NVAL` above 1 forgets half a count at a
rotation.

Others were met while translating the code. The modules say what the code does;
no run is spent on them:

* Formula 8 of the cost-based LRU is to be "same as eviction_formula 1, but every
  lru_interval hours we do a regular LRU" (`cost_lru_eviction.cc:655`). It reads an hour
  count that is set to 0 and never advanced, so every pass is a regular LRU. The
  model keeps the counter and both branches; no property rests on the defect.
* The counter of purges is never incremented; the column of the reports is 0. So
  is `lines_unprocessed` (`emulator.cc:513`).
* The oldest age FIFO with age reports is of neither the oldest put nor the oldest
  request (`fifo_age_eviction.cc:570`).
* A line whose size is `-` is dropped at `emulator.cc:367`; the comment ten lines
  below means to compensate for it.
* The last window of a log, from the last report to the end, is in no report
  (`ReportsAreWindows` says which requests those are, `WellCounted` how many).
* A `-D CBF` build loads and saves the bitmap but answers from counters that start
  empty, so a saved filter has no effect (`RestartKnows` excludes that build where
  it speaks of `check`).
* `write_to_disk` drops its read lock before it takes the write lock: of two saves
  that overlap one may be lost (`SavesAccumulate` speaks of those that do not).
  Bits behind the last whole word of 8 bytes are lost at a merge.
* Protection of a customer compares truncated percentages
  (`sim_structs.cc:139`): a fall of little more than 1% may begin it, and one of
  little less than 2% may not.

## Proofs

What is proved holds for every value of the constants under the named assumptions
beside them (`LRUAssumption` and so on: sets of sizes are natural numbers, a layer
or queue exists, hashes pick buckets). Every theorem rests on an inductive
invariant, which TLC confirmed on the instance of its run before it was proved.

**Lists** (`EntryListProofs`). What `Attach`, `Detach`, `AttachHead`, `DetachHead` and
`Front` do to the elements, to the absence of repetitions, to the sum of sizes and
to the order of time stamps of a list. `SumsTo` is an existential over running sums
and not a recursive function, so that these facts need no induction.

**LRU** (`LRUEvictionProofs`):

* `LRUIsWellFormed`, `AlwaysConsistent`, `OrderedByLastUse`, from `IInv`,
  which is `TypeOK`, `Consistent`, `RequestedByNow` (no timestamp is later than the
  last line) and `OldestAtTail`. `TypeOK` alone is not inductive: that the byte
  count stays a natural number needs to know that it is the sum of the sizes in
  the list; `OldestAtTail` needs `RequestedByNow` for the node attached at the head.
* `LoopsNeverSpin`: a loop over its target has a node to purge, since an empty list
  sums to 0.
* `CapacityHolds`: between operations the capacity holds and `cache_filled_once`
  stays false, so the purging of junk is dead code.
* `EvictionIsLRU`, `FittingObjectsArrive`: the action properties of the run.
* `SafelyImplementsStore`: the initial states and all steps map to those of
  `EvictionStore`.

What the policies below share with LRU is proved once: `EraseKeeps` (unlinking a
node, clearing its slot and counting it out keep the agreement of the views),
`EraseKeepsOrder`, and the lemmas about `Descending` lists, of which `OldestAtTail` is
one instance and the order of puts another.

**FIFO** (`LRUEvictionProofs`), for any time to live: `FIFOIsWellFormed`,
`FIFOLoopsNeverSpin`, `FirstInFirstOut`. The inductive invariant `FIFOInv` orders the
list by the time of the puts (a history, since `get` overwrites the timestamp),
with `PutsByNow` in the place of `RequestedByNow`. An object that `check` deletes for its
age may lie anywhere in the list; between operations that frees bytes only
(`OverfullOnlyInPut`), so no loop is left with a target it cannot reach.

**Cost-based LRU** (`LRUEvictionProofs`), for all formulas, weights, exponents, size
scores and powers of ages:

* `CostIsWellFormed`. `put` makes one pass and tests no further, so that the capacity
  holds afterwards needs an argument: the vector and the list lose the same
  objects, and a pass that has met every object has emptied the cache (`PassFits`).
  `PassScores` says so, and that no score outlives its object.
* `NoneDominatedGoes`. `ScoresRise` shows, formula by formula, that of two objects the
  older one, if at least as large, has the strictly higher score as long as the age
  counts (`AgeCounts`): not in the third, where a factor may be 0, nor where the weight
  of the age or `ef4_e` is 0, nor in the second for a customer that counts double. The
  weight of the size may be 0, its default. It needs that the head has the latest
  timestamp and the tail the earliest (`Ages`, from `OldestAtTail`: ages are
  differences of unsigned numbers). Formula 8 needs nothing of the hour: both of its
  scores rise with the age.

**Size-based LRU** (`LRUEvictionProofs`): `SizeIsWellFormed`, `WalkEndsAtTheHead`,
`LargestOfOldestGoes` and `SizeImplementsTheStore`, from `SizeInv`. That the walk never leaves the list at
the head sentinel is no local fact. It rests on `PutFillsAtHead`: what overfills
the cache is the object just put, which is at the head, so without it the cache
fits and the purge has reached its target before the window gets there; and on
`OverfullOnlyInPut`: the hourly purge never finds the cache overfull, so it deletes
nothing. `WindowIsNarrow` bounds the positions behind the cursor, which is what
makes "fewer than X objects were used before the victim" true although X itself may
have been halved on the way; the order of the list is needed as in LRU.

**S4LRU** (`S4LRUEvictionProofs`), for any number of queues: `QueuesAreWellFormed`,
`NodeSurvivesPurge`, `UpperQueuesAreProtected`, `FittingObjectsArrive`,
`PurgeNeverGivesUp`. During a purge the shares do not hold, so the invariant says
which may be exceeded: none above the queue the loop is at (`FitsAbove`), on a get
none above the object's (`GetOverfillsOne`), on a put only the lowest
(`PutOverfillsLowest`). `NodeAtHead` keeps the object at the head of its queue, where
a purge gets to it last, when it is alone and fits.

**Second-hit admission** (`SecondHitProofs`), for every placement of the keys on the
buckets:

* `NoneBeforeNHits` for every `NVAL`, from `SoleBuckets`: no filter has counted more
  in the bucket of a key than the key was checked.
* `SecondHitAdmits` for `NVAL` up to 1, its default, which is where it is true (the
  run `third_hit` refutes it for 2). `Retained` says where a checked key is: in the
  younger filter; or in the older one, checked before the younger began; or
  forgotten, by a filter that began more than `max_age` after the check.
* `RotationForgets` from `Dominated`: no counter of a rotating filter is ahead of the
  single filter's. The width of a counter is a constant (`CounterRange`, 256 in the code):
  an `NVAL` it cannot reach is never reached, and then no key is ever admitted.
* `FillRates` for `NVAL` above 0: the fill counts the full buckets (with 0 every
  bucket is full from the start and none is ever counted).
* `AddLoops`, for every filter, key and `NVAL`: `Add`, which raises each counter by the
  number of hashes that pick it in one step, leaves what the loop of `add` leaves, one
  hash at a time, fill included. `AddFirst` says what the first n iterations leave;
  that an iteration takes it to n + 1 is the proof, wrap-around of the counters
  included, and a least counterexample stands in for induction.

**Bloom filter file** (`BloomFilterFileProofs`), for any number of processes and any
size of the bitmap: `FileTypes`, `SavesAddUp`, `RestartsKnow`. The invariant says what
each place of `write_to_disk` and of the constructor knows: the result of the merge
has the file and the bitmap (`MergesAll`), it is in the file up to the position
written (`WrittenSoFar`), and a loading process has what it is owed up to the
position read (`LoadedSoFar`), the rest being in the file already. Words of the file
are numbered without gaps (a lemma on integer division), so that a position at
their number is the end of the file.

**Emulator** (`EmulatorProofs`), for any number of layers, any policies, logs and
intervals: `AddingUp`, `InfiniteIsBest`, `ReportedInWindows`, `CountedLines`,
`RefusalsRespected`. Inside a request the counters do not add up, so `AddsUp` counts
the request as pending at the layer it has reached; `MissedEverywhere` says that
what the infinite cache missed the last layer misses or is about to miss, because
no layer holds what was never requested. `Windows` keeps the times of each report and
of the open window apart by `timer1`, which is the time of the last report; between
the read of a line and its report the open window may be one request longer, the
one that makes the report due. `Writings` says that what a layer holds it has written, and that the object a
layer below has just said yes to is among what that one has written, whether it
admitted the object now or had it: so a hit below is no way around a refusal.
`NoBetterThanInfinite` then compares the sum of the hits of all layers
with it: `TotalIs` shows by a least counterexample that the recursive function
`Total` is the difference of requests and last misses.

**Shipped program** (`Lru2hcProofs`):

* `IsEmulator`: every step of `Lru2hc` is a step of `Emulator` with one layer or a
  stutter. While `put` purges, the layer has not answered yet: `PutIsInAdd` says that
  the disk then holds at most what the layer held before and the new object.
* `ReportsAddUp`: by that refinement, the theorems of `EmulatorProofs` hold of the
  shipped program (`EmulatorProofs` is instantiated, its assumptions proved from
  `Lru2hcAssumption`).
* `OneHitWondersStayOut`: `FiltersHeard` relates each counter of a bucket that one key
  has to itself to the requests for that key, with the request under way still to
  be heard of. The lemmas about filters come from `SecondHitProofs` by `INSTANCE`.
  `NoOneHitWonders` counts with the number of hashes of the key that pick the
  bucket: two that do raise it by two a request, so that for `NVAL` above 1 such a
  key may be admitted sooner than its `NVAL`+1 requests. This is what the code does
  with colliding hashes, and an earlier form of the invariant, true in the run
  with `NVAL` 1, denied it.

* `DiskIsKept`: what was proved of LRU holds of the disk, `LRUEvictionProofs` being
  instantiated with objects of every size. Between two operations the time of the
  log moves alone (`DiskWaits`), which is why this is not a refinement of `LRUEviction`,
  where time moves with an operation. `DiskInv` adds what the policy cannot know: the
  object of the request is at the head with the size asked for while it is put.
* `MissedTwiceIsKept`, for `NVAL` up to 1: the safety half of `NHitIsCached`. `HeardIsFound`
  makes the filters admit the object, `PutHasRoom` keeps it through its own purge,
  from `LostAlone`: what a purge takes at the head is alone in the list and too large.

**Configuration and customers** (`CustomerStatsProofs`), for any names, values and
lines:

* `ConfiguredAsSaid`. `ParseInv` follows the parsers line by line: the members are what
  the lines read so far say (`AsFarAsRead`), each number being that of the last line
  that names it (`NumbersAreLast`) and each list having the values of all of them in
  their order (`ListsAreWhole`); the override behind the last line of a file then sees
  the switches of all of them. It needs that no name is in two groups.
* `NoneRecovered`. A customer is protected only under a configuration that asks for it
  (`ProtectionIsConfigured`); its ratio is that of its last period (`RatioOfLast`), and no
  higher than right after the fall that protected it, which was one of more than 1%
  (`StillFallen`). Percentages are truncated by integer division: a fall of the
  quotients by 2 is a fall of the ratios by more than 1%.

Only model-checked:

* Liveness (`OperationsReturn`, `PutsReturn`, `SavesReturn`, `NHitIsCached`, the
  fairness part of `ImplementsStore`): it needs `ENABLED`, which is
  out of the prover's reach.
* `NHitAdmits` for `NVAL` above 1, which is false; so `NHitIsKept` is proved up to 1.

## Not modelled

* Pure input and output: splitting a log line, the hash functions, formats of
  reports and dumps, `run_em.sh` and the analysis scripts.
* Operations nothing in the repository calls: `initial_put*`, `manual_delete`,
  `set_total_capacity_by_value`, `c_add` and `c_check` of the `CNVAL` build.
  Three more that nothing calls are modelled all the same, for what their interface
  offers: `write_to_disk` and `flush` of the filter (`bloomfilter.h:168` and `:254`), with
  which what `BloomFilterFile` shows of saves is a claim about the interface and not
  about the shipped program, and `compute_periodic_stats`.
* Of the customer statistics, what is only printed: hit ratios in objects, totals
  since the start, monitored customers, dumps. That is why the component is
  *partly* modelled.
* System calls that fail: `write_to_disk` gives up with a message then.

## Plan

Done: every component with state, the composition of the shipped program, the
file of the filters with crashes and several processes, the configuration and
the customers, with their runs; and the proofs above, which state every invariant
and every action property of the passing runs. What a later version could add:

1. The customer statistics inside `Emulator`, should the program come to feed them:
   today nothing calls `compute_periodic_stats` with the traffic of a customer.
2. An abstract specification of the policies with several queues or one pass, as
   `EvictionStore` is for those that purge until the target is met.
