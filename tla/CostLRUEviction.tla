---------------------------- MODULE CostLRUEviction ----------------------------
(***************************************************************************)
(* lib/cost_lru_eviction.cc: eviction by a score that weighs the age of an *)
(* object and its size.  A pass scores every object, then evicts from the  *)
(* highest score down until the cache fits.  get, and put up to the call   *)
(* of the pass, are those of the LRU policy, on whose state this is built: *)
(* `loop` says which operation makes the pass.                             *)
(*                                                                         *)
(* The size score of an object is its place between the running mean minus *)
(* and plus four deviations, cut to 0..1: here any function that grows     *)
(* with the size, counted in steps of 1/grades.  Scores are scaled to      *)
(* integers, by a factor common to the objects of a pass; when all have    *)
(* one timestamp the factor is 0, all scores are equal and so they are in  *)
(* the code, where all are 0/0.  Equal scores are ordered by key in the    *)
(* code and in any order here.                                             *)
(***************************************************************************)
EXTENDS LRUEviction

CONSTANTS NoBFCust,       \* the keys of customers listed in no_bf_cust
          Formulas,       \* the eviction formulas a cache may be built with
          grades,         \* number of steps of the size score
          age_power,      \* age -> its power pow(age, ef4_y)
          w_age, w_size, ef4_e, lru_interval   \* their other parameters

\* The exponent of the ages and the interval are positive; a weight may be 0,
\* as that of the size is unless it is configured.
ASSUME CostLRUAssumption ==
  /\ Formulas \subseteq 1..8
  /\ age_power \in [0..MaxTime -> Nat]
  /\ \A a, b \in 0..MaxTime : a < b => age_power[a] < age_power[b]
  /\ {grades, lru_interval} \subseteq Nat \ {0}
  /\ {w_age, w_size, ef4_e} \subseteq Nat

VARIABLES
  deciding,                \* in decide_items_based_on_score, behind compute_scores
  scored,                  \* the keys of m_item_unordered_map
  size_score,              \* while deciding: size -> its size score
  score_vector,            \* while deciding: key -> eviction score
  eviction_formula,        \* fixed when the cache is built
  hour_count,
  total_hourly_purge_intervals   \* modulo lru_interval

contents == <<list, mapping, current_size, cache_item_count>>
pass == <<deciding, scored, size_score, score_vector>>
hours == <<eviction_formula, hour_count, total_hourly_purge_intervals>>
CostVars == <<vars, pass, hours>>

\* The size scores that the running mean and deviation can give.
SizeScores == {f \in [Sizes -> 0..grades] : \A a, b \in Sizes : a <= b => f[a] <= f[b]}

Nothing == [k \in {} |-> 0]

CostTypeOK ==
  /\ TypeOK
  /\ deciding \in BOOLEAN
  /\ scored \subseteq Keys
  /\ size_score \in SizeScores \cup {Nothing}
  /\ score_vector \in [DOMAIN score_vector -> Nat]
  /\ eviction_formula \in Formulas
  /\ hour_count \in Nat
  /\ total_hourly_purge_intervals \in 0..lru_interval - 1

CostInit ==
  /\ Init
  /\ deciding = FALSE
  /\ scored = {}
  /\ size_score = Nothing
  /\ score_vector = Nothing
  /\ eviction_formula \in Formulas
  /\ hour_count = 0
  /\ total_hourly_purge_intervals = 0

-------------------------------------------------------------------------------
(* compute_scores *)

\* Seconds between the last use of the object and the last use of any.
Age(k) == mapping[Head(list)].timestamp - mapping[k].timestamp

\* The same for the oldest object, by which ages are normalised.
Span == Age(Last(list))

SizeScore(f, k) == f[mapping[k].data]

\* (age_score * w_age) + (size_score * w_size), times grades * Span.
Weighted(f, k) == grades * Age(k) * w_age + SizeScore(f, k) * w_size * Span

\* The score of each formula, times grades * Span (1, 2, 8) or times
\* grades.
Score(f, k) ==
  LET sized == SizeScore(f, k) * w_size IN
    CASE eviction_formula = 1 -> Weighted(f, k)
      [] eviction_formula = 2 -> (IF k \in NoBFCust THEN 2 ELSE 1) * Weighted(f, k)
      [] eviction_formula = 3 -> Age(k) * sized
      [] eviction_formula = 4 -> age_power[Age(k)] * (sized + grades * ef4_e)
      [] eviction_formula = 5 -> age_power[Age(k)] * (sized + grades * Age(k))
      [] eviction_formula = 6 -> grades * age_power[Age(k)] + sized * Age(k)
      [] eviction_formula = 7 -> age_power[Age(k)] * (sized * Span + grades * ef4_e)
      [] eviction_formula = 8 -> IF hour_count % lru_interval = 0 THEN grades * Age(k)
                                                                  ELSE Weighted(f, k)

-------------------------------------------------------------------------------
(* Faulty variants of the operations below *)

\* The vector is sorted in ascending order and walked from its begin.
LowestScore ==
  {k \in DOMAIN score_vector :
     \A other \in DOMAIN score_vector : score_vector[k] <= score_vector[other]}

\* The score of an evicted object is not erased.
UnscoreNothing(key) ==
  /\ UNCHANGED scored
  /\ score_vector' = Restrict(score_vector, DOMAIN score_vector \ {key})

-------------------------------------------------------------------------------
(* get, put and hourly_purging, up to the call of decide_items_based_on_score *)

CostGet(k, ts) ==
  /\ Get(k, ts)
  /\ UNCHANGED <<pass, hours>>

CostPut(k, d, ts) ==
  /\ Put(k, d, ts)
  /\ UNCHANGED <<pass, hours>>

\* A put that leaves the cache within its size makes no pass.
PutFits ==
  /\ loop = "put"
  /\ ~deciding
  /\ current_size <= Capacity
  /\ loop' = "idle"
  /\ UNCHANGED <<contents, cache_filled_once, now, pass, hours>>

\* hour_count is not touched.
CostHourlyPurging(ts) ==
  /\ loop = "idle"
  /\ Advance(ts)
  /\ total_hourly_purge_intervals' = (total_hourly_purge_intervals + 1) % lru_interval
  /\ loop' = "hourly"
  /\ UNCHANGED <<contents, cache_filled_once, pass, eviction_formula, hour_count>>

-------------------------------------------------------------------------------
(* decide_items_based_on_score *)

ComputeScores ==
  /\ \/ loop = "hourly"
     \/ loop = "put" /\ current_size > Capacity
  /\ ~deciding
  /\ deciding' = TRUE
  /\ size_score' \in SizeScores
  /\ score_vector' = [k \in DOMAIN mapping |-> Score(size_score', k)]
  /\ scored' = scored \cup DOMAIN mapping
  /\ UNCHANGED <<vars, hours>>

\* The next of the vector in reverse order.
HighestScore ==
  {k \in DOMAIN score_vector :
     \A other \in DOMAIN score_vector : score_vector[k] >= score_vector[other]}

\* The score of an erased object leaves the map and it is not met again in
\* the vector.
Unscore(key) ==
  /\ scored' = scored \ {key}
  /\ score_vector' = Restrict(score_vector, DOMAIN score_vector \ {key})

DecideDelete ==
  /\ deciding
  /\ current_size > Capacity
  /\ \E key \in HighestScore : Erase(key) /\ Unscore(key)
  /\ UNCHANGED <<cache_filled_once, loop, now, deciding, size_score, hours>>

\* The rest of the vector is passed over, or there is none.
DecideEnd ==
  /\ deciding
  /\ current_size <= Capacity \/ score_vector = Nothing
  /\ loop' = "idle"
  /\ deciding' = FALSE
  /\ size_score' = Nothing
  /\ score_vector' = Nothing
  /\ UNCHANGED <<contents, cache_filled_once, now, scored, hours>>

CostWork == PutFits \/ ComputeScores \/ DecideDelete \/ DecideEnd

CostNext ==
  \/ \E k \in Keys, ts \in 0..MaxTime : CostGet(k, ts)
  \/ \E k \in Keys, d \in Sizes, ts \in 0..MaxTime : CostPut(k, d, ts)
  \/ \E ts \in 0..MaxTime : CostHourlyPurging(ts)
  \/ CostWork

CostSpec == CostInit /\ [][CostNext]_CostVars

-------------------------------------------------------------------------------
(* Properties *)

\* The list, the hash map and the counts tell the same story, and only
\* resident objects keep a score: a score that outlived its object would
\* make the next pass follow a null node.
ScoresAreOfResidents ==
  /\ scored \subseteq DOMAIN mapping
  /\ deciding => DOMAIN score_vector = scored

\* All of this, with the capacity, which holds between operations though a
\* put makes one pass only, and the types of the state.
CostWellFormed == CostTypeOK /\ Consistent /\ ScoresAreOfResidents /\ FitsAtRest

\* The score of every formula grows with the age of an object unless a
\* weight of 0 takes the age out of it: in formula 3 an object of size score 0
\* never ages, in formulas 4 and 7 none does that has such a score and an
\* ef4_e of 0.  (In formula 2 a customer of no_bf_cust counts double.)
AgeCounts(older, younger) ==
  /\ eviction_formula # 3
  /\ eviction_formula \in {1, 2, 8} => w_age > 0
  /\ eviction_formula \in {4, 7} => ef4_e > 0
  /\ eviction_formula = 2 /\ younger \in NoBFCust => older \in NoBFCust

\* An object that is older, and at least as large, is worth less.
Dominates(other, k) ==
  /\ mapping[other].timestamp < mapping[k].timestamp
  /\ mapping[other].data >= mapping[k].data
  /\ AgeCounts(other, k)

\* Objects are scored once and evicted from a list that shrinks meanwhile.
\* Whatever the formula, the hour and the running mean, none is evicted while
\* one that is older and at least as large stays.
EvictsNoneDominated ==
  [][\A k \in DOMAIN mapping \ DOMAIN mapping', other \in DOMAIN mapping' :
       ~Dominates(other, k)]_CostVars
==============================================================================
