---------------------------- MODULE SecondHitProofs ----------------------------
(***************************************************************************)
(* Theorems about the Bloom filters and the second-hit policies, for every *)
(* set of keys, every number of buckets and every choice of the hashes.    *)
(***************************************************************************)
EXTENDS AdmissionsCompared, SequenceTheorems, FiniteSetTheorems, WellFoundedInduction,
        TLAPS

-------------------------------------------------------------------------------
(* The counters *)

Counts == 0..CounterRange - 1

LEMMA CountsAreNumbers == \A c \in Counts : c \in Nat /\ c < CounterRange
BY BloomAssumption DEF Counts

\* A key picks each of its buckets at least once, and no other.
LEMMA PicksCount ==
  ASSUME NEW key \in Keys, NEW b
  PROVE  /\ Picks(key, b) \in Nat
         /\ Picks(key, b) # 0 <=> \E i \in DOMAIN Hashes[key] : Hashes[key][i] = b
<1> DEFINE I == {i \in DOMAIN Hashes[key] : Hashes[key][i] = b}
<1>1. Hashes[key] \in Seq(Buckets)
  BY BloomAssumption
<1>2. Len(Hashes[key]) \in Nat /\ DOMAIN Hashes[key] = 1..Len(Hashes[key])
  BY <1>1, LenProperties
<1>3. IsFiniteSet(1..Len(Hashes[key])) /\ I \in SUBSET (1..Len(Hashes[key]))
  BY <1>2, FS_Interval
<1> HIDE DEF I
<1>4. IsFiniteSet(I)
  BY <1>3, FS_Subset
<1>5. Cardinality(I) \in Nat /\ (Cardinality(I) = 0 <=> I = {})
  BY <1>4, FS_CardinalityType, FS_EmptySet
<1> QED BY <1>5 DEF Picks, I

LEMMA BucketOfHash ==
  ASSUME NEW key \in Keys
  PROVE  /\ DOMAIN Hashes[key] # {}
         /\ \A i \in DOMAIN Hashes[key] : Hashes[key][i] \in Buckets
<1>1. Hashes[key] \in Seq(Buckets) /\ Hashes[key] # <<>>
  BY BloomAssumption
<1>2. Len(Hashes[key]) \in Nat \ {0} /\ DOMAIN Hashes[key] = 1..Len(Hashes[key])
  BY <1>1, LenProperties, EmptySeq
<1> QED BY <1>1, <1>2, ElementOfSeq

\* An incremented counter: it stays a uint8_t, and below or at NVAL.
LEMMA RaisedBounds ==
  ASSUME NEW c \in Counts, NEW m \in Nat
  PROVE  /\ Raised(c, m) \in Counts
         /\ c <= NVAL => Raised(c, m) <= NVAL
         /\ m = 0 => Raised(c, m) = c
         /\ Raised(c, m) <= c + m
         /\ NVAL < CounterRange => c <= Raised(c, m)
         /\ NVAL = 1 /\ m # 0 => Raised(c, m) >= 1
BY BloomAssumption DEF Raised, Counts

\* Of two counters the larger stays the larger.
LEMMA RaisedMonotone ==
  ASSUME NEW c \in Counts, NEW d \in Counts, NEW m \in Nat,
         c <= d, NVAL < CounterRange
  PROVE  Raised(c, m) <= Raised(d, m)
BY BloomAssumption DEF Raised, Counts

\* A counter that reached NVAL stays as it is.
LEMMA RaisedFull ==
  ASSUME NEW c \in Counts, NEW m \in Nat, NEW d \in Counts,
         c <= d, d >= NVAL, NVAL < CounterRange
  PROVE  Raised(c, m) <= d
BY BloomAssumption DEF Raised, Counts

-------------------------------------------------------------------------------
(* A filter that learns a key it does not have *)

Learned(bf, key) == IF Has(bf, key) THEN bf ELSE Add(bf, key)

LEMMA EmptyFilterType ==
  EmptyFilter \in Filters /\ \A b \in Buckets : EmptyFilter.cbf[b] = 0
BY BloomAssumption DEF EmptyFilter, Filters

LEMMA AddCounters ==
  ASSUME NEW bf \in Filters, NEW key
  PROVE  /\ \A b \in Buckets : /\ bf.cbf[b] \in Counts
                               /\ Add(bf, key).cbf[b] = Raised(bf.cbf[b], Picks(key, b))
         /\ Add(bf, key).full =
              bf.full + Cardinality({b \in Buckets : bf.cbf[b] < NVAL /\ Add(bf, key).cbf[b] = NVAL})
BY DEF Add, Filters, Counts

LEMMA CounterAfterAdd ==
  ASSUME NEW bf \in Filters, NEW key \in Keys, NEW b \in Buckets
  PROVE  /\ bf.cbf[b] \in Counts /\ Picks(key, b) \in Nat
         /\ Add(bf, key).cbf[b] = Raised(bf.cbf[b], Picks(key, b))
BY AddCounters, PicksCount

LEMMA AddType ==
  ASSUME NEW bf \in Filters, NEW key \in Keys
  PROVE  Add(bf, key) \in Filters
<1> DEFINE New == {b \in Buckets : bf.cbf[b] < NVAL /\ Add(bf, key).cbf[b] = NVAL}
           cbf == [b \in Buckets |-> Raised(bf.cbf[b], Picks(key, b))]
<1>1. cbf \in [Buckets -> Counts]
  <2>1. \A b \in Buckets : Raised(bf.cbf[b], Picks(key, b)) \in Counts
    BY AddCounters, PicksCount, RaisedBounds
  <2> QED BY <2>1
<1>2. Cardinality(New) \in Nat
  <2>1. New \in SUBSET Buckets /\ IsFiniteSet(Buckets)
    BY BloomAssumption
  <2> HIDE DEF New
  <2>2. IsFiniteSet(New)
    BY <2>1, FS_Subset
  <2> QED BY <2>2, FS_CardinalityType
<1>3. Add(bf, key).full \in Nat
  BY <1>2, AddCounters DEF Filters
<1>4. Add(bf, key) = [cbf |-> cbf, full |-> Add(bf, key).full]
  BY DEF Add
<1> QED BY <1>1, <1>3, <1>4 DEF Filters, Counts

LEMMA LearnedType ==
  ASSUME NEW bf \in Filters, NEW key \in Keys
  PROVE  Learned(bf, key) \in Filters
BY AddType DEF Learned

\* A counter does not pass NVAL.
LEMMA LearnedCapped ==
  ASSUME NEW bf \in Filters, NEW key \in Keys, NEW b \in Buckets, bf.cbf[b] <= NVAL
  PROVE  Learned(bf, key).cbf[b] <= NVAL
<1>1. /\ bf.cbf[b] \in Counts /\ bf.cbf[b] <= NVAL /\ Picks(key, b) \in Nat
      /\ Add(bf, key).cbf[b] = Raised(bf.cbf[b], Picks(key, b))
  BY AddCounters, PicksCount
<1>2. Add(bf, key).cbf[b] <= NVAL
  BY <1>1, RaisedBounds
<1> QED BY <1>1, <1>2 DEF Learned

\* A bucket the key does not pick stays, another counts at most its picks.
LEMMA LearnedOwn ==
  ASSUME NEW bf \in Filters, NEW key \in Keys, NEW b \in Buckets
  PROVE  /\ Picks(key, b) = 0 => Learned(bf, key).cbf[b] = bf.cbf[b]
         /\ Learned(bf, key).cbf[b] <= bf.cbf[b] + Picks(key, b)
<1>1. /\ bf.cbf[b] \in Counts /\ Picks(key, b) \in Nat
      /\ Add(bf, key).cbf[b] = Raised(bf.cbf[b], Picks(key, b))
  BY AddCounters, PicksCount
<1>2. bf.cbf[b] <= bf.cbf[b] + Picks(key, b)
  BY <1>1, CountsAreNumbers
<1>3. /\ Picks(key, b) = 0 => Add(bf, key).cbf[b] = bf.cbf[b]
      /\ Add(bf, key).cbf[b] <= bf.cbf[b] + Picks(key, b)
  BY <1>1, RaisedBounds
<1> QED BY <1>2, <1>3 DEF Learned

\* A filter forgets nothing.
LEMMA LearnedKeeps ==
  ASSUME NEW bf \in Filters, NEW key \in Keys, NEW k \in Keys,
         NVAL < CounterRange, Has(bf, k)
  PROVE  Has(Learned(bf, key), k)
<1>1. ASSUME NEW b \in Buckets, bf.cbf[b] >= NVAL
      PROVE  Learned(bf, key).cbf[b] >= NVAL
  <2> DEFINE c == bf.cbf[b]
             m == Picks(key, b)
  <2>1. c \in Counts /\ m \in Nat /\ Add(bf, key).cbf[b] = Raised(c, m)
    BY CounterAfterAdd
  <2>2. c >= NVAL
    BY <1>1
  <2> HIDE DEF c, m
  <2>3. c <= Raised(c, m) /\ Raised(c, m) \in Counts
    BY <2>1, RaisedBounds
  <2>4. Raised(c, m) >= NVAL
    BY <2>1, <2>2, <2>3, CountsAreNumbers, BloomAssumption
  <2> QED BY <2>1, <2>2, <2>4 DEF Learned, c
<1> QED BY <1>1, BucketOfHash DEF Has

\* With NVAL = 1 a filter has what it was given once.
LEMMA LearnedHas ==
  ASSUME NEW bf \in Filters, NEW key \in Keys, NVAL = 1
  PROVE  Has(Learned(bf, key), key)
<1> SUFFICES ASSUME ~Has(bf, key), NEW i \in DOMAIN Hashes[key]
             PROVE  Add(bf, key).cbf[Hashes[key][i]] >= NVAL
  BY DEF Has, Learned
<1> DEFINE b == Hashes[key][i]
<1>1. b \in Buckets /\ Picks(key, b) # 0 /\ Picks(key, b) \in Nat
  BY BucketOfHash, PicksCount
<1>2. Add(bf, key).cbf[b] = Raised(bf.cbf[b], Picks(key, b)) /\ bf.cbf[b] \in Counts
  BY <1>1, CounterAfterAdd
<1> HIDE DEF b
<1>3. Raised(bf.cbf[b], Picks(key, b)) >= 1
  BY <1>1, <1>2, RaisedBounds
<1> QED BY <1>2, <1>3 DEF b

\* The larger of two filters stays the larger.
LEMMA LearnedDominated ==
  ASSUME NEW bf \in Filters, NEW bg \in Filters, NEW key \in Keys,
         NVAL < CounterRange, \A b \in Buckets : bf.cbf[b] <= bg.cbf[b]
  PROVE  \A b \in Buckets : Learned(bf, key).cbf[b] <= Learned(bg, key).cbf[b]
<1> SUFFICES ASSUME NEW b \in Buckets
             PROVE  Learned(bf, key).cbf[b] <= Learned(bg, key).cbf[b]
  OBVIOUS
<1>1. /\ bf.cbf[b] \in Counts /\ bg.cbf[b] \in Counts /\ Picks(key, b) \in Nat
      /\ Add(bf, key).cbf[b] = Raised(bf.cbf[b], Picks(key, b))
      /\ Add(bg, key).cbf[b] = Raised(bg.cbf[b], Picks(key, b))
      /\ bf.cbf[b] <= bg.cbf[b]
  BY CounterAfterAdd
<1>2. Has(bf, key) => Has(bg, key)
  <2>1. ASSUME NEW x \in Buckets, bf.cbf[x] >= NVAL PROVE bg.cbf[x] >= NVAL
    <3>1. bf.cbf[x] \in Counts /\ bg.cbf[x] \in Counts /\ bf.cbf[x] <= bg.cbf[x]
      BY AddCounters
    <3> QED BY <2>1, <3>1, CountsAreNumbers, BloomAssumption
  <2> QED BY <2>1, BucketOfHash DEF Has
<1>3. CASE Has(bf, key)
  BY <1>1, <1>2, <1>3 DEF Learned
<1>4. CASE ~Has(bf, key) /\ ~Has(bg, key)
  BY <1>1, <1>4, RaisedMonotone DEF Learned
<1>5. CASE ~Has(bf, key) /\ Has(bg, key)
  <2>1. Learned(bf, key).cbf[b] = Raised(bf.cbf[b], Picks(key, b))
        /\ Learned(bg, key).cbf[b] = bg.cbf[b]
    BY <1>1, <1>5 DEF Learned
  <2>2. CASE Picks(key, b) = 0
    BY <1>1, <2>1, <2>2, RaisedBounds
  <2>3. CASE Picks(key, b) # 0
    <3>1. bg.cbf[b] >= NVAL
      BY <1>5, <2>3, PicksCount DEF Has
    <3> QED BY <1>1, <2>1, <3>1, RaisedFull
  <2> QED BY <2>2, <2>3
<1> QED BY <1>3, <1>4, <1>5

\* A counter of 256 values never reaches a larger NVAL.
LEMMA NeverFull ==
  ASSUME NEW bf \in Filters, NEW key \in Keys, Has(bf, key)
  PROVE  NVAL < CounterRange
<1>1. PICK i \in DOMAIN Hashes[key] : TRUE
  BY BucketOfHash
<1>2. Hashes[key][i] \in Buckets /\ bf.cbf[Hashes[key][i]] >= NVAL
  BY BucketOfHash DEF Has
<1>3. bf.cbf[Hashes[key][i]] \in Counts
  BY <1>2, AddCounters
<1> QED BY <1>2, <1>3, CountsAreNumbers, BloomAssumption

\* The fill count is exact after an add if it was before.
LEMMA LearnedExact ==
  ASSUME NEW bf \in Filters, NEW key \in Keys, CountsFull(bf)
  PROVE  CountsFull(Learned(bf, key))
<1> DEFINE Old == {b \in Buckets : bf.cbf[b] = NVAL}
           New == {b \in Buckets : bf.cbf[b] < NVAL /\ Add(bf, key).cbf[b] = NVAL}
           All == {b \in Buckets : Add(bf, key).cbf[b] = NVAL}
<1>1. \A b \in Buckets : /\ bf.cbf[b] \in Counts /\ Picks(key, b) \in Nat
                         /\ Add(bf, key).cbf[b] = Raised(bf.cbf[b], Picks(key, b))
  BY CounterAfterAdd
<1>2. Old \cap New = {}
  <2>1. \A b \in Buckets : ~(bf.cbf[b] = NVAL /\ bf.cbf[b] < NVAL)
    BY BloomAssumption
  <2> QED BY <2>1
<1>3. Old \cup New = All
  <2>1. ASSUME NEW b \in Buckets, bf.cbf[b] = NVAL PROVE Add(bf, key).cbf[b] = NVAL
    BY <1>1, <2>1, BloomAssumption DEF Raised
  <2>2. ASSUME NEW b \in Buckets, Add(bf, key).cbf[b] = NVAL, ~(bf.cbf[b] < NVAL)
        PROVE  bf.cbf[b] = NVAL
    BY <1>1, <2>2, BloomAssumption DEF Raised, Counts
  <2> QED BY <2>1, <2>2
<1>4. IsFiniteSet(Old) /\ IsFiniteSet(New)
  <2>1. Old \in SUBSET Buckets /\ New \in SUBSET Buckets /\ IsFiniteSet(Buckets)
    BY BloomAssumption
  <2> HIDE DEF Old, New
  <2> QED BY <2>1, FS_Subset
<1>5. bf.full = Cardinality(Old)
      /\ Add(bf, key).full = bf.full + Cardinality(New)
  BY AddCounters DEF CountsFull, num_of_set_bits
<1>6. Add(bf, key).full = Cardinality(All)
  <2> HIDE DEF Old, New, All
  <2>1. Cardinality(All) = Cardinality(Old) + Cardinality(New) - Cardinality(Old \cap New)
    BY <1>3, <1>4, FS_Union
  <2>2. Cardinality(Old \cap New) = 0
    BY <1>2, FS_EmptySet
  <2>3. Cardinality(Old) \in Nat /\ Cardinality(New) \in Nat
    BY <1>4, FS_CardinalityType
  <2> QED BY <1>5, <2>1, <2>2, <2>3
<1> QED BY <1>6 DEF Learned, CountsFull, num_of_set_bits

\* The empty filter counts exactly unless every bucket is full from the start.
LEMMA EmptyExact == NVAL # 0 => CountsFull(EmptyFilter)
<1> SUFFICES ASSUME NVAL # 0 PROVE CountsFull(EmptyFilter)
  OBVIOUS
<1>1. {b \in Buckets : EmptyFilter.cbf[b] = NVAL} = {}
  BY EmptyFilterType
<1> QED BY <1>1, FS_EmptySet DEF CountsFull, num_of_set_bits, EmptyFilter

-------------------------------------------------------------------------------
(* One check, step by step *)

Turned(es, ts) == Rotated(Started(es, ts), ts)

Fresh(ts) == [BF |-> EmptyFilter, init_time |-> ts]

\* What the turn of the filters leaves when the head was not too old.
Kept(es, ts, turned) ==
  /\ Len(turned) = Len(es)
  /\ \A i \in 1..Len(es) : turned[i].BF = es[i].BF
  /\ turned[1].init_time = IF es[1].init_time = 0 THEN ts ELSE es[1].init_time

\* What it leaves when the head was.
Renewed(es, ts, turned) ==
  /\ ts - es[1].init_time > MaxAge
  /\ Len(turned) = 2
  /\ turned[1] = Fresh(ts)
  /\ turned[2] = es[1]

LEMMA StartedType ==
  ASSUME NEW es \in Seq(Entries), Len(es) \in 1..2, NEW ts \in 0..MaxTime
  PROVE  /\ Started(es, ts) \in Seq(Entries)
         /\ Kept(es, ts, Started(es, ts))
         /\ es[1].init_time # 0 => Started(es, ts) = es
<1>1. es[1] \in Entries /\ 1 \in DOMAIN es /\ DOMAIN es = 1..Len(es)
  BY LenProperties, ElementOfSeq
<1>2. CASE es[1].init_time = 0
  <2> DEFINE first == [es[1] EXCEPT !.init_time = ts]
             st == [es EXCEPT ![1] = first]
  <2>1. Started(es, ts) = st
    BY <1>1, <1>2 DEF Started
  <2>2. first \in Entries /\ first.BF = es[1].BF /\ first.init_time = ts
    BY <1>1 DEF Entries
  <2> HIDE DEF first
  <2>3. /\ st \in Seq(Entries) /\ Len(st) = Len(es)
        /\ \A i \in 1..Len(es) : st[i] = IF i = 1 THEN first ELSE es[i]
    BY <1>1, <2>2, ExceptSeq
  <2> QED BY <1>1, <1>2, <2>1, <2>2, <2>3 DEF Kept
<1>3. CASE es[1].init_time # 0
  BY <1>1, <1>3 DEF Started, Kept
<1> QED BY <1>2, <1>3

LEMMA Turning ==
  ASSUME NEW es \in Seq(Entries), Len(es) \in 1..2, NEW ts \in 0..MaxTime
  PROVE  /\ Turned(es, ts) \in Seq(Entries)
         /\ Len(Turned(es, ts)) \in 1..2
         /\ Kept(es, ts, Turned(es, ts)) \/ Renewed(es, ts, Turned(es, ts))
<1> DEFINE st == Started(es, ts)
<1>1. st \in Seq(Entries) /\ Kept(es, ts, st) /\ (es[1].init_time # 0 => st = es)
  BY StartedType
<1>2. st[1] \in Entries /\ es[1] \in Entries
  BY <1>1, ElementOfSeq DEF Kept
<1>3. CASE ts - st[1].init_time > MaxAge
  <2>1. Turned(es, ts) = <<Fresh(ts), st[1]>>
    BY <1>3 DEF Turned, Rotated, Fresh
  <2>2. es[1].init_time # 0
    BY <1>1, <1>3, RotAssumption DEF Kept
  <2>3. Fresh(ts) \in Entries
    BY EmptyFilterType DEF Fresh, Entries
  <2>4. Turned(es, ts) \in Seq(Entries) /\ Len(Turned(es, ts)) = 2
        /\ Turned(es, ts)[1] = Fresh(ts) /\ Turned(es, ts)[2] = st[1]
    BY <1>2, <2>1, <2>3
  <2> QED BY <1>1, <1>3, <2>2, <2>4 DEF Renewed
<1>4. CASE ~(ts - st[1].init_time > MaxAge)
  <2>1. Turned(es, ts) = st
    BY <1>4 DEF Turned, Rotated
  <2> QED BY <1>1, <2>1 DEF Kept
<1> QED BY <1>3, <1>4

LEMMA Consulting ==
  ASSUME NEW es \in Seq(Entries), Len(es) \in 1..2, NEW key \in Keys
  PROVE  /\ Consulted(es, key) \in Seq(Entries)
         /\ Len(Consulted(es, key)) = Len(es)
         /\ Consulted(es, key)[1].BF = Learned(es[1].BF, key)
         /\ Consulted(es, key)[1].init_time = es[1].init_time
         /\ Len(es) = 2 => Consulted(es, key)[2] = es[2]
<1>1. es[1] \in Entries /\ 1 \in DOMAIN es /\ DOMAIN es = 1..Len(es)
  BY LenProperties, ElementOfSeq
<1>2. CASE Has(es[1].BF, key)
  BY <1>2 DEF Consulted, Learned
<1>3. CASE ~Has(es[1].BF, key)
  <2> DEFINE first == [es[1] EXCEPT !.BF = Add(es[1].BF, key)]
             st == [es EXCEPT ![1] = first]
  <2>1. Consulted(es, key) = st
    BY <1>1, <1>3 DEF Consulted
  <2>2. es[1].BF \in Filters /\ Add(es[1].BF, key) \in Filters
    BY <1>1, AddType DEF Entries
  <2>3. /\ first \in Entries /\ first.init_time = es[1].init_time
        /\ first.BF = Learned(es[1].BF, key)
    BY <1>1, <1>3, <2>2 DEF Entries, Learned
  <2> HIDE DEF first
  <2>4. /\ st \in Seq(Entries) /\ Len(st) = Len(es)
        /\ \A i \in 1..Len(es) : st[i] = IF i = 1 THEN first ELSE es[i]
    BY <1>1, <2>3, ExceptSeq
  <2> QED BY <2>1, <2>3, <2>4
<1> QED BY <1>2, <1>3

\* The history keeps the last NVAL times.
LEMMA Remembering ==
  ASSUME NEW times \in Seq(0..MaxTime), Len(times) <= NVAL, NEW ts \in 0..MaxTime
  PROVE  /\ Remembered(times, ts) \in Seq(0..MaxTime)
         /\ Len(Remembered(times, ts)) <= NVAL
         /\ Len(Remembered(times, ts)) = IF Len(times) < NVAL THEN Len(times) + 1 ELSE NVAL
         /\ NVAL = 1 => Remembered(times, ts)[1] = ts
<1> DEFINE longer == Append(times, ts)
<1>1. /\ longer \in Seq(0..MaxTime) /\ Len(longer) = Len(times) + 1
      /\ Len(times) \in Nat /\ longer[Len(times) + 1] = ts
  BY AppendProperties, LenProperties
<1> HIDE DEF longer
<1>2. longer # <<>>
  BY <1>1, EmptySeq
<1>3. Remembered(times, ts) = IF Len(times) + 1 > NVAL THEN Tail(longer) ELSE longer
  BY <1>1 DEF Remembered, longer
<1>4. /\ Tail(longer) \in Seq(0..MaxTime) /\ Len(Tail(longer)) = Len(times)
      /\ \A i \in 1..Len(times) : Tail(longer)[i] = longer[i + 1]
  BY <1>1, <1>2, HeadTailProperties
<1>5. CASE Len(times) < NVAL
  <2>1. Remembered(times, ts) = longer
    BY <1>1, <1>3, <1>5, BloomAssumption
  <2>2. NVAL = 1 => Len(times) = 0
    BY <1>1, <1>5
  <2> QED BY <1>1, <1>5, <2>1, <2>2, BloomAssumption
<1>6. CASE Len(times) = NVAL
  <2>1. Remembered(times, ts) = Tail(longer)
    BY <1>1, <1>3, <1>6
  <2>2. ASSUME NVAL = 1 PROVE Tail(longer)[1] = ts
    <3>1. Len(times) = 1 /\ 1 \in 1..Len(times)
      BY <1>6, <2>2
    <3>2. Tail(longer)[1] = longer[1 + 1]
      BY <1>4, <3>1
    <3> QED BY <1>1, <3>1, <3>2
  <2> QED BY <1>1, <1>4, <1>6, <2>1, <2>2
<1> QED BY <1>1, <1>5, <1>6, BloomAssumption

LEMMA RememberedTimes ==
  ASSUME NEW times \in Seq(0..MaxTime), Len(times) <= NVAL, NEW ts \in 0..MaxTime,
         NEW i \in 1..Len(Remembered(times, ts))
  PROVE  Remembered(times, ts)[i] \in {times[j] : j \in 1..Len(times)} \cup {ts}
<1> DEFINE longer == Append(times, ts)
<1>1. /\ longer \in Seq(0..MaxTime) /\ Len(longer) = Len(times) + 1
      /\ Len(times) \in Nat
      /\ \A j \in 1..Len(longer) : longer[j] = IF j = Len(longer) THEN ts ELSE times[j]
  BY AppendProperties, LenProperties
<1>2. \A j \in 1..Len(longer) : longer[j] \in {times[x] : x \in 1..Len(times)} \cup {ts}
  BY <1>1
<1> HIDE DEF longer
<1>3. longer # <<>>
  BY <1>1, EmptySeq
<1>4. /\ Len(Tail(longer)) = Len(times)
      /\ \A j \in 1..Len(times) : Tail(longer)[j] = longer[j + 1]
  BY <1>1, <1>3, HeadTailProperties
<1>5. CASE Len(longer) > NVAL
  <2>1. Remembered(times, ts) = Tail(longer)
    BY <1>5 DEF Remembered, longer
  <2>2. i \in 1..Len(times) /\ i + 1 \in 1..Len(longer)
    BY <1>1, <1>4, <2>1
  <2> QED BY <1>2, <1>4, <2>1, <2>2
<1>6. CASE ~(Len(longer) > NVAL)
  <2>1. Remembered(times, ts) = longer
    BY <1>6 DEF Remembered, longer
  <2> QED BY <1>2, <2>1
<1> QED BY <1>5, <1>6

-------------------------------------------------------------------------------
(* The rotating filters *)

\* A bucket only one key picks, and picks once.
Sole(k, b) ==
  /\ Picks(k, b) = 1
  /\ \A other \in Keys \ {k} : Picks(other, b) = 0

\* The bucket a key has to itself has counted the checks of the key at most.
SoleBuckets ==
  \A k \in Keys, b \in Buckets : Sole(k, b) =>
    \A i \in 1..Len(entries) : entries[i].BF.cbf[b] <= Len(seen[k])

\* Time passes neither the filters nor the history.
InThePast ==
  /\ entries[1].init_time <= now
  /\ \A k \in Keys : \A i \in 1..Len(seen[k]) : seen[k][i] <= now

\* Where a key is that was checked: in the head, or behind it since before
\* the head was born, or forgotten with a head born too late to matter.
Whereabouts(k) ==
  \/ Has(entries[1].BF, k)
  \/ /\ Len(entries) = 2
     /\ Has(entries[2].BF, k)
     /\ seen[k][1] <= entries[1].init_time
  \/ seen[k][1] + MaxAge < entries[1].init_time

Retained == NVAL = 1 => \A k \in Keys : Len(seen[k]) = 1 => Whereabouts(k)

\* The fill counts, unless every bucket is full from the start.
RotatingExact == NVAL # 0 => \A i \in 1..Len(entries) : CountsFull(entries[i].BF)

RotInv == TypeOK /\ SoleBuckets /\ InThePast /\ Retained /\ RotatingExact

LEMMA RotInit == Init => RotInv
<1> SUFFICES ASSUME Init PROVE RotInv
  OBVIOUS
<1> DEFINE e == [BF |-> EmptyFilter, init_time |-> 0]
<1>1. e \in Entries /\ e.BF = EmptyFilter /\ e.init_time = 0
  BY EmptyFilterType, RotAssumption DEF Entries
<1> HIDE DEF e
<1>2. /\ entries \in Seq(Entries) /\ Len(entries) = 1 /\ entries[1] = e
      /\ now = 0 /\ admitted = FALSE
  BY <1>1 DEF Init, e
<1>3. \A k \in Keys : seen[k] = <<>> /\ Len(seen[k]) = 0
  BY EmptySeq DEF Init
<1>4. seen \in [Keys -> Seq(0..MaxTime)]
  BY EmptySeq DEF Init
<1>5. TypeOK
  <2>1. 0 \in 0..MaxTime
    BY RotAssumption
  <2>2. \A k \in Keys : Len(seen[k]) <= NVAL
    BY <1>3, BloomAssumption
  <2>3. Len(entries) \in 1..2
    BY <1>2
  <2>4. now \in 0..MaxTime
    BY <1>2, <2>1
  <2>5. admitted \in BOOLEAN
    BY <1>2
  <2> QED BY <1>2, <1>4, <2>2, <2>3, <2>4, <2>5 DEF TypeOK
<1>6. SoleBuckets
  BY <1>1, <1>2, <1>3, EmptyFilterType DEF SoleBuckets
<1>7. InThePast
  BY <1>1, <1>2, <1>3 DEF InThePast
<1>8. Retained
  BY <1>3 DEF Retained
<1>9. RotatingExact
  BY <1>1, <1>2, EmptyExact DEF RotatingExact
<1> QED BY <1>5, <1>6, <1>7, <1>8, <1>9 DEF RotInv

\* What a filtered check leaves, filter by filter.
LEMMA FilteredCheck ==
  ASSUME TypeOK, NEW key \in Keys, NEW ts \in 0..MaxTime, Check(key, FALSE, ts)
  PROVE  /\ entries' \in Seq(Entries)
         /\ Len(entries') = Len(Turned(entries, ts))
         /\ entries'[1].BF = Learned(Turned(entries, ts)[1].BF, key)
         /\ entries'[1].init_time = Turned(entries, ts)[1].init_time
         /\ Len(entries') = 2 => entries'[2] = Turned(entries, ts)[2]
<1>1. entries' = Consulted(Turned(entries, ts), key)
  BY DEF Check, Turned
<1>2. Turned(entries, ts) \in Seq(Entries) /\ Len(Turned(entries, ts)) \in 1..2
  BY Turning DEF TypeOK
<1> QED BY <1>1, <1>2, Consulting

LEMMA CheckTypes ==
  ASSUME TypeOK, NEW key \in Keys, NEW bypass \in BOOLEAN, NEW ts \in 0..MaxTime,
         Check(key, bypass, ts)
  PROVE  TypeOK'
<1>1. now' \in 0..MaxTime /\ admitted' \in BOOLEAN
  BY DEF Check, Found
<1>2. entries' \in Seq(Entries) /\ Len(entries') \in 1..2
  <2>1. CASE bypass
    BY <2>1 DEF Check, TypeOK
  <2>2. CASE bypass = FALSE
    <3>1. Len(Turned(entries, ts)) \in 1..2
      BY Turning DEF TypeOK
    <3> QED BY <2>2, <3>1, FilteredCheck
  <2> QED BY <2>1, <2>2
<1>3. seen' \in [Keys -> Seq(0..MaxTime)] /\ \A k \in Keys : Len(seen'[k]) <= NVAL
  <2>1. CASE bypass
    BY <2>1 DEF Check, TypeOK
  <2>2. CASE ~bypass
    <3>1. seen' = [seen EXCEPT ![key] = Remembered(seen[key], ts)]
      BY <2>2 DEF Check
    <3>2. seen[key] \in Seq(0..MaxTime) /\ Len(seen[key]) <= NVAL
      BY DEF TypeOK
    <3>3. /\ Remembered(seen[key], ts) \in Seq(0..MaxTime)
          /\ Len(Remembered(seen[key], ts)) <= NVAL
      BY <3>2, Remembering
    <3> QED BY <3>1, <3>3 DEF TypeOK
  <2> QED BY <2>1, <2>2
<1> QED BY <1>1, <1>2, <1>3 DEF TypeOK

\* The filters found at a check are fresh or were there before it.
LEMMA TurnedFilters ==
  ASSUME TypeOK, NEW ts \in 0..MaxTime
  PROVE  LET turned == Turned(entries, ts) IN
         /\ DOMAIN turned = 1..Len(turned)
         /\ \A i \in 1..Len(turned) :
              /\ turned[i].BF \in Filters
              /\ \/ turned[i].BF = EmptyFilter
                 \/ \E j \in 1..Len(entries) : turned[i].BF = entries[j].BF
<1> DEFINE turned == Turned(entries, ts)
<1>1. /\ turned \in Seq(Entries) /\ Len(turned) \in 1..2
      /\ Kept(entries, ts, turned) \/ Renewed(entries, ts, turned)
  BY Turning DEF TypeOK
<1> HIDE DEF turned
<1>2. \A i \in 1..Len(turned) : turned[i] \in Entries
  BY <1>1, ElementOfSeq
<1>3. DOMAIN turned = 1..Len(turned)
  BY <1>1, LenProperties
<1>4. CASE Kept(entries, ts, turned)
  BY <1>2, <1>3, <1>4 DEF Kept, Entries, turned
<1>5. CASE Renewed(entries, ts, turned)
  <2>1. Len(turned) = 2 /\ turned[1].BF = EmptyFilter /\ turned[2].BF = entries[1].BF
    BY <1>5 DEF Renewed, Fresh
  <2>2. 1 \in 1..Len(entries)
    BY DEF TypeOK
  <2>3. \A i \in 1..Len(turned) : i = 1 \/ i = 2
    BY <2>1
  <2> QED BY <1>2, <1>3, <2>1, <2>2, <2>3 DEF Entries, turned
<1> QED BY <1>1, <1>4, <1>5

\* After a filtered check a filter is the head, which learned the key, or as
\* the turn left it.
LEMMA FiltersAfter ==
  ASSUME TypeOK, NEW key \in Keys, NEW ts \in 0..MaxTime, Check(key, FALSE, ts),
         NEW i \in 1..Len(entries')
  PROVE  LET turned == Turned(entries, ts) IN
         /\ i \in 1..Len(turned)
         /\ \/ i = 1 /\ entries'[i].BF = Learned(turned[i].BF, key)
            \/ entries'[i].BF = turned[i].BF
<1> DEFINE turned == Turned(entries, ts)
<1>1. Len(turned) \in 1..2
  BY Turning DEF TypeOK
<1>2. /\ Len(entries') = Len(turned)
      /\ entries'[1].BF = Learned(turned[1].BF, key)
      /\ Len(entries') = 2 => entries'[2] = turned[2]
  BY FilteredCheck
<1> HIDE DEF turned
<1>3. i = 1 \/ (i = 2 /\ Len(entries') = 2)
  BY <1>1, <1>2
<1>4. CASE i = 1
  BY <1>1, <1>2, <1>4 DEF turned
<1>5. CASE i = 2 /\ Len(entries') = 2
  BY <1>1, <1>2, <1>5 DEF turned
<1> QED BY <1>3, <1>4, <1>5

LEMMA CheckKeepsSole ==
  ASSUME TypeOK, SoleBuckets,
         NEW key \in Keys, NEW bypass \in BOOLEAN, NEW ts \in 0..MaxTime,
         Check(key, bypass, ts)
  PROVE  SoleBuckets'
<1>1. CASE bypass
  BY <1>1 DEF Check, SoleBuckets
<1>2. CASE ~bypass
  <2> SUFFICES ASSUME NEW k \in Keys, NEW b \in Buckets, Sole(k, b),
                      NEW i \in 1..Len(entries')
               PROVE  entries'[i].BF.cbf[b] <= Len(seen'[k])
    BY DEF SoleBuckets
  <2> DEFINE turned == Turned(entries, ts)
  <2>1. Check(key, FALSE, ts)
    BY <1>2
  <2>2. /\ i \in 1..Len(turned) /\ turned[i].BF \in Filters
        /\ \/ entries'[i].BF = Learned(turned[i].BF, key)
           \/ entries'[i].BF = turned[i].BF
    BY <2>1, FiltersAfter, TurnedFilters
  <2>3. turned[i].BF.cbf[b] <= Len(seen[k]) /\ turned[i].BF.cbf[b] \in Nat
    <3>1. Len(seen[k]) \in Nat
      BY LenProperties DEF TypeOK
    <3>2. turned[i].BF.cbf[b] \in Nat
      BY <2>2, AddCounters, CountsAreNumbers
    <3>3. CASE turned[i].BF = EmptyFilter
      BY <3>1, <3>2, <3>3, EmptyFilterType
    <3>4. CASE \E j \in 1..Len(entries) : turned[i].BF = entries[j].BF
      BY <3>2, <3>4 DEF SoleBuckets
    <3> QED BY <2>2, <3>3, <3>4, TurnedFilters
  <2>4. seen' = [seen EXCEPT ![key] = Remembered(seen[key], ts)]
    BY <1>2 DEF Check
  <2>5. CASE k # key
    <3>1. Len(seen'[k]) = Len(seen[k])
      BY <2>4, <2>5 DEF TypeOK
    <3>2. Picks(key, b) = 0
      BY <2>5 DEF Sole
    <3>3. entries'[i].BF.cbf[b] = turned[i].BF.cbf[b]
      BY <2>2, <3>2, LearnedOwn
    <3> QED BY <2>3, <3>1, <3>3
  <2>6. CASE k = key
    <3>1. seen[k] \in Seq(0..MaxTime) /\ Len(seen[k]) <= NVAL /\ Len(seen[k]) \in Nat
      BY LenProperties DEF TypeOK
    <3>2. Len(seen'[k]) = IF Len(seen[k]) < NVAL THEN Len(seen[k]) + 1 ELSE NVAL
      BY <2>4, <2>6, <3>1, Remembering DEF TypeOK
    <3>3. Learned(turned[i].BF, key).cbf[b] <= turned[i].BF.cbf[b] + 1
      BY <2>2, <2>6, LearnedOwn DEF Sole
    <3>4. Learned(turned[i].BF, key).cbf[b] <= NVAL
      <4>1. turned[i].BF.cbf[b] <= NVAL
        BY <2>3, <2>6, <3>1, BloomAssumption
      <4> HIDE DEF turned
      <4> QED BY <2>2, <4>1, LearnedCapped
    <3>5. Learned(turned[i].BF, key).cbf[b] \in Nat
      BY <2>2, LearnedType, AddCounters, CountsAreNumbers
    <3>6. Learned(turned[i].BF, key).cbf[b] <= Len(seen'[k])
      <4> DEFINE new == Learned(turned[i].BF, key).cbf[b]
                 old == turned[i].BF.cbf[b]
      <4>1. /\ new \in Nat /\ old \in Nat /\ NVAL \in Nat
            /\ new <= old + 1
            /\ new <= NVAL
            /\ old <= Len(seen[k])
        <5>1. NVAL \in Nat
          BY BloomAssumption
        <5> QED BY <2>3, <3>3, <3>4, <3>5, <5>1
      <4> HIDE DEF new, old
      <4>2. new <= Len(seen'[k])
        BY <3>1, <3>2, <4>1
      <4> QED BY <4>2 DEF new
    <3>7. turned[i].BF.cbf[b] <= Len(seen'[k])
      <4> DEFINE old == turned[i].BF.cbf[b]
      <4>1. old \in Nat /\ old <= Len(seen[k]) /\ NVAL \in Nat
        BY <2>3, BloomAssumption
      <4> HIDE DEF old
      <4>2. old <= Len(seen'[k])
        BY <3>1, <3>2, <4>1
      <4> QED BY <4>2 DEF old
    <3> QED BY <2>2, <3>6, <3>7
  <2> QED BY <2>5, <2>6
<1> QED BY <1>1, <1>2

LEMMA HeadType ==
  ASSUME TypeOK
  PROVE  entries[1] \in Entries /\ entries[1].init_time \in Nat
<1>1. entries \in Seq(Entries) /\ 1 \in 1..Len(entries)
  BY DEF TypeOK
<1>2. entries[1] \in Entries
  BY <1>1, ElementOfSeq
<1> QED BY <1>2, RotAssumption DEF Entries

LEMMA CheckKeepsPast ==
  ASSUME TypeOK, InThePast,
         NEW key \in Keys, NEW bypass \in BOOLEAN, NEW ts \in 0..MaxTime,
         Check(key, bypass, ts)
  PROVE  InThePast'
<1> DEFINE turned == Turned(entries, ts)
<1>1. ts >= now /\ now' = ts /\ now \in Nat /\ ts \in Nat
  BY DEF Check, TypeOK
<1>2. entries[1] \in Entries /\ entries[1].init_time \in Nat
  BY HeadType
<1>3. CASE bypass
  <2>1. entries' = entries /\ seen' = seen
    BY <1>3 DEF Check
  <2>2. ASSUME NEW k \in Keys, NEW i \in 1..Len(seen[k]) PROVE seen[k][i] <= ts
    <3>1. seen[k] \in Seq(0..MaxTime)
      BY DEF TypeOK
    <3>2. seen[k][i] \in 0..MaxTime /\ seen[k][i] <= now
      BY <3>1, ElementOfSeq DEF InThePast
    <3> QED BY <1>1, <3>2
  <2> QED BY <1>1, <1>2, <2>1, <2>2 DEF InThePast
<1>4. CASE ~bypass
  <2>1. Check(key, FALSE, ts)
    BY <1>4
  <2>2. entries'[1].init_time <= ts
    <3>1. entries'[1].init_time = turned[1].init_time
      BY <2>1, FilteredCheck
    <3>2. Kept(entries, ts, turned) \/ Renewed(entries, ts, turned)
      BY Turning DEF TypeOK
    <3> HIDE DEF turned
    <3>3. turned[1].init_time = ts \/ turned[1].init_time = entries[1].init_time
      BY <3>2 DEF Kept, Renewed, Fresh
    <3> QED BY <1>1, <1>2, <3>1, <3>3 DEF InThePast
  <2>3. ASSUME NEW k \in Keys, NEW i \in 1..Len(seen'[k]) PROVE seen'[k][i] <= ts
    <3>1. seen' = [seen EXCEPT ![key] = Remembered(seen[key], ts)]
      BY <1>4 DEF Check
    <3>2. seen[k] \in Seq(0..MaxTime) /\ Len(seen[k]) <= NVAL
      BY DEF TypeOK
    <3>3. CASE k # key
      <4>1. seen'[k] = seen[k]
        BY <3>1, <3>3 DEF TypeOK
      <4>2. seen[k][i] \in 0..MaxTime /\ seen[k][i] <= now
        BY <3>2, <4>1, ElementOfSeq DEF InThePast
      <4> QED BY <1>1, <4>1, <4>2
    <3>4. CASE k = key
      <4>1. seen'[k] = Remembered(seen[k], ts)
        BY <3>1, <3>4 DEF TypeOK
      <4>2. Remembered(seen[k], ts)[i] \in {seen[k][j] : j \in 1..Len(seen[k])} \cup {ts}
        BY <3>2, <4>1, RememberedTimes
      <4>3. \A j \in 1..Len(seen[k]) : seen[k][j] \in 0..MaxTime /\ seen[k][j] <= now
        BY <3>2, ElementOfSeq DEF InThePast
      <4> QED BY <1>1, <4>1, <4>2, <4>3
    <3> QED BY <3>3, <3>4
  <2> QED BY <1>1, <2>2, <2>3 DEF InThePast
<1> QED BY <1>3, <1>4

LEMMA CheckRetains ==
  ASSUME TypeOK, InThePast, Retained, NVAL = 1,
         NEW key \in Keys, NEW bypass \in BOOLEAN, NEW ts \in 0..MaxTime,
         Check(key, bypass, ts)
  PROVE  Retained'
<1>1. ts >= now /\ now' = ts /\ now \in Nat /\ ts \in Nat
  BY DEF Check, TypeOK
<1>2. CASE bypass
  BY <1>2 DEF Check, Retained, Whereabouts
<1>3. CASE ~bypass
  <2> SUFFICES ASSUME NEW k \in Keys, Len(seen'[k]) = 1
               PROVE  Whereabouts(k)'
    BY DEF Retained
  <2> DEFINE turned == Turned(entries, ts)
  <2>1. seen' = [seen EXCEPT ![key] = Remembered(seen[key], ts)]
    BY <1>3 DEF Check
  <2>2. Check(key, FALSE, ts)
    BY <1>3
  <2>3. /\ Len(entries') = Len(turned)
        /\ entries'[1].BF = Learned(turned[1].BF, key)
        /\ entries'[1].init_time = turned[1].init_time
        /\ Len(entries') = 2 => entries'[2] = turned[2]
    BY <2>2, FilteredCheck
  <2>4. /\ Len(turned) \in 1..2
        /\ Kept(entries, ts, turned) \/ Renewed(entries, ts, turned)
    BY Turning DEF TypeOK
  <2>5. turned[1].BF \in Filters
    BY <2>4, TurnedFilters
  <2> HIDE DEF turned
  <2>6. CASE k = key
    BY <2>3, <2>5, <2>6, LearnedHas DEF Whereabouts
  <2>7. CASE k # key
    <3>1. seen'[k] = seen[k] /\ Len(seen[k]) = 1
      BY <2>1, <2>7 DEF TypeOK
    <3>2. seen[k] \in Seq(0..MaxTime)
      BY DEF TypeOK
    <3>3. seen[k][1] \in Nat /\ seen[k][1] <= now
      <4>1. 1 \in 1..Len(seen[k])
        BY <3>1
      <4>2. seen[k][1] \in 0..MaxTime
        BY <3>2, <4>1, ElementOfSeq
      <4> QED BY <4>1, <4>2, RotAssumption DEF InThePast
    <3>4. entries[1].init_time \in Nat /\ entries[1].init_time <= now
      BY HeadType DEF InThePast
    <3>5. Whereabouts(k)
      BY <3>1 DEF Retained
    <3>6. Has(turned[1].BF, k) => Has(entries'[1].BF, k)
      BY <2>3, <2>5, LearnedKeeps, NeverFull
    <3>7. CASE Kept(entries, ts, turned)
      <4>1. /\ turned[1].BF = entries[1].BF
            /\ Len(turned) = Len(entries)
            /\ Len(entries) = 2 => turned[2].BF = entries[2].BF
            /\ turned[1].init_time = IF entries[1].init_time = 0 THEN ts ELSE entries[1].init_time
        BY <2>4, <3>7 DEF Kept
      <4>2. CASE Has(entries[1].BF, k)
        BY <3>6, <4>1, <4>2 DEF Whereabouts
      <4>3. CASE /\ Len(entries) = 2 /\ Has(entries[2].BF, k)
                 /\ seen[k][1] <= entries[1].init_time
        <5>1. seen[k][1] <= turned[1].init_time
          BY <1>1, <3>3, <3>4, <4>1, <4>3
        <5> QED BY <2>3, <3>1, <4>1, <4>3, <5>1 DEF Whereabouts
      <4>4. CASE seen[k][1] + MaxAge < entries[1].init_time
        <5>1. entries[1].init_time # 0
          BY <3>3, <4>4, RotAssumption
        <5> QED BY <2>3, <3>1, <4>1, <4>4, <5>1 DEF Whereabouts
      <4> QED BY <3>5, <4>2, <4>3, <4>4 DEF Whereabouts
    <3>8. CASE Renewed(entries, ts, turned)
      <4>1. /\ ts - entries[1].init_time > MaxAge
            /\ Len(turned) = 2
            /\ turned[1].init_time = ts
            /\ turned[2] = entries[1]
        BY <3>8 DEF Renewed, Fresh
      <4>2. CASE Has(entries[1].BF, k)
        <5>1. seen[k][1] <= ts
          BY <1>1, <3>3
        <5> QED BY <2>3, <3>1, <4>1, <4>2, <5>1 DEF Whereabouts
      <4>3. CASE seen[k][1] <= entries[1].init_time
        <5>1. seen[k][1] + MaxAge < ts
          BY <1>1, <3>3, <3>4, <4>1, <4>3, RotAssumption
        <5> QED BY <2>3, <3>1, <4>1, <5>1 DEF Whereabouts
      <4>4. CASE seen[k][1] + MaxAge < entries[1].init_time
        <5>1. seen[k][1] + MaxAge < ts
          BY <1>1, <3>3, <3>4, <4>4, RotAssumption
        <5> QED BY <2>3, <3>1, <4>1, <5>1 DEF Whereabouts
      <4> QED BY <3>5, <4>2, <4>3, <4>4 DEF Whereabouts
    <3> QED BY <2>4, <3>7, <3>8
  <2> QED BY <2>6, <2>7
<1> QED BY <1>2, <1>3

LEMMA CheckKeepsExact ==
  ASSUME TypeOK, RotatingExact,
         NEW key \in Keys, NEW bypass \in BOOLEAN, NEW ts \in 0..MaxTime,
         Check(key, bypass, ts)
  PROVE  RotatingExact'
<1>1. CASE bypass
  BY <1>1 DEF Check, RotatingExact
<1>2. CASE ~bypass
  <2> SUFFICES ASSUME NVAL # 0, NEW i \in 1..Len(entries')
               PROVE  CountsFull(entries'[i].BF)
    BY DEF RotatingExact
  <2> DEFINE turned == Turned(entries, ts)
  <2>1. Check(key, FALSE, ts)
    BY <1>2
  <2>2. /\ i \in 1..Len(turned) /\ turned[i].BF \in Filters
        /\ \/ entries'[i].BF = Learned(turned[i].BF, key)
           \/ entries'[i].BF = turned[i].BF
    BY <2>1, FiltersAfter, TurnedFilters
  <2>3. CountsFull(turned[i].BF)
    BY <2>2, TurnedFilters, EmptyExact DEF RotatingExact
  <2> QED BY <2>2, <2>3, LearnedExact
<1> QED BY <1>1, <1>2

LEMMA RotStep == RotInv /\ [Next]_vars => RotInv'
<1> SUFFICES ASSUME RotInv, [Next]_vars PROVE RotInv'
  OBVIOUS
<1> USE DEF RotInv
<1>1. ASSUME NEW key \in Keys, NEW bypass \in BOOLEAN, NEW ts \in 0..MaxTime,
             Check(key, bypass, ts)
      PROVE  RotInv'
  <2>1. TypeOK'
    BY <1>1, CheckTypes
  <2>2. SoleBuckets'
    BY <1>1, CheckKeepsSole
  <2>3. InThePast'
    BY <1>1, CheckKeepsPast
  <2>4. Retained'
    BY <1>1, CheckRetains DEF Retained
  <2>5. RotatingExact'
    BY <1>1, CheckKeepsExact
  <2> QED BY <2>1, <2>2, <2>3, <2>4, <2>5
<1>2. CASE UNCHANGED vars
  BY <1>2 DEF vars, TypeOK, SoleBuckets, InThePast, Retained, Whereabouts, RotatingExact
<1> QED BY <1>1, <1>2 DEF Next

\* The inductive invariant of the rotating policy: which filter may have what
\* of which key, and when that filter was born.
THEOREM Rotating == Spec => []RotInv
BY RotInit, RotStep, PTL DEF Spec

LEMMA WouldAdmitType ==
  ASSUME RotInv, NEW k \in Keys, NEW ts \in 0..MaxTime
  PROVE  WouldAdmit(k, ts) <=>
           \E i \in 1..Len(Turned(entries, ts)) : Has(Turned(entries, ts)[i].BF, k)
BY TurnedFilters DEF WouldAdmit, Found, Turned, RotInv

\* A key with a bucket to itself is not admitted before it was checked NVAL
\* times, for every NVAL and across any number of rotations.
THEOREM NoneBeforeNHits == Spec => []NotBeforeNHits
<1>1. RotInv => NotBeforeNHits
  <2> SUFFICES ASSUME RotInv, NEW k \in Keys, NEW ts \in now..MaxTime,
                      Len(seen[k]) < NVAL, NEW b \in Buckets, Sole(k, b)
               PROVE  ~WouldAdmit(k, ts)
    BY DEF NotBeforeNHits, Sole
  <2> USE DEF RotInv
  <2> DEFINE turned == Turned(entries, ts)
  <2>1. ts \in 0..MaxTime
    BY DEF TypeOK
  <2>2. \E h \in DOMAIN Hashes[k] : Hashes[k][h] = b
    BY PicksCount DEF Sole
  <2>3. ASSUME NEW i \in 1..Len(turned) PROVE ~Has(turned[i].BF, k)
    <3>1. /\ turned[i].BF \in Filters
          /\ \/ turned[i].BF = EmptyFilter
             \/ \E j \in 1..Len(entries) : turned[i].BF = entries[j].BF
      BY <2>1, <2>3, TurnedFilters
    <3>2. turned[i].BF.cbf[b] \in Nat
      BY <3>1, AddCounters, CountsAreNumbers
    <3>3. Len(seen[k]) \in Nat
      BY LenProperties DEF TypeOK
    <3>4. turned[i].BF.cbf[b] <= Len(seen[k])
      BY <3>1, <3>2, <3>3, EmptyFilterType DEF SoleBuckets
    <3>5. turned[i].BF.cbf[b] < NVAL
      BY <3>2, <3>3, <3>4, BloomAssumption
    <3> QED BY <2>2, <3>2, <3>5, BloomAssumption DEF Has
  <2> QED BY <2>1, <2>3, WouldAdmitType
<1> QED BY <1>1, Rotating, PTL

LEMMA HeardIsFound ==
  ASSUME NVAL <= 1, RotInv
  PROVE  NHitAdmits
<1> SUFFICES ASSUME NEW k \in Keys, NEW ts \in now..MaxTime,
                    Len(seen[k]) = NVAL,
                    \A i \in DOMAIN seen[k] : ts - seen[k][i] <= MaxAge
             PROVE  WouldAdmit(k, ts)
  BY DEF NHitAdmits
<1> USE DEF RotInv
<1> DEFINE turned == Turned(entries, ts)
<1>1. ts \in 0..MaxTime /\ now \in Nat /\ ts \in Nat /\ ts >= now
  BY RotAssumption DEF TypeOK
<1>2. /\ Len(turned) \in 1..2
      /\ Kept(entries, ts, turned) \/ Renewed(entries, ts, turned)
  BY <1>1, Turning DEF TypeOK
<1>3. SUFFICES \E i \in 1..Len(turned) : Has(turned[i].BF, k)
  BY <1>1, WouldAdmitType
<1>4. CASE NVAL = 0
  <2>1. turned[1].BF \in Filters
    BY <1>1, <1>2, TurnedFilters
  <2>2. \A h \in DOMAIN Hashes[k] : turned[1].BF.cbf[Hashes[k][h]] \in Nat
    BY <2>1, BucketOfHash, AddCounters, CountsAreNumbers
  <2> QED BY <1>2, <1>4, <2>2 DEF Has
<1>5. CASE NVAL = 1
  <2>1. seen[k] \in Seq(0..MaxTime) /\ 1 \in 1..Len(seen[k])
    BY <1>5 DEF TypeOK
  <2>2. /\ seen[k][1] \in 0..MaxTime
        /\ ts - seen[k][1] <= MaxAge
    BY <2>1, ElementOfSeq, LenProperties
  <2>3. entries[1].init_time \in Nat /\ entries[1].init_time <= now
    BY HeadType DEF InThePast
  <2>4. Whereabouts(k)
    BY <1>5 DEF Retained
  <2>5. ~(seen[k][1] + MaxAge < entries[1].init_time)
    BY <1>1, <2>2, <2>3, RotAssumption
  <2>6. CASE Kept(entries, ts, turned)
    BY <1>2, <2>4, <2>5, <2>6 DEF Whereabouts, Kept
  <2>7. CASE Renewed(entries, ts, turned)
    <3>1. ~(seen[k][1] <= entries[1].init_time)
      BY <1>1, <2>2, <2>3, <2>7, RotAssumption DEF Renewed
    <3>2. Has(entries[1].BF, k)
      BY <2>4, <2>5, <3>1 DEF Whereabouts
    <3> QED BY <1>2, <2>7, <3>2 DEF Renewed
  <2> QED BY <1>2, <2>6, <2>7
<1> QED BY <1>4, <1>5, BloomAssumption

\* With NVAL at most one, its default, a key checked within the last max_age
\* seconds is admitted whatever rotations happened since.
THEOREM SecondHitAdmits ==
  ASSUME NVAL <= 1
  PROVE  Spec => []NHitAdmits
BY HeardIsFound, Rotating, PTL

-------------------------------------------------------------------------------
(* The two policies side by side *)

\* No counter of a rotating filter is ahead of the single filter's.
Dominates(bg, bf) ==
  NVAL < CounterRange => \A b \in Buckets : bf.cbf[b] <= bg.cbf[b]

Dominated == \A i \in 1..Len(entries) : Dominates(filter, entries[i].BF)

SingleExact == NVAL # 0 => CountsFull(filter)

IInv == /\ RotInv
        /\ filter \in Filters
        /\ SingleExact
        /\ Dominated
        /\ admitted => admittedSingle

\* The filter of the one policy is the filter of the other.
LEMMA SameFilter ==
  /\ Single!EmptyFilter = EmptyFilter
  /\ \A bf, k : Single!Has(bf, k) <=> Has(bf, k)
  /\ \A bf, k : Single!Add(bf, k) = Add(bf, k)
<1>1. \A k, b : Single!Picks(k, b) = Picks(k, b)
  BY DEF Single!Picks, Picks, Single!Cardinality, Cardinality
<1>2. \A c, m : Single!Raised(c, m) = Raised(c, m)
  BY DEF Single!Raised, Raised
<1>3. \A bf, k : Single!Add(bf, k) = Add(bf, k)
  BY <1>1, <1>2, ZenonT(30) DEF Single!Add, Add, Single!Cardinality, Cardinality
<1> QED BY <1>3 DEF Single!EmptyFilter, EmptyFilter, Single!Has, Has

LEMMA DominatesHas ==
  ASSUME NEW bf \in Filters, NEW bg \in Filters, NEW k \in Keys,
         Dominates(bg, bf), Has(bf, k)
  PROVE  Has(bg, k)
<1>1. ASSUME NEW b \in Buckets, bf.cbf[b] >= NVAL PROVE bg.cbf[b] >= NVAL
  <2>1. bf.cbf[b] \in Counts /\ bg.cbf[b] \in Counts
    BY AddCounters
  <2>2. bf.cbf[b] <= bg.cbf[b]
    BY NeverFull DEF Dominates
  <2> QED BY <1>1, <2>1, <2>2, CountsAreNumbers, BloomAssumption
<1> QED BY <1>1, BucketOfHash DEF Has

\* The single filter only grows.
LEMMA DominatesLearned ==
  ASSUME NEW bf \in Filters, NEW bg \in Filters, NEW key \in Keys, Dominates(bg, bf)
  PROVE  Dominates(Learned(bg, key), bf)
<1> SUFFICES ASSUME NVAL < CounterRange, NEW b \in Buckets
             PROVE  bf.cbf[b] <= Learned(bg, key).cbf[b]
  BY DEF Dominates
<1> DEFINE c == bg.cbf[b]
           m == Picks(key, b)
<1>1. /\ bf.cbf[b] \in Counts /\ c \in Counts /\ m \in Nat
      /\ Add(bg, key).cbf[b] = Raised(c, m)
  BY CounterAfterAdd
<1>2. bf.cbf[b] <= c
  BY DEF Dominates
<1> HIDE DEF c, m
<1>3. Raised(c, m) \in Counts /\ c <= Raised(c, m)
  BY <1>1, RaisedBounds
<1>4. bf.cbf[b] <= Raised(c, m)
  BY <1>1, <1>2, <1>3, CountsAreNumbers
<1> QED BY <1>1, <1>2, <1>4 DEF Learned, c

LEMMA TurnedDominated ==
  ASSUME RotInv, filter \in Filters, Dominated, NEW ts \in 0..MaxTime,
         NEW i \in 1..Len(Turned(entries, ts))
  PROVE  Dominates(filter, Turned(entries, ts)[i].BF)
<1>1. ASSUME NEW b \in Buckets PROVE EmptyFilter.cbf[b] <= filter.cbf[b]
  <2>1. EmptyFilter.cbf[b] = 0 /\ filter.cbf[b] \in Nat
    BY EmptyFilterType, AddCounters, CountsAreNumbers
  <2> QED BY <2>1
<1> QED BY <1>1, TurnedFilters DEF RotInv, Dominates, Dominated

LEMMA BothStarts == BothInit => IInv
<1> SUFFICES ASSUME BothInit PROVE IInv
  OBVIOUS
<1>1. RotInv
  BY RotInit DEF BothInit
<1>2. filter = EmptyFilter /\ admitted = FALSE
  BY SameFilter DEF BothInit, Init, Single!Init
<1>3. Dominated
  <2>1. ASSUME NEW i \in 1..Len(entries) PROVE entries[i].BF = EmptyFilter
    BY <2>1 DEF BothInit, Init
  <2> QED BY <1>2, <2>1, EmptyFilterType DEF Dominated, Dominates
<1> QED BY <1>1, <1>2, <1>3, EmptyFilterType, EmptyExact DEF IInv, SingleExact

LEMMA BothStep == IInv /\ [BothNext]_allVars => IInv'
<1> SUFFICES ASSUME IInv, [BothNext]_allVars PROVE IInv'
  OBVIOUS
<1> USE DEF IInv
<1>1. ASSUME NEW key \in Keys, NEW bypass \in BOOLEAN, NEW ts \in 0..MaxTime,
             Check(key, bypass, ts), Single!Check(key, bypass)
      PROVE  IInv'
  <2> DEFINE turned == Turned(entries, ts)
  <2>1. RotInv'
    BY <1>1, RotStep DEF Next
  <2>2. filter' = IF bypass THEN filter ELSE Learned(filter, key)
    BY <1>1, SameFilter DEF Single!Check, Learned
  <2>3. filter' \in Filters
    BY <2>2, LearnedType
  <2>4. SingleExact'
    BY <2>2, LearnedExact DEF SingleExact
  <2>5. Dominated'
    <3>1. CASE bypass
      BY <1>1, <2>2, <3>1 DEF Check, Dominated
    <3>2. CASE ~bypass
      <4> SUFFICES ASSUME NEW i \in 1..Len(entries')
                   PROVE  Dominates(Learned(filter, key), entries'[i].BF)
        BY <2>2, <3>2 DEF Dominated
      <4>1. Check(key, FALSE, ts)
        BY <1>1, <3>2
      <4>2. /\ i \in 1..Len(turned) /\ turned[i].BF \in Filters
            /\ \/ entries'[i].BF = Learned(turned[i].BF, key)
               \/ entries'[i].BF = turned[i].BF
        BY <4>1, FiltersAfter, TurnedFilters DEF RotInv
      <4>3. Dominates(filter, turned[i].BF)
        BY <4>2, TurnedDominated
      <4>4. Dominates(Learned(filter, key), turned[i].BF)
        BY <4>2, <4>3, DominatesLearned
      <4>5. Dominates(Learned(filter, key), Learned(turned[i].BF, key))
        BY <4>2, <4>3, LearnedDominated DEF Dominates
      <4> QED BY <4>2, <4>4, <4>5
    <3> QED BY <3>1, <3>2
  <2>6. admitted' => admittedSingle'
    <3>1. /\ admitted' = (bypass \/ Found(turned, key))
          /\ admittedSingle' = (bypass \/ Has(filter, key))
      BY <1>1, SameFilter DEF Check, Single!Check, Turned
    <3>2. Found(turned, key) => Has(filter, key)
      <4> SUFFICES ASSUME NEW i \in DOMAIN turned, Has(turned[i].BF, key)
                   PROVE  Has(filter, key)
        BY DEF Found
      <4>1. i \in 1..Len(turned) /\ turned[i].BF \in Filters
        BY TurnedFilters DEF RotInv
      <4> QED BY <4>1, TurnedDominated, DominatesHas
    <3> QED BY <3>1, <3>2
  <2> QED BY <2>1, <2>3, <2>4, <2>5, <2>6
<1>2. CASE UNCHANGED allVars
  <2>1. RotInv'
    BY <1>2, RotStep DEF allVars
  <2> QED BY <1>2, <2>1 DEF allVars, vars, SingleExact, Dominated
<1> QED BY <1>1, <1>2 DEF BothNext, BothCheck

\* The inductive invariant of the comparison.
THEOREM Compared == BothSpec => []IInv
BY BothStarts, BothStep, PTL DEF BothSpec

\* What the rotating filters let in the single filter lets in too, for every
\* placement of the keys on the buckets and every NVAL.
THEOREM RotationForgets == BothSpec => []RotationOnlyForgets
<1>1. IInv => RotationOnlyForgets
  <2> SUFFICES ASSUME IInv, NEW i \in DOMAIN entries, NEW k \in Keys, Has(entries[i].BF, k)
               PROVE  Has(filter, k)
    BY DEF RotationOnlyForgets, IInv
  <2>1. i \in 1..Len(entries) /\ entries[i] \in Entries
    BY LenProperties, ElementOfSeq DEF IInv, RotInv, TypeOK
  <2> QED BY <2>1, DominatesHas DEF IInv, Dominated, Entries
<1> QED BY <1>1, Compared, PTL

\* The state is well typed, there are two filters at most, and the fill each
\* policy reports is the number of its full buckets.  A counter that need not
\* count (NVAL = 0) is full from the start and never counted as such.
THEOREM FillRates ==
  ASSUME NVAL # 0
  PROVE  BothSpec => []WellFormed
<1>1. IInv => WellFormed
  <2> SUFFICES ASSUME IInv PROVE WellFormed
    OBVIOUS
  <2>1. DOMAIN entries = 1..Len(entries)
    BY LenProperties DEF IInv, RotInv, TypeOK
  <2> QED BY <2>1 DEF IInv, RotInv, RotatingExact, SingleExact, WellFormed, FillIsExact
<1> QED BY <1>1, Compared, PTL

-------------------------------------------------------------------------------
(* The closed form of add is its loop *)

\* What the first n hash functions of a key make of a filter.
PicksOfFirst(key, b, n) == Cardinality({i \in 1..n : Hashes[key][i] = b})
Filled(bf, key, n) ==
  {b \in Buckets : bf.cbf[b] < NVAL /\ Raised(bf.cbf[b], PicksOfFirst(key, b, n)) = NVAL}
AddFirst(bf, key, n) ==
  [cbf |-> [b \in Buckets |-> Raised(bf.cbf[b], PicksOfFirst(key, b, n))],
   full |-> bf.full + Cardinality(Filled(bf, key, n))]

LEMMA PicksOfNone ==
  ASSUME NEW key \in Keys, NEW b
  PROVE  PicksOfFirst(key, b, 0) = 0
<1>1. {i \in 1..0 : Hashes[key][i] = b} = {}
  OBVIOUS
<1> QED BY <1>1, FS_EmptySet DEF PicksOfFirst

LEMMA PicksOfAll ==
  ASSUME NEW key \in Keys, NEW b
  PROVE  PicksOfFirst(key, b, Len(Hashes[key])) = Picks(key, b)
<1>1. DOMAIN Hashes[key] = 1..Len(Hashes[key])
  BY BloomAssumption, LenProperties
<1> QED BY <1>1 DEF PicksOfFirst, Picks

\* The next hash function adds a pick to its own bucket.
LEMMA PicksOfNext ==
  ASSUME NEW key \in Keys, NEW b, NEW n \in Nat
  PROVE  /\ PicksOfFirst(key, b, n) \in Nat
         /\ PicksOfFirst(key, b, n + 1) =
              IF Hashes[key][n + 1] = b THEN PicksOfFirst(key, b, n) + 1
                                        ELSE PicksOfFirst(key, b, n)
<1> DEFINE I == {i \in 1..n : Hashes[key][i] = b}
           J == {i \in 1..(n + 1) : Hashes[key][i] = b}
<1>1. IsFiniteSet(I)
  <2>1. IsFiniteSet(1..n)
    BY FS_Interval
  <2> QED BY <2>1, FS_Subset
<1>2. n + 1 \notin I /\ 1..(n + 1) = 1..n \cup {n + 1}
  OBVIOUS
<1>3. J = IF Hashes[key][n + 1] = b THEN I \cup {n + 1} ELSE I
  BY <1>2
<1>4. PicksOfFirst(key, b, n) = Cardinality(I) /\ PicksOfFirst(key, b, n + 1) = Cardinality(J)
  BY DEF PicksOfFirst
<1> HIDE DEF I, J
<1>5. Cardinality(I) \in Nat /\ Cardinality(I \cup {n + 1}) = Cardinality(I) + 1
  BY <1>1, <1>2, FS_AddElement, FS_CardinalityType
<1> QED BY <1>3, <1>4, <1>5

\* Division with remainder, and the remainder of a sum of this form.
LEMMA DivMod ==
  ASSUME NEW R \in Nat \ {0}, NEW a \in Nat
  PROVE  a = R * (a \div R) + (a % R) /\ a % R \in 0..R-1 /\ a \div R \in Nat
OBVIOUS

LEMMA ModOfSum ==
  ASSUME NEW R \in Nat \ {0}, NEW q \in Nat, NEW r \in 0..R-1
  PROVE  (R * q + r) % R = r /\ r % R = r
<1>1. (R * q + r) % R = r
  OBVIOUS
<1>2. r % R = r
  OBVIOUS
<1> QED BY <1>1, <1>2

\* To count on from a counter that wrapped is to wrap the count.
LEMMA ModSuccessor ==
  ASSUME NEW R \in Nat \ {0}, NEW a \in Nat
  PROVE  ((a % R) + 1) % R = (a + 1) % R
<1>1. a = R * (a \div R) + (a % R) /\ a % R \in 0..R-1 /\ a \div R \in Nat
  BY DivMod
<1>2. CASE (a % R) + 1 < R
  <2>1. a + 1 = R * (a \div R) + ((a % R) + 1) /\ (a % R) + 1 \in 0..R-1
    BY <1>1, <1>2
  <2> QED BY <1>1, <2>1, ModOfSum
<1>3. CASE (a % R) + 1 = R
  <2>1. a + 1 = R * ((a \div R) + 1) + 0 /\ (a \div R) + 1 \in Nat /\ 0 \in 0..R-1
    BY <1>1, <1>3
  <2>2. (a + 1) % R = 0
    BY <2>1, ModOfSum
  <2>3. R % R = 0
    OBVIOUS
  <2> QED BY <1>3, <2>2, <2>3
<1> QED BY <1>1, <1>2, <1>3

\* One increment more is the increment of the counter so far.
LEMMA RaisedNext ==
  ASSUME NEW c \in Counts, NEW m \in Nat
  PROVE  Raised(c, m + 1) =
           IF Raised(c, m) < NVAL THEN (Raised(c, m) + 1) % CounterRange ELSE Raised(c, m)
<1> USE BloomAssumption DEF Raised, Counts
<1>1. CASE c >= NVAL
  BY <1>1
<1>2. CASE c < NVAL /\ NVAL < CounterRange
  BY <1>2
<1>3. CASE c < NVAL /\ NVAL >= CounterRange
  <2>1. Raised(c, m) = (c + m) % CounterRange /\ Raised(c, m + 1) = (c + (m + 1)) % CounterRange
    BY <1>3
  <2>2. (c + m) % CounterRange < NVAL
    BY <1>3
  <2>3. (((c + m) % CounterRange) + 1) % CounterRange = (c + (m + 1)) % CounterRange
    <3> DEFINE a == c + m
    <3>1. CounterRange \in Nat \ {0} /\ a \in Nat /\ c + (m + 1) = a + 1
      OBVIOUS
    <3> HIDE DEF a
    <3>2. ((a % CounterRange) + 1) % CounterRange = (a + 1) % CounterRange
      BY <3>1, ModSuccessor
    <3> QED BY <3>1, <3>2 DEF a
  <2> QED BY <2>1, <2>2, <2>3
<1> QED BY <1>1, <1>2, <1>3

LEMMA AddFirstNone ==
  ASSUME NEW bf \in Filters, NEW key \in Keys
  PROVE  AddFirst(bf, key, 0) = bf
<1>1. /\ bf = [cbf |-> bf.cbf, full |-> bf.full]
      /\ bf.cbf \in [Buckets -> Counts] /\ bf.full \in Nat
  BY DEF Filters, Counts
<1>2. \A b \in Buckets : Raised(bf.cbf[b], PicksOfFirst(key, b, 0)) = bf.cbf[b]
  BY <1>1, PicksOfNone, RaisedBounds
<1>3. [b \in Buckets |-> Raised(bf.cbf[b], PicksOfFirst(key, b, 0))] = bf.cbf
  BY <1>1, <1>2
<1>4. Filled(bf, key, 0) = {}
  <2>1. \A b \in Buckets : ~(bf.cbf[b] < NVAL /\ bf.cbf[b] = NVAL)
    BY <1>1, BloomAssumption, CountsAreNumbers
  <2> QED BY <1>2, <2>1 DEF Filled
<1>5. Cardinality({}) = 0
  BY FS_EmptySet
<1> QED BY <1>1, <1>3, <1>4, <1>5 DEF AddFirst

LEMMA AddFirstAll ==
  ASSUME NEW bf, NEW key \in Keys
  PROVE  AddFirst(bf, key, Len(Hashes[key])) = Add(bf, key)
<1> DEFINE n == Len(Hashes[key])
           cbf == [b \in Buckets |-> Raised(bf.cbf[b], Picks(key, b))]
<1>1. \A b : PicksOfFirst(key, b, n) = Picks(key, b)
  BY PicksOfAll
<1>2. Filled(bf, key, n) = {b \in Buckets : bf.cbf[b] < NVAL /\ cbf[b] = NVAL}
  BY <1>1 DEF Filled
<1>3. AddFirst(bf, key, n) = [cbf |-> cbf, full |-> bf.full + Cardinality(Filled(bf, key, n))]
  BY <1>1 DEF AddFirst
<1> QED BY <1>2, <1>3 DEF Add

\* An iteration of the loop, on what the iterations before it left.
LEMMA AddFirstNext ==
  ASSUME NEW bf \in Filters, NEW key \in Keys, NEW n \in Nat, n + 1 <= Len(Hashes[key])
  PROVE  AddFirst(bf, key, n + 1) = AddOne(AddFirst(bf, key, n), Hashes[key][n + 1])
<1> DEFINE h == Hashes[key][n + 1]
           m(b) == PicksOfFirst(key, b, n)
           c(b) == Raised(bf.cbf[b], m(b))
           next(b) == Raised(bf.cbf[b], PicksOfFirst(key, b, n + 1))
           A == Filled(bf, key, n)
           B == Filled(bf, key, n + 1)
<1>0. \A b : /\ m(b) \in Nat
            /\ PicksOfFirst(key, b, n + 1) = IF h = b THEN m(b) + 1 ELSE m(b)
  BY PicksOfNext
<1>1. h \in Buckets
  <2>1. Hashes[key] \in Seq(Buckets) /\ Len(Hashes[key]) \in Nat
    BY BloomAssumption, LenProperties
  <2>2. n + 1 \in 1..Len(Hashes[key])
    BY <2>1
  <2> QED BY <2>1, <2>2, ElementOfSeq
<1>2. bf.full \in Nat /\ \A b \in Buckets : bf.cbf[b] \in Counts
  BY DEF Filters, Counts
<1>3. ASSUME NEW b \in Buckets
      PROVE  /\ c(b) \in Counts /\ c(b) \in Nat
             /\ b # h => next(b) = c(b)
             /\ b = h => next(b) = IF c(b) < NVAL THEN (c(b) + 1) % CounterRange ELSE c(b)
  <2>1. m(b) \in Nat /\ bf.cbf[b] \in Counts
    BY <1>0, <1>2
  <2>2. c(b) \in Counts
    BY <2>1, RaisedBounds
  <2>3. CASE b # h
    <3>1. PicksOfFirst(key, b, n + 1) = m(b)
      BY <1>0, <2>3
    <3>2. c(b) \in Nat
      BY <2>2, CountsAreNumbers
    <3>3. next(b) = c(b)
      BY <3>1
    <3> HIDE DEF c, next, m, h
    <3> QED BY <2>2, <2>3, <3>2, <3>3
  <2>4. CASE b = h
    <3>1. next(b) = Raised(bf.cbf[b], m(b) + 1)
      BY <1>0, <2>4
    <3> HIDE DEF m
    <3>2. Raised(bf.cbf[b], m(b) + 1) =
            IF c(b) < NVAL THEN (c(b) + 1) % CounterRange ELSE c(b)
      BY <2>1, RaisedNext, Zenon
    <3>3. c(b) \in Nat
      BY <2>2, CountsAreNumbers
    <3> HIDE DEF c, next, h
    <3> QED BY <2>2, <2>4, <3>1, <3>2, <3>3
  <2> QED BY <2>3, <2>4
<1>4. /\ A = {b \in Buckets : bf.cbf[b] < NVAL /\ c(b) = NVAL}
      /\ B = {b \in Buckets : bf.cbf[b] < NVAL /\ next(b) = NVAL}
  BY DEF Filled
<1>5. IsFiniteSet(A) /\ Cardinality(A) \in Nat
  <2>1. A \subseteq Buckets /\ IsFiniteSet(Buckets)
    BY <1>4, BloomAssumption
  <2> HIDE DEF A
  <2> QED BY <2>1, FS_Subset, FS_CardinalityType
<1>6. /\ AddFirst(bf, key, n) = [cbf |-> [b \in Buckets |-> c(b)],
                                 full |-> bf.full + Cardinality(A)]
      /\ AddFirst(bf, key, n + 1) = [cbf |-> [b \in Buckets |-> next(b)],
                                     full |-> bf.full + Cardinality(B)]
  BY DEF AddFirst
<1>7. NVAL \in Nat
  BY BloomAssumption
\* A counter below NVAL was below it before.
<1>8. c(h) < NVAL => bf.cbf[h] < NVAL
  <2>1. bf.cbf[h] >= NVAL => c(h) = bf.cbf[h]
    BY DEF Raised
  <2> QED BY <1>1, <1>2, <1>7, <2>1, CountsAreNumbers
<1> HIDE DEF h, c, next, A, B
<1>9. CASE c(h) < NVAL
  <2> DEFINE raised == (c(h) + 1) % CounterRange
  <2>1. [b \in Buckets |-> next(b)] = [[b \in Buckets |-> c(b)] EXCEPT ![h] = raised]
    BY <1>1, <1>3, <1>9
  <2>2. h \notin A
    BY <1>1, <1>3, <1>4, <1>7, <1>9
  <2>3. B = IF raised = NVAL THEN A \cup {h} ELSE A
    BY <1>1, <1>3, <1>4, <1>8, <1>9, <2>2
  <2>4. bf.full + Cardinality(B) =
          IF raised = NVAL THEN (bf.full + Cardinality(A)) + 1 ELSE bf.full + Cardinality(A)
    <3>1. Cardinality(A \cup {h}) = Cardinality(A) + 1
      BY <1>5, <2>2, FS_AddElement
    <3> HIDE DEF raised
    <3> QED BY <1>2, <1>5, <2>3, <3>1
  <2> HIDE DEF raised
  <2>5. AddOne(AddFirst(bf, key, n), h) =
          [cbf |-> [[b \in Buckets |-> c(b)] EXCEPT ![h] = raised],
           full |-> IF raised = NVAL THEN (bf.full + Cardinality(A)) + 1
                                     ELSE bf.full + Cardinality(A)]
    BY <1>1, <1>6, <1>9 DEF AddOne, raised
  <2> QED BY <1>6, <2>1, <2>4, <2>5 DEF h
<1>10. CASE ~(c(h) < NVAL)
  <2>1. \A b \in Buckets : next(b) = c(b)
    BY <1>3, <1>10
  <2>2. B = A /\ [b \in Buckets |-> next(b)] = [b \in Buckets |-> c(b)]
    BY <1>4, <2>1
  <2>3. AddOne(AddFirst(bf, key, n), h) = AddFirst(bf, key, n)
    BY <1>1, <1>6, <1>10 DEF AddOne
  <2> QED BY <1>6, <2>2, <2>3 DEF h
<1> QED BY <1>9, <1>10

\* A set of numbers has a least element.
LEMMA Least ==
  ASSUME NEW T \in SUBSET Nat, T # {}
  PROVE  \E m \in T : \A n \in T : m <= n
<1> DEFINE R == OpToRel(<, Nat)
<1>1. IsWellFoundedOn(R, Nat)
  BY NatLessThanWellFounded
<1>2. \A x, y \in Nat : x < y => <<x, y>> \in R
  BY DEF OpToRel
<1> HIDE DEF R
<1>3. PICK m \in T : \A n \in Nat : <<n, m>> \in R => n \notin T
  BY <1>1, WFMin
<1>4. \A n \in T : ~(n < m)
  BY <1>2, <1>3
<1> QED BY <1>3, <1>4

\* The closed form of add is what its loop over the hash functions computes,
\* for every filter, every key and every NVAL, 256 and more included.
THEOREM AddLoops ==
  ASSUME NEW bf \in Filters, NEW key \in Keys
  PROVE  Add(bf, key) = AddLoop(bf, key)
<1> DEFINE N == Len(Hashes[key])
           Body(f) == [n \in 0..N |-> IF n = 0 THEN bf ELSE AddOne(f[n-1], Hashes[key][n])]
           added == CHOOSE f : f = Body(f)
           first == [n \in 0..N |-> AddFirst(bf, key, n)]
<1>0. N \in Nat
  BY BloomAssumption, LenProperties
<1>1. first = Body(first)
  <2>1. first[0] = bf
    BY <1>0, AddFirstNone
  <2>2. ASSUME NEW n \in 1..N PROVE first[n] = AddOne(first[n-1], Hashes[key][n])
    <3>1. n - 1 \in Nat /\ (n - 1) + 1 = n /\ n \in 0..N /\ n - 1 \in 0..N
      BY <1>0
    <3>2. AddFirst(bf, key, n) = AddOne(AddFirst(bf, key, n - 1), Hashes[key][n])
      BY <1>0, <3>1, AddFirstNext
    <3> QED BY <3>1, <3>2
  <2> HIDE DEF first
  <2>3. \A n \in 0..N : first[n] = Body(first)[n]
    BY <1>0, <2>1, <2>2
  <2> QED BY <2>3 DEF first
<1>2. added = Body(added)
  BY <1>1
<1>3. AddLoop(bf, key) = added[N]
  BY DEF AddLoop
<1> HIDE DEF added
<1>4. added[0] = bf /\ \A n \in 1..N : added[n] = AddOne(added[n-1], Hashes[key][n])
  BY <1>0, <1>2
<1>5. first[0] = bf /\ \A n \in 1..N : first[n] = AddOne(first[n-1], Hashes[key][n])
  BY <1>0, <1>1
<1> HIDE DEF first
<1> DEFINE Wrong == {n \in 0..N : added[n] # first[n]}
<1>6. Wrong = {}
  <2>1. SUFFICES ASSUME Wrong # {} PROVE FALSE
    OBVIOUS
  <2>2. PICK w \in Wrong : \A n \in Wrong : w <= n
    <3>1. Wrong \in SUBSET Nat
      BY <1>0
    <3> HIDE DEF Wrong
    <3> QED BY <2>1, <3>1, Least
  <2>3. w \in 0..N /\ added[w] # first[w] /\ w # 0
    BY <1>4, <1>5, <2>2
  <2>4. w-1 \in 0..N /\ w-1 \notin Wrong
    BY <1>0, <2>2, <2>3
  <2>5. added[w] = first[w]
    BY <1>0, <1>4, <1>5, <2>3, <2>4
  <2> QED BY <2>3, <2>5
<1>7. added[N] = first[N]
  BY <1>0, <1>6
<1> QED BY <1>0, <1>3, <1>7, AddFirstAll DEF first
===============================================================================
