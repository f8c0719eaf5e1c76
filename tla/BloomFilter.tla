------------------------------ MODULE BloomFilter ------------------------------
(***************************************************************************)
(* include/bloomfilter.h, built with CBF: a counting Bloom filter.  A      *)
(* filter is a value [cbf, full]: the saturating counter of each bucket    *)
(* and cbf_full_bucket_count, from which the fill rate is reported.  The   *)
(* bitmap `bloomfilter` is not modelled: with CBF neither add nor check    *)
(* reads or writes it.                                                     *)
(***************************************************************************)
EXTENDS Integers, Sequences, FiniteSets

CONSTANTS Keys,
          Buckets,   \* the bfsize buckets
          Hashes,    \* key -> the bucket each of the nfuncs hashes picks
          NVAL,      \* checks that must have missed before one succeeds
          CounterRange   \* values of a counter, which is a uint8_t: 256

ASSUME BloomAssumption ==
  /\ IsFiniteSet(Buckets)
  /\ Hashes \in [Keys -> Seq(Buckets)]
  /\ \A k \in Keys : Hashes[k] # <<>>
  /\ NVAL \in Nat
  /\ CounterRange \in Nat \ {0, 1}

Filters == [cbf : [Buckets -> 0..CounterRange - 1], full : Nat]

EmptyFilter == [cbf |-> [b \in Buckets |-> 0], full |-> 0]

\* Faulty variant of Has: an off-by-one in the comparison with NVAL.
HasOneShort(bf, key) ==
  \A i \in DOMAIN Hashes[key] : bf.cbf[Hashes[key][i]] >= NVAL - 1

\* check: every bucket of the key has reached NVAL.
Has(bf, key) == \A i \in DOMAIN Hashes[key] : bf.cbf[Hashes[key][i]] >= NVAL

\* How many of the hash functions of the key pick bucket b.
Picks(key, b) == Cardinality({i \in DOMAIN Hashes[key] : Hashes[key][i] = b})

\* The guard of the increment is dropped: a counter runs past NVAL.
RaisedPastNVAL(c, m) == (c + m) % CounterRange

\* A counter below NVAL after m increments, each made only below NVAL.
Raised(c, m) ==
  IF c >= NVAL THEN c
  ELSE IF c + m >= NVAL /\ NVAL < CounterRange THEN NVAL
  ELSE (c + m) % CounterRange

\* add, its loop over the hash functions in closed form.
Add(bf, key) ==
  LET cbf == [b \in Buckets |-> Raised(bf.cbf[b], Picks(key, b))] IN
    [cbf |-> cbf,
     full |-> bf.full
              + Cardinality({b \in Buckets : bf.cbf[b] < NVAL /\ cbf[b] = NVAL})]

\* The loop itself: what an iteration makes of the bucket that its hash
\* function picks, and the filter behind the last of them.
AddOne(bf, b) ==
  IF bf.cbf[b] < NVAL
  THEN LET raised == (bf.cbf[b] + 1) % CounterRange IN
         [cbf |-> [bf.cbf EXCEPT ![b] = raised],
          full |-> IF raised = NVAL THEN bf.full + 1 ELSE bf.full]
  ELSE bf

AddLoop(bf, key) ==
  LET added[n \in 0..Len(Hashes[key])] ==
        IF n = 0 THEN bf ELSE AddOne(added[n-1], Hashes[key][n])
  IN added[Len(Hashes[key])]

\* get_live_stats: what the fill percentage is a percentage of the buckets of.
num_of_set_bits(bf) == bf.full

\* Every bucket counted full is full, and no other.
CountsFull(bf) == num_of_set_bits(bf) = Cardinality({b \in Buckets : bf.cbf[b] = NVAL})
==============================================================================
