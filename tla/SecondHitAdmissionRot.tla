------------------------- MODULE SecondHitAdmissionRot -------------------------
(***************************************************************************)
(* lib/second_hit_admission.cc: admission by two rotating Bloom filters.   *)
(* When the head filter is older than max_age a fresh one takes its place  *)
(* and it becomes the second; a key found in either is admitted.           *)
(***************************************************************************)
EXTENDS BloomFilter, SequencesExt

CONSTANTS MaxAge,    \* max_age (bf_reset_int)
          MaxTime    \* bound on the timestamps of the log

ASSUME RotAssumption == MaxAge \in Nat /\ MaxTime \in Nat

VARIABLES
  entries,    \* head, head->next: sequence of [BF, init_time]
  admitted,   \* what the last check returned
  now,        \* timestamp of the last line of the log
  seen        \* history: times of the last NVAL filtered checks of each key

vars == <<entries, admitted, now, seen>>

Entries == [BF : Filters, init_time : 0..MaxTime]

TypeOK ==
  /\ entries \in Seq(Entries)
  /\ Len(entries) \in 1..2
  /\ admitted \in BOOLEAN
  /\ now \in 0..MaxTime
  /\ seen \in [Keys -> Seq(0..MaxTime)]
  /\ \A k \in Keys : Len(seen[k]) <= NVAL

Init ==
  /\ entries = <<[BF |-> EmptyFilter, init_time |-> 0]>>
  /\ admitted = FALSE
  /\ now = 0
  /\ seen = [k \in Keys |-> <<>>]

-------------------------------------------------------------------------------
(* Faulty variants of Rotated *)

\* Rotation without keeping the old filter.
RotatedAlone(es, ts) ==
  IF ts - Head(es).init_time > MaxAge
  THEN <<[BF |-> EmptyFilter, init_time |-> ts]>>
  ELSE es

\* The old filter is appended but the one before it is never deleted.
RotatedKeepingAll(es, ts) ==
  IF ts - Head(es).init_time > MaxAge
  THEN <<[BF |-> EmptyFilter, init_time |-> ts]>> \o es
  ELSE es

-------------------------------------------------------------------------------
(* check, in the order of its steps *)

\* An init_time of 0 marks the first filter, born with the first check.
Started(es, ts) ==
  IF Head(es).init_time = 0 THEN [es EXCEPT ![1].init_time = ts] ELSE es

\* Rotate if the head is older than max_age; the filter behind it is dropped.
Rotated(es, ts) ==
  IF ts - Head(es).init_time > MaxAge
  THEN <<[BF |-> EmptyFilter, init_time |-> ts], Head(es)>>
  ELSE es

\* The head learns the key unless it has it.
Consulted(es, key) ==
  IF Has(es[1].BF, key) THEN es
  ELSE [es EXCEPT ![1].BF = Add(es[1].BF, key)]

\* The key is in the head, or in the filter behind it.
Found(es, key) == \E i \in DOMAIN es : Has(es[i].BF, key)

Remembered(times, ts) ==
  LET longer == Append(times, ts) IN
    IF Len(longer) > NVAL THEN Tail(longer) ELSE longer

\* Faulty variant of Check: the customer is looked up after the filters.
CheckCustomerLast(key, bypass, ts) ==
  LET turned == Rotated(Started(entries, ts), ts) IN
    /\ ts >= now
    /\ now' = ts
    /\ admitted' = (bypass \/ Found(turned, key))
    /\ entries' = Consulted(turned, key)
    /\ seen' = [seen EXCEPT ![key] = Remembered(@, ts)]

Check(key, bypass, ts) ==
  LET turned == Rotated(Started(entries, ts), ts) IN
    /\ ts >= now
    /\ now' = ts
    /\ admitted' = (bypass \/ Found(turned, key))
    /\ entries' = IF bypass THEN entries ELSE Consulted(turned, key)
    /\ seen' = IF bypass THEN seen
               ELSE [seen EXCEPT ![key] = Remembered(@, ts)]

Next ==
  \E key \in Keys, bypass \in BOOLEAN, ts \in 0..MaxTime : Check(key, bypass, ts)

Spec == Init /\ [][Next]_vars

-------------------------------------------------------------------------------
(* Properties *)

\* What check would return for the key at time ts.
WouldAdmit(key, ts) == Found(Rotated(Started(entries, ts), ts), key)

\* N-hit caching, one half: a key that was checked NVAL times during the
\* last max_age seconds is admitted by the next check, whatever rotations
\* and collisions happen meanwhile.
NHitAdmits ==
  \A k \in Keys : \A ts \in now..MaxTime :
    /\ Len(seen[k]) = NVAL
    /\ \A i \in DOMAIN seen[k] : ts - seen[k][i] <= MaxAge
    => WouldAdmit(k, ts)

\* The other half: a key that has a bucket to itself is not admitted before
\* it was checked NVAL times.
NotBeforeNHits ==
  \A k \in Keys : \A ts \in now..MaxTime :
    /\ Len(seen[k]) < NVAL
    /\ \E b \in Buckets : /\ Picks(k, b) = 1
                          /\ \A other \in Keys \ {k} : Picks(other, b) = 0
    => ~WouldAdmit(k, ts)
==============================================================================
