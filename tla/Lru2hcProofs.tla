------------------------------ MODULE Lru2hcProofs ------------------------------
(***************************************************************************)
(* Theorems about the shipped program, for every log, every size of the    *)
(* disk and every setting of the filters: it is an emulator, so what was   *)
(* proved of the counters of every chain of layers holds of its layer; and *)
(* its filters keep one-hit wonders off the disk.                          *)
(***************************************************************************)
EXTENDS Lru2hc, SequenceTheorems, FiniteSetTheorems, TLAPS

\* Where the thread is in the put of the layer, and what it may have lost.
PutIsInAdd ==
  /\ loop = "idle" \/ (loop = "put" /\ phase = "add")
  /\ loop = "put" => /\ Resident \subseteq held \cup {request.key}
                     /\ answer = TRUE

\* The layer below is the origin, which never refuses.
OriginAnswers == phase = "add" => answer = TRUE

LEMMA PutIsInAddInit == Init => PutIsInAdd /\ OriginAnswers
BY DEF Init, hd_evict!Init, em!Init, em!ChainInit, PutIsInAdd, OriginAnswers

LEMMA PutIsInAddStep ==
  PutIsInAdd /\ OriginAnswers /\ [Next]_vars => (PutIsInAdd /\ OriginAnswers)'
<1> SUFFICES ASSUME PutIsInAdd, OriginAnswers, [Next]_vars
             PROVE  PutIsInAdd' /\ OriginAnswers'
  OBVIOUS
<1> USE DEF PutIsInAdd, OriginAnswers, Resident
<1>1. ASSUME NEW line \in Lines, NEW ts \in FirstTime..MaxTime, ReadLine(line, ts)
      PROVE  PutIsInAdd' /\ OriginAnswers'
  BY <1>1 DEF ReadLine, em!ReadLine, em!Call, evictionVars
<1>2. CASE Hit
  BY <1>2 DEF Hit, hd_evict!Get
<1>3. CASE Miss
  BY <1>3 DEF Miss, evictionVars
<1>4. CASE Add
  BY <1>4 DEF Add, hd_evict!Put, evictionVars
<1>5. CASE PurgeOne
  BY <1>5 DEF PurgeOne, hd_evict!LoopBody, hd_evict!PurgeRegular, hd_evict!Erase, hd_evict!Restrict
<1>6. CASE Added
  BY <1>6 DEF Added, hd_evict!LoopExit
<1>7. CASE Periodic
  BY <1>7 DEF Periodic, em!PeriodicReport, em!PeriodicPurge, evictionVars
<1>8. CASE UNCHANGED vars
  BY <1>8 DEF vars, evictionVars
<1> QED BY <1>1, <1>2, <1>3, <1>4, <1>5, <1>6, <1>7, <1>8 DEF Next, Process

-------------------------------------------------------------------------------
(* The program implements the emulator *)

\* The objects of the layer as the emulator sees them.
InLayer == IF loop = "put" THEN held ELSE DOMAIN mapping

LEMMA HitMaps ==
  ASSUME PutIsInAdd, Hit
  PROVE  em!ProcessStep
<1>1. /\ phase = "check" /\ loop = "idle" /\ loop' = "idle"
      /\ request.key \in DOMAIN mapping /\ DOMAIN mapping' = DOMAIN mapping
  BY DEF Hit, hd_evict!Get, PutIsInAdd, Resident
<1>2. InLayer = DOMAIN mapping /\ InLayer' = InLayer
  BY <1>1 DEF InLayer
<1>3. em!Hit
  BY <1>1, <1>2 DEF Hit, em!Hit, em!Return, em!settings, em!Layers, InLayer
<1>4. UNCHANGED em!globalVars
  BY DEF Hit, replayVars, em!globalVars
<1> QED BY <1>3, <1>4 DEF em!ProcessStep, em!Process

LEMMA MissMaps ==
  ASSUME PutIsInAdd, Miss
  PROVE  em!ProcessStep
<1>1. /\ phase = "check" /\ loop = "idle" /\ loop' = "idle"
      /\ request.key \notin DOMAIN mapping /\ mapping' = mapping
  BY DEF Miss, evictionVars, PutIsInAdd, Resident
<1>2. InLayer = DOMAIN mapping /\ InLayer' = InLayer
  BY <1>1 DEF InLayer
<1>3. em!NotFound
  BY <1>1, <1>2 DEF em!NotFound, em!Layers, InLayer
<1>4. em!Miss
  BY <1>1, <1>2, <1>3 DEF Miss, em!Miss, em!settings, em!Layers
<1>5. UNCHANGED em!globalVars
  BY DEF Miss, replayVars, em!globalVars
<1> QED BY <1>4, <1>5 DEF em!ProcessStep, em!Process

\* The filters may refuse, and so may "prob".
LEMMA MayRefuse ==
  \A size : TRUE \in em!Verdicts("prob", size) /\ FALSE \in em!Verdicts("prob", size)
<1>1. 0 \in em!Draws /\ 1 \in em!Draws
  BY DEF em!Draws
<1>2. (0 < 1) = TRUE /\ (1 < 1) = FALSE
  OBVIOUS
<1>3. TRUE \in em!prob_check /\ FALSE \in em!prob_check
  BY <1>1, <1>2, Zenon DEF em!prob_check
<1> QED BY <1>3 DEF em!Verdicts

\* An admitted object is put, of which the emulator sees nothing before the
\* put returns; a refused one ends the request.
LEMMA AddMaps ==
  ASSUME PutIsInAdd, Add
  PROVE  [em!Next]_em!vars
<1>1. phase = "add" /\ loop = "idle" /\ InLayer = DOMAIN mapping
  BY DEF Add, InLayer
<1>2. CASE admitted'
  <2>1. loop' = "put" /\ held' = DOMAIN mapping /\ now' = now
    BY <1>2 DEF Add, hd_evict!Put, Resident, replayVars
  <2>2. InLayer' = InLayer
    BY <1>1, <2>1 DEF InLayer
  <2>3. UNCHANGED em!vars
    BY <1>2, <2>1, <2>2 DEF Add, replayVars, em!vars, em!chainVars, em!settings,
                            em!globalVars, InLayer
  <2> QED BY <2>3
<1>3. CASE ~admitted'
  <2>1. /\ phase' = "returned" /\ answer' = FALSE
        /\ UNCHANGED <<mapping, loop, held, request, stats>>
    BY <1>3 DEF Add, evictionVars
  <2>2. InLayer' = InLayer
    BY <2>1 DEF InLayer
  <2>3. em!Refuse
    BY <1>1, <2>1, <2>2, MayRefuse DEF em!Refuse, em!Return, em!settings, em!Layers, InLayer
  <2>4. UNCHANGED em!globalVars
    BY DEF Add, replayVars, em!globalVars
  <2> QED BY <2>3, <2>4 DEF em!Next, em!ProcessStep, em!Process
<1> QED BY <1>2, <1>3

LEMMA PurgeMaps ==
  ASSUME PutIsInAdd, PurgeOne
  PROVE  UNCHANGED em!vars
<1>1. loop' = loop /\ now' = now /\ held' = held
  BY DEF PurgeOne, hd_evict!LoopBody
<1>2. loop = "put"
  BY DEF PurgeOne, PutIsInAdd, hd_evict!LoopBody, hd_evict!OverTarget
<1> QED BY <1>1, <1>2 DEF PurgeOne, replayVars, em!vars, em!chainVars, em!settings,
                          em!globalVars

LEMMA AddedMaps ==
  ASSUME PutIsInAdd, Added
  PROVE  em!ProcessStep
<1>1. /\ phase = "add" /\ loop = "put" /\ loop' = "idle" /\ mapping' = mapping
      /\ answer = TRUE /\ DOMAIN mapping \subseteq held \cup {request.key}
  BY DEF Added, hd_evict!LoopExit, PutIsInAdd, Resident
<1>2. InLayer = held /\ InLayer' = DOMAIN mapping
  BY <1>1 DEF InLayer
<1> DEFINE before == [i \in {1} |-> InLayer]
           after == [i \in {1} |-> InLayer']
           lost == (held \cup {request.key}) \ DOMAIN mapping
<1>3. /\ lost \in SUBSET (before[1] \cup {request.key})
      /\ after = [before EXCEPT ![1] = (@ \cup {request.key}) \ lost]
  BY <1>1, <1>2
<1>4. em!MayAdd
  BY <1>1 DEF em!MayAdd, em!Layers
<1>5. TRUE \in em!Verdicts("prob", request.size)
  BY MayRefuse
<1>6. em!Admit
  <2> HIDE DEF lost
  <2> QED BY <1>1, <1>3, <1>4, <1>5
          DEF Added, em!Admit, em!Return, em!settings, em!Layers, InLayer
<1>7. UNCHANGED em!globalVars
  BY DEF Added, replayVars, em!globalVars
<1> QED BY <1>6, <1>7 DEF em!ProcessStep, em!Process

LEMMA EmulatorStep ==
  ASSUME PutIsInAdd, [Next]_vars
  PROVE  [em!Next]_em!vars
<1>1. ASSUME NEW line \in Lines, NEW ts \in FirstTime..MaxTime, ReadLine(line, ts)
      PROVE  em!Next
  BY <1>1 DEF ReadLine, em!Next
<1>2. Hit => em!Next
  BY HitMaps DEF em!Next
<1>3. Miss => em!Next
  BY MissMaps DEF em!Next
<1>4. Add => [em!Next]_em!vars
  BY AddMaps
<1>5. PurgeOne => UNCHANGED em!vars
  BY PurgeMaps
<1>6. Added => em!Next
  BY AddedMaps DEF em!Next
<1>7. Periodic => em!Next
  BY DEF Periodic, em!Next
<1>8. UNCHANGED vars => UNCHANGED em!vars
  BY DEF vars, evictionVars, replayVars, em!vars, em!chainVars, em!settings, em!globalVars
<1> HIDE DEF em!Next, em!vars
<1> QED BY <1>1, <1>2, <1>3, <1>4, <1>5, <1>6, <1>7, <1>8 DEF Next, Process

\* The program is the emulator with one layer that answers as the filters and
\* the list of entries happen to: every step of it is a step of the emulator
\* or invisible to it.
THEOREM IsEmulator == Spec => ImplementsEmulator
<1>1. Init => em!Init
  BY DEF Init
<1>2. PutIsInAdd /\ [Next]_vars => [em!Next]_em!vars
  BY EmulatorStep
<1> QED BY <1>1, <1>2, PutIsInAddInit, PutIsInAddStep, PTL DEF Spec, ImplementsEmulator

-------------------------------------------------------------------------------
(* What was proved of the emulator *)

\* The emulator of Lru2hc with its theorems; no line of its log is passed over.
ep == INSTANCE EmulatorProofs WITH
        Depth <- 1,
        Configurations <- {<<"prob">>},
        DoHourlyPurging <- {},
        SizeThreshold <- 0, Prob <- 1, RandMax <- 1,
        FrontEndMode <- FALSE,
        PartialObjectCaching <- FALSE,
        contents <- [i \in {1} |-> InLayer],
        respect_lower_admission <- [i \in {1} |-> FALSE],
        admission <- [i \in {1} |-> "prob"],
        layer <- 1,
        MaxLines <- 0,
        lines_processed <- 0, lines_skipped <- 0, running <- "yes", reported <- 0,
        reports <- <<>>, unreported <- <<>>, written <- <<>>

LEMMA EmulatorInstance ==
  /\ ep!AdmissionsAssumption /\ ep!ChainAssumption /\ ep!EmulatorAssumption
  /\ ep!LinesAssumption /\ ep!ReplayAssumption
<1>1. ep!AdmissionsAssumption /\ ep!EmulatorAssumption /\ ep!ReplayAssumption
  BY Lru2hcAssumption DEF ep!AdmissionsAssumption, ep!EmulatorAssumption,
                          ep!ReplayAssumption
<1>2. ep!ChainAssumption
  <2>1. <<"prob">> \in [1..1 -> ep!AdmissionNames]
    BY DEF ep!AdmissionNames
  <2> QED BY <2>1, Lru2hcAssumption DEF ep!ChainAssumption
<1>3. \A line : /\ ep!Accepted(line) <=> em!Accepted(line)
                /\ ep!KeyOf(line) = em!KeyOf(line)
                /\ ep!SizeOf(line) = em!SizeOf(line)
  BY DEF ep!Accepted, em!Accepted, ep!KeyOf, em!KeyOf, ep!SizeOf, em!SizeOf,
         ep!BadStatuses, em!BadStatuses, ep!IsPartial, em!IsPartial
<1>4. ep!LinesAssumption
  BY <1>3, Lru2hcAssumption DEF ep!LinesAssumption
<1> QED BY <1>1, <1>2, <1>4

LEMMA SameEmulator ==
  /\ em!Init => ep!Init
  /\ [em!Next]_em!vars => [ep!Next]_ep!vars
<1> USE DEF InLayer, ep!chainVars, em!chainVars, ep!globalVars, em!globalVars,
            ep!settings, em!settings, ep!Layers, em!Layers
<1>1. em!vars = ep!vars /\ em!globalVars = ep!globalVars
  BY DEF em!vars, ep!vars
<1>2. \A c, n : em!Blocks(n) = ep!Blocks(n)
  BY DEF em!Blocks, ep!Blocks
<1>3. em!Counters = ep!Counters /\ em!RequestCounters = ep!RequestCounters
      /\ em!DiskCounters = ep!DiskCounters
      /\ em!InfiniteCounters = ep!InfiniteCounters
      /\ em!NoCounts = ep!NoCounts /\ em!NothingInfinite = ep!NothingInfinite
  BY DEF em!Counters, ep!Counters, em!RequestCounters, ep!RequestCounters,
         em!DiskCounters, ep!DiskCounters, em!InfiniteCounters, ep!InfiniteCounters,
         em!NoCounts, ep!NoCounts, em!NothingInfinite, ep!NothingInfinite
<1>4. em!Init => ep!Init
  BY <1>3 DEF em!Init, ep!Init, em!ChainInit, ep!ChainInit
<1>5. \A name, size : em!Verdicts(name, size) = ep!Verdicts(name, size)
  BY DEF em!Verdicts, ep!Verdicts, em!null_check, ep!null_check,
         em!size_check, ep!size_check, em!prob_check, ep!prob_check,
         em!prob_size_check, ep!prob_size_check, em!Draws, ep!Draws
<1>6. em!ProcessStep => ep!ProcessStep
  <2>1. em!NotFound => ep!NotFound
    BY DEF em!NotFound, ep!NotFound
  <2>2. \A v : em!Return(v) => ep!Return(v)
    BY DEF em!Return, ep!Return
  <2>3. em!Hit => ep!Hit
    BY <1>2, <2>2 DEF em!Hit, ep!Hit
  <2>4. em!Miss => ep!Miss
    BY <2>1 DEF em!Miss, ep!Miss
  <2>5. em!MayAdd <=> ep!MayAdd
    BY DEF em!MayAdd, ep!MayAdd
  <2>6. em!Admit => ep!Admit
    BY <1>2, <1>5, <2>2, <2>5 DEF em!Admit, ep!Admit
  <2>7. em!Refuse => ep!Refuse
    BY <1>5, <2>2, <2>5 DEF em!Refuse, ep!Refuse
  <2> QED BY <1>1, <2>3, <2>4, <2>6, <2>7
          DEF em!ProcessStep, ep!ProcessStep, em!Process, ep!Process
<1>7. ASSUME NEW line, NEW ts, em!ReadLine(line, ts) PROVE ep!ReadLine(line, ts)
  BY <1>7 DEF em!ReadLine, ep!ReadLine, em!Call, ep!Call, em!CountInfinite, ep!CountInfinite,
              ep!Accepted, em!Accepted, ep!KeyOf, em!KeyOf, ep!SizeOf, em!SizeOf,
              ep!BadStatuses, em!BadStatuses, ep!IsPartial, em!IsPartial
<1>8. em!PeriodicReport => ep!PeriodicReport
  <2>1. em!ResetCounters => ep!ResetCounters
    BY <1>3 DEF em!ResetCounters, ep!ResetCounters, em!periodic_output, ep!periodic_output,
           em!reset_disk_counters, ep!reset_disk_counters, em!clear_counters,
           ep!clear_counters, em!Cleared, ep!Cleared
  <2>2. em!Report => ep!Report
    BY <1>3, <2>1 DEF em!Report, ep!Report
  <2> QED BY <2>2 DEF em!PeriodicReport, ep!PeriodicReport, em!Due, ep!Due
<1>9. em!PeriodicPurge => ep!PeriodicPurge
  <2>1. em!Purge => ep!Purge
    BY DEF em!Purge, ep!Purge, em!hourly_purging, ep!hourly_purging
  <2> QED BY <2>1 DEF em!PeriodicPurge, ep!PeriodicPurge, em!Due, ep!Due
<1>10. em!Next => ep!Next
  BY <1>6, <1>7, <1>8, <1>9 DEF em!Next, ep!Next
<1>11. UNCHANGED em!vars => UNCHANGED ep!vars
  BY DEF em!vars, ep!vars
<1> HIDE DEF em!Next, ep!Next, em!vars, ep!vars
<1> QED BY <1>4, <1>10, <1>11

LEMMA SameProperties ==
  /\ ep!LayersAddUp => em!LayersAddUp
  /\ ep!NoBetterThanInfinite => em!NoBetterThanInfinite
<1>1. em!AtRest <=> ep!AtRest
  BY DEF em!AtRest, ep!AtRest
<1>2. \A counter : em!Total(counter) = ep!Total(counter)
  BY DEF em!Total, ep!Total
<1>3. ep!LayersAddUp => em!LayersAddUp
  BY <1>1 DEF em!LayersAddUp, ep!LayersAddUp
<1>4. ep!NoBetterThanInfinite => em!NoBetterThanInfinite
  BY <1>1, <1>2 DEF em!NoBetterThanInfinite, ep!NoBetterThanInfinite
<1> QED BY <1>3, <1>4

\* What the shipped program reports adds up: each request of a window is a hit
\* or a miss of the disk, which never hits more than the infinite cache.
THEOREM ReportsAddUp == Spec => [](em!LayersAddUp /\ em!NoBetterThanInfinite)
<1>1. ep!Init => ep!IInv
  BY EmulatorInstance, ep!IInvInit
<1>2. ep!IInv /\ [ep!Next]_ep!vars => ep!IInv'
  BY EmulatorInstance, ep!IInvStep
<1>3. ep!IInv => ep!LayersAddUp /\ ep!NoBetterThanInfinite
  BY EmulatorInstance, ep!AddsUpAtRest, ep!NoBetterAtRest DEF ep!IInv
<1>4. ImplementsEmulator => [](em!LayersAddUp /\ em!NoBetterThanInfinite)
  BY <1>1, <1>2, <1>3, SameEmulator, SameProperties, PTL DEF ImplementsEmulator
<1> QED BY <1>4, IsEmulator, PTL

-------------------------------------------------------------------------------
(* What was proved of the filters *)

\* The admission policy of Lru2hc with its lemmas, compared with nothing.
sh == INSTANCE SecondHitProofs WITH
        MaxAge <- bf_reset_int, CounterRange <- 256, filter <- 0, admittedSingle <- FALSE

LEMMA FiltersInstance == sh!BloomAssumption /\ sh!RotAssumption
BY Lru2hcAssumption DEF sh!BloomAssumption, sh!RotAssumption, sh!IsFiniteSet, IsFiniteSet

LEMMA SamePicks == \A k, b : sh!Picks(k, b) = hd_ad!Picks(k, b)
BY DEF sh!Picks, hd_ad!Picks, sh!Cardinality, hd_ad!Cardinality

LEMMA SameFilters ==
  /\ hd_ad!Init => sh!Init
  /\ \A key, ts : hd_ad!Check(key, FALSE, ts) => sh!Check(key, FALSE, ts)
<1>1. hd_ad!EmptyFilter = sh!EmptyFilter
  BY DEF hd_ad!EmptyFilter, sh!EmptyFilter
<1>2. \A bf, key : hd_ad!Has(bf, key) <=> sh!Has(bf, key)
  BY DEF hd_ad!Has, sh!Has
<1>3. \A bf, key : hd_ad!Add(bf, key) = sh!Add(bf, key)
  <2>1. \A c, m : hd_ad!Raised(c, m) = sh!Raised(c, m)
    BY DEF hd_ad!Raised, sh!Raised
  <2> QED BY <2>1, SamePicks, Zenon DEF hd_ad!Add, sh!Add, hd_ad!Cardinality, sh!Cardinality
<1>4. \A es, ts : /\ hd_ad!Started(es, ts) = sh!Started(es, ts)
                  /\ hd_ad!Rotated(es, ts) = sh!Rotated(es, ts)
  BY <1>1 DEF hd_ad!Started, sh!Started, hd_ad!Rotated, sh!Rotated
<1>5. \A es, key : /\ hd_ad!Consulted(es, key) = sh!Consulted(es, key)
                   /\ hd_ad!Found(es, key) <=> sh!Found(es, key)
  BY <1>2, <1>3 DEF hd_ad!Consulted, sh!Consulted, hd_ad!Found, sh!Found
<1>6. \A times, ts : hd_ad!Remembered(times, ts) = sh!Remembered(times, ts)
  BY DEF hd_ad!Remembered, sh!Remembered
<1>7. hd_ad!Init => sh!Init
  BY <1>1 DEF hd_ad!Init, sh!Init
<1>8. ASSUME NEW key, NEW ts, hd_ad!Check(key, FALSE, ts)
      PROVE  sh!Check(key, FALSE, ts)
  BY <1>4, <1>5, <1>6, <1>8 DEF hd_ad!Check, sh!Check
<1> QED BY <1>7, <1>8

-------------------------------------------------------------------------------
(* One-hit wonders *)

\* The request under way is one that the filters may still hear of.
Asking(k) ==
  /\ phase = "check" \/ (phase = "add" /\ loop = "idle")
  /\ request.key = k

\* The requests that they may have heard of.
Asked(k) == IF Asking(k) THEN requests[k] - 1 ELSE requests[k]

OnlyKeyOf(k, b) ==
  /\ hd_ad!Picks(k, b) > 0
  /\ \A other \in Keys \ {k} : hd_ad!Picks(other, b) = 0

\* A bucket of one key has counted its requests at most.
FiltersHeard ==
  \A i \in 1..Len(entries), b \in Buckets :
    /\ entries[i].BF.cbf[b] <= NVAL
    /\ \A k \in Keys : OnlyKeyOf(k, b) =>
         entries[i].BF.cbf[b] <= Asked(k) * hd_ad!Picks(k, b)

RequestsCounted ==
  /\ requests \in [Keys -> 0..NVAL + 1]
  /\ DOMAIN mapping \subseteq Keys
  /\ phase \in {"check", "add"} => request.key \in Keys
  /\ \A k \in Keys : Asking(k) \/ k \in Resident => requests[k] > 0

IInv ==
  /\ PutIsInAdd /\ OriginAnswers
  /\ sh!TypeOK
  /\ RequestsCounted
  /\ FiltersHeard
  /\ NoOneHitWonders

LEMMA Products ==
  /\ \A m, n \in Nat : m * n \in Nat
  /\ \A m, n \in Nat : (m + 1) * n = m * n + n
  /\ \A l, m, n \in Nat : l <= m => l * n <= m * n
<1>1. \A m, n \in Nat : m * n \in Nat
  OBVIOUS
<1>2. \A m, n \in Nat : (m + 1) * n = m * n + n
  OBVIOUS
<1>3. \A l, m, n \in Nat : l <= m => l * n <= m * n
  OBVIOUS
<1> QED BY <1>1, <1>2, <1>3

LEMMA PicksAreNumbers ==
  ASSUME NEW k \in Keys, NEW b
  PROVE  /\ hd_ad!Picks(k, b) \in Nat
         /\ hd_ad!Picks(k, b) # 0 <=> \E i \in DOMAIN Hashes[k] : Hashes[k][i] = b
BY SamePicks, FiltersInstance, sh!PicksCount

LEMMA AskedIsNat ==
  ASSUME RequestsCounted, NEW k \in Keys
  PROVE  Asked(k) \in Nat /\ requests[k] \in Nat
BY Lru2hcAssumption DEF RequestsCounted, Asked

\* The filters a check consults have heard no more than those there were.
LEMMA TurnedHeard ==
  ASSUME IInv, NEW i \in 1..Len(sh!Turned(entries, now)), NEW b \in Buckets
  PROVE  LET bf == sh!Turned(entries, now)[i].BF IN
         /\ bf \in sh!Filters /\ bf.cbf[b] \in Nat /\ bf.cbf[b] <= NVAL
         /\ \A k \in Keys : OnlyKeyOf(k, b) => bf.cbf[b] <= Asked(k) * hd_ad!Picks(k, b)
<1> DEFINE bf == sh!Turned(entries, now)[i].BF
<1>1. sh!TypeOK /\ now \in 0..MaxTime
  BY DEF IInv, sh!TypeOK
<1>2. /\ bf \in sh!Filters
      /\ \/ bf = sh!EmptyFilter
         \/ \E j \in 1..Len(entries) : bf = entries[j].BF
  BY <1>1, FiltersInstance, sh!TurnedFilters
<1> HIDE DEF bf
<1>3. bf.cbf[b] \in Nat
  BY <1>2, FiltersInstance, sh!AddCounters, sh!CountsAreNumbers
<1>4. CASE bf = sh!EmptyFilter
  <2>1. bf.cbf[b] = 0
    BY <1>4, FiltersInstance, sh!EmptyFilterType
  <2>2. \A k \in Keys : Asked(k) * hd_ad!Picks(k, b) \in Nat
    BY AskedIsNat, PicksAreNumbers, Products DEF IInv
  <2>3. \A k \in Keys : 0 <= Asked(k) * hd_ad!Picks(k, b)
    <3> SUFFICES ASSUME NEW k \in Keys PROVE 0 <= Asked(k) * hd_ad!Picks(k, b)
      OBVIOUS
    <3> DEFINE n == Asked(k) * hd_ad!Picks(k, b)
    <3>1. n \in Nat
      BY <2>2
    <3> HIDE DEF n
    <3>2. 0 <= n
      BY <3>1
    <3> QED BY <3>2 DEF n
  <2> QED BY <1>2, <1>3, <2>1, <2>3, Lru2hcAssumption DEF bf
<1>5. CASE \E j \in 1..Len(entries) : bf = entries[j].BF
  BY <1>2, <1>3, <1>5 DEF IInv, FiltersHeard, bf
<1> QED BY <1>2, <1>4, <1>5

\* A check raises the counters of the key by its picks at most.
LEMMA CheckedHeard ==
  ASSUME IInv, NEW key \in Keys, sh!Check(key, FALSE, now),
         NEW i \in 1..Len(entries'), NEW b \in Buckets
  PROVE  /\ entries'[i].BF.cbf[b] <= NVAL
         /\ \A k \in Keys : OnlyKeyOf(k, b) =>
              entries'[i].BF.cbf[b]
                <= Asked(k) * hd_ad!Picks(k, b) + (IF k = key THEN hd_ad!Picks(k, b) ELSE 0)
<1> DEFINE bf == sh!Turned(entries, now)[i].BF
           after == entries'[i].BF
<1>1. sh!TypeOK /\ now \in 0..MaxTime
  BY DEF IInv, sh!TypeOK
<1>2. /\ i \in 1..Len(sh!Turned(entries, now))
      /\ after = sh!Learned(bf, key) \/ after = bf
  BY <1>1, FiltersInstance, sh!FiltersAfter
<1>3. /\ bf \in sh!Filters /\ bf.cbf[b] \in Nat /\ bf.cbf[b] <= NVAL
      /\ \A k \in Keys : OnlyKeyOf(k, b) => bf.cbf[b] <= Asked(k) * hd_ad!Picks(k, b)
  BY <1>2, TurnedHeard
<1> HIDE DEF bf, after
<1>4. sh!Learned(bf, key).cbf[b] <= NVAL
  BY <1>3, FiltersInstance, sh!LearnedCapped
<1>5. /\ hd_ad!Picks(key, b) = 0 => sh!Learned(bf, key).cbf[b] = bf.cbf[b]
      /\ sh!Learned(bf, key).cbf[b] <= bf.cbf[b] + hd_ad!Picks(key, b)
  BY <1>3, SamePicks, FiltersInstance, sh!LearnedOwn
<1>6. hd_ad!Picks(key, b) \in Nat /\ sh!Learned(bf, key).cbf[b] \in Nat
  <2>1. sh!Learned(bf, key) \in sh!Filters
    BY <1>3, FiltersInstance, sh!LearnedType
  <2> QED BY <2>1, PicksAreNumbers, FiltersInstance, sh!AddCounters, sh!CountsAreNumbers
<1>7. ASSUME NEW k \in Keys, OnlyKeyOf(k, b)
      PROVE  after.cbf[b]
               <= Asked(k) * hd_ad!Picks(k, b) + (IF k = key THEN hd_ad!Picks(k, b) ELSE 0)
  <2> DEFINE n == Asked(k) * hd_ad!Picks(k, b)
  <2>1. n \in Nat /\ hd_ad!Picks(k, b) \in Nat
    BY PicksAreNumbers, AskedIsNat, Products DEF IInv
  <2>2. bf.cbf[b] <= n
    BY <1>3, <1>7
  <2>3. k # key => hd_ad!Picks(key, b) = 0
    BY <1>7 DEF OnlyKeyOf
  <2> HIDE DEF n
  <2>4. after.cbf[b] <= n + (IF k = key THEN hd_ad!Picks(k, b) ELSE 0)
    BY <1>2, <1>3, <1>5, <1>6, <2>1, <2>2, <2>3
  <2> QED BY <2>4 DEF n
<1>8. after.cbf[b] <= NVAL
  BY <1>2, <1>3, <1>4
<1> QED BY <1>7, <1>8 DEF after

\* A key that the filters find was asked for often enough.
LEMMA FoundOften ==
  ASSUME IInv, NEW key \in Keys, sh!Check(key, FALSE, now), admitted',
         NEW b \in Buckets, OnlyKeyOf(key, b)
  PROVE  NVAL <= Asked(key) * hd_ad!Picks(key, b)
<1> DEFINE turned == sh!Turned(entries, now)
<1>1. sh!TypeOK /\ now \in 0..MaxTime
  BY DEF IInv, sh!TypeOK
<1>2. DOMAIN turned = 1..Len(turned)
  BY <1>1, FiltersInstance, sh!TurnedFilters
<1>3. PICK i \in 1..Len(turned) : sh!Has(turned[i].BF, key)
  BY <1>2 DEF sh!Check, sh!Found, sh!Turned
<1>4. PICK h \in DOMAIN Hashes[key] : Hashes[key][h] = b
  BY PicksAreNumbers DEF OnlyKeyOf
<1>5. turned[i].BF.cbf[b] >= NVAL
  BY <1>3, <1>4 DEF sh!Has
<1>6. /\ turned[i].BF.cbf[b] \in Nat
      /\ turned[i].BF.cbf[b] <= Asked(key) * hd_ad!Picks(key, b)
  BY <1>3, TurnedHeard
<1>7. Asked(key) * hd_ad!Picks(key, b) \in Nat
  BY PicksAreNumbers, AskedIsNat, Products DEF IInv
<1> DEFINE n == Asked(key) * hd_ad!Picks(key, b)
           c == turned[i].BF.cbf[b]
<1>8. NVAL \in Nat /\ n \in Nat /\ c \in Nat /\ c >= NVAL /\ c <= n
  BY <1>5, <1>6, <1>7, Lru2hcAssumption
<1> HIDE DEF n, c
<1>9. NVAL <= n
  BY <1>8
<1> QED BY <1>9 DEF n

\* Requests that were counted stay counted.
LEMMA EnoughStays ==
  ASSUME RequestsCounted, RequestsCounted', NEW k \in Keys, NEW b,
         requests'[k] >= requests[k],
         requests[k] > 0,
         NVAL <= (requests[k] - 1) * hd_ad!Picks(k, b)
  PROVE  NVAL <= (requests'[k] - 1) * hd_ad!Picks(k, b)
<1> DEFINE l == requests[k] - 1
           m == requests'[k] - 1
           p == hd_ad!Picks(k, b)
<1>1. requests[k] \in Nat /\ requests'[k] \in Nat
  BY Lru2hcAssumption DEF RequestsCounted
<1>2. l \in Nat /\ m \in Nat /\ l <= m /\ p \in Nat
  BY <1>1, PicksAreNumbers
<1>3. NVAL <= l * p /\ NVAL \in Nat
  BY Lru2hcAssumption
<1> HIDE DEF l, m, p
<1>4. l * p \in Nat /\ m * p \in Nat /\ l * p <= m * p
  BY <1>2, Products
<1>5. NVAL <= m * p
  BY <1>3, <1>4
<1> QED BY <1>5 DEF m, p

LEMMA CounterIsNat ==
  ASSUME IInv, NEW i \in 1..Len(entries), NEW b \in Buckets
  PROVE  entries[i].BF.cbf[b] \in Nat
<1>1. entries[i] \in sh!Entries
  BY ElementOfSeq DEF IInv, sh!TypeOK
<1>2. entries[i].BF \in sh!Filters
  BY <1>1 DEF sh!Entries
<1> QED BY <1>2, FiltersInstance, sh!AddCounters, sh!CountsAreNumbers

LEMMA OneHitInit == Init => IInv
<1> SUFFICES ASSUME Init PROVE IInv
  OBVIOUS
<1>1. PutIsInAdd /\ OriginAnswers
  BY PutIsInAddInit
<1>2. sh!Init
  BY SameFilters DEF Init
<1>3. sh!TypeOK
  BY <1>2, FiltersInstance, sh!RotInit DEF sh!RotInv
<1>4. DOMAIN mapping = {} /\ phase = "idle"
  BY DEF Init, hd_evict!Init, em!Init, em!ChainInit
<1>5. RequestsCounted
  <2>1. requests \in [Keys -> 0..NVAL + 1]
    BY Lru2hcAssumption DEF Init
  <2> QED BY <1>4, <2>1 DEF RequestsCounted, Asking, Resident
<1>6. NoOneHitWonders
  BY <1>4 DEF NoOneHitWonders, Resident
<1>7. FiltersHeard
  <2>1. Len(entries) = 1 /\ entries[1].BF = sh!EmptyFilter
    BY <1>2 DEF sh!Init
  <2>2. \A i \in 1..Len(entries), b \in Buckets : entries[i].BF.cbf[b] = 0
    <3>1. \A i \in 1..Len(entries) : i = 1
      BY <2>1
    <3> QED BY <2>1, <3>1, FiltersInstance, sh!EmptyFilterType
  <2>3. ASSUME NEW k \in Keys, NEW b PROVE 0 <= Asked(k) * hd_ad!Picks(k, b)
    <3> DEFINE n == Asked(k) * hd_ad!Picks(k, b)
    <3>1. n \in Nat
      BY <1>5, PicksAreNumbers, AskedIsNat, Products
    <3> HIDE DEF n
    <3>2. 0 <= n
      BY <3>1
    <3> QED BY <3>2 DEF n
  <2> QED BY <2>2, <2>3, Lru2hcAssumption DEF FiltersHeard
<1> QED BY <1>1, <1>3, <1>5, <1>6, <1>7 DEF IInv

\* A step after which the filters may hear of no request they could not hear
\* of before, and the disk holds no object more.
LEMMA QuietStep ==
  ASSUME IInv, PutIsInAdd', OriginAnswers',
         UNCHANGED <<entries, admitted, seen, requests, now>>,
         DOMAIN mapping' \subseteq DOMAIN mapping,
         phase' \in {"check", "add"} => phase \in {"check", "add"} /\ request' = request,
         \A k \in Keys : Asking(k)' => Asking(k)
  PROVE  IInv'
<1>1. sh!TypeOK'
  BY DEF IInv, sh!TypeOK
<1>2. RequestsCounted'
  BY DEF IInv, RequestsCounted, Resident
<1>3. NoOneHitWonders'
  BY DEF IInv, NoOneHitWonders, Resident
<1>4. FiltersHeard'
  <2> SUFFICES ASSUME NEW i \in 1..Len(entries), NEW b \in Buckets, NEW k \in Keys,
                      OnlyKeyOf(k, b)
               PROVE  entries[i].BF.cbf[b] <= Asked(k)' * hd_ad!Picks(k, b)
    BY DEF IInv, FiltersHeard, OnlyKeyOf
  <2> DEFINE l == Asked(k)
             m == Asked(k)'
             p == hd_ad!Picks(k, b)
  <2>1. l \in Nat /\ requests[k] \in Nat
    BY AskedIsNat DEF IInv
  <2>2. m \in Nat /\ l <= m
    BY <2>1 DEF Asked, IInv
  <2>3. entries[i].BF.cbf[b] <= l * p
    BY DEF IInv, FiltersHeard
  <2>4. p \in Nat
    BY PicksAreNumbers
  <2>5. entries[i].BF.cbf[b] \in Nat
    BY CounterIsNat
  <2> HIDE DEF l, m, p
  <2>6. l * p \in Nat /\ m * p \in Nat /\ l * p <= m * p
    BY <2>1, <2>2, <2>4, Products DEF l
  <2>7. entries[i].BF.cbf[b] <= m * p
    BY <2>3, <2>5, <2>6
  <2> QED BY <2>7 DEF m, p
<1> QED BY <1>1, <1>2, <1>3, <1>4 DEF IInv

\* A line is read: its request is one more that the filters have not heard of.
LEMMA ReadStep ==
  ASSUME IInv, PutIsInAdd', OriginAnswers',
         NEW line \in Lines, NEW ts \in FirstTime..MaxTime, ReadLine(line, ts)
  PROVE  IInv'
<1> DEFINE key == em!KeyOf(line)
<1>1. /\ phase = "idle" /\ phase' = "check" /\ request'.key = key
      /\ key \in Keys /\ now' = ts
      /\ requests' = [requests EXCEPT ![key] = IF @ > NVAL THEN @ ELSE @ + 1]
      /\ UNCHANGED <<evictionVars, admissionVars, held>>
  BY Lru2hcAssumption DEF ReadLine, em!ReadLine, em!Call
<1> HIDE DEF key
<1>2. /\ requests \in [Keys -> 0..NVAL + 1] /\ NVAL \in Nat
      /\ DOMAIN mapping \subseteq Keys
  BY Lru2hcAssumption DEF IInv, RequestsCounted
<1>3. \A k \in Keys : /\ requests'[k] \in 0..NVAL + 1
                      /\ requests'[k] >= requests[k]
                      /\ k # key => requests'[k] = requests[k]
                      /\ requests'[key] > 0
  BY <1>1, <1>2
<1>4. \A k \in Keys : Asking(k)' <=> k = key
  BY <1>1 DEF Asking
<1>5. sh!TypeOK'
  <2>1. now' \in 0..MaxTime
    BY <1>1, Lru2hcAssumption
  <2> QED BY <1>1, <2>1 DEF IInv, sh!TypeOK, admissionVars
<1>6. RequestsCounted'
  <2>1. requests' \in [Keys -> 0..NVAL + 1]
    BY <1>1, <1>2, <1>3
  <2>2. mapping' = mapping
    BY <1>1 DEF evictionVars
  <2>3. \A k \in Keys : Asking(k)' \/ k \in Resident' => requests'[k] > 0
    BY <1>2, <1>3, <1>4, <2>2 DEF IInv, RequestsCounted, Resident
  <2> QED BY <1>1, <1>2, <2>1, <2>2, <2>3 DEF RequestsCounted
<1>7. NoOneHitWonders'
  <2> SUFFICES ASSUME NEW k \in DOMAIN mapping, NEW b \in Buckets, OnlyKeyOf(k, b)
               PROVE  NVAL <= (requests'[k] - 1) * hd_ad!Picks(k, b)
    BY <1>1 DEF NoOneHitWonders, Resident, evictionVars, OnlyKeyOf
  <2>1. NVAL <= (requests[k] - 1) * hd_ad!Picks(k, b) /\ requests[k] > 0
    BY <1>2 DEF IInv, NoOneHitWonders, OnlyKeyOf, Resident, RequestsCounted
  <2>2. RequestsCounted
    BY DEF IInv
  <2> QED BY <1>2, <1>3, <1>6, <2>1, <2>2, EnoughStays
<1>8. FiltersHeard'
  <2> SUFFICES ASSUME NEW i \in 1..Len(entries), NEW b \in Buckets, NEW k \in Keys,
                      OnlyKeyOf(k, b)
               PROVE  entries[i].BF.cbf[b] <= Asked(k)' * hd_ad!Picks(k, b)
    BY <1>1 DEF IInv, FiltersHeard, OnlyKeyOf, admissionVars
  <2>1. ~Asking(k) /\ Asked(k) = requests[k]
    BY <1>1 DEF Asking, Asked
  <2>2. /\ entries[i].BF.cbf[b] <= Asked(k) * hd_ad!Picks(k, b)
        /\ entries[i].BF.cbf[b] <= NVAL
    BY DEF IInv, FiltersHeard
  <2>3. CASE k # key \/ requests[k] <= NVAL
    <3>1. Asked(k)' = requests[k]
      BY <1>1, <1>2, <1>3, <1>4, <2>3 DEF Asked
    <3> QED BY <2>1, <2>2, <3>1
  <2>4. CASE k = key /\ requests[k] > NVAL
    <3> DEFINE p == hd_ad!Picks(k, b)
    <3>1. Asked(k)' = NVAL
      BY <1>1, <1>2, <1>4, <2>4 DEF Asked
    <3>2. p \in Nat /\ p > 0
      BY PicksAreNumbers DEF OnlyKeyOf
    <3> HIDE DEF p
    <3>3. NVAL * p \in Nat /\ NVAL <= NVAL * p
      BY <1>2, <3>2
    <3>4. entries[i].BF.cbf[b] \in Nat
      BY CounterIsNat
    <3>5. entries[i].BF.cbf[b] <= NVAL * p
      BY <1>2, <2>2, <3>3, <3>4
    <3> QED BY <3>1, <3>5 DEF p
  <2> QED BY <1>2, <2>3, <2>4
<1> QED BY <1>5, <1>6, <1>7, <1>8 DEF IInv

\* The filters hear of the request under way, and may let its object in.
LEMMA AddStep ==
  ASSUME IInv, PutIsInAdd', OriginAnswers', Add
  PROVE  IInv'
<1> DEFINE key == request.key
<1>1. /\ phase = "add" /\ loop = "idle" /\ hd_ad!Check(key, FALSE, now)
      /\ request' = request /\ requests' = requests /\ now' = now
      /\ DOMAIN mapping' = IF admitted' THEN DOMAIN mapping \cup {key} ELSE DOMAIN mapping
      /\ IF admitted' THEN phase' = "add" /\ loop' = "put" ELSE phase' = "returned"
  BY DEF Add, replayVars, evictionVars, hd_evict!Put
<1>2. key \in Keys /\ Asking(key) /\ \A k : Asking(k) => k = key
  BY <1>1 DEF IInv, RequestsCounted, Asking
<1>3. sh!Check(key, FALSE, now) /\ now \in 0..MaxTime
  BY <1>1, SameFilters DEF IInv, sh!TypeOK
<1>4. \A k : ~Asking(k)'
  BY <1>1 DEF Asking
<1> HIDE DEF key
<1>5. sh!TypeOK'
  <2>1. sh!TypeOK
    BY DEF IInv
  <2> QED BY <1>2, <1>3, <2>1, FiltersInstance, sh!CheckTypes
<1>6. requests[key] > 0 /\ \A k \in Keys : requests[k] \in Nat
  BY <1>2, AskedIsNat DEF IInv, RequestsCounted
<1>7. RequestsCounted'
  <2>1. DOMAIN mapping' \subseteq DOMAIN mapping \cup {key}
    BY <1>1
  <2>2. phase' \in {"check", "add"} => request'.key \in Keys
    BY <1>1, <1>2 DEF key
  <2>3. \A k \in Keys : Asking(k)' \/ k \in Resident' => requests'[k] > 0
    BY <1>1, <1>4, <1>6, <2>1 DEF IInv, RequestsCounted, Resident
  <2> QED BY <1>1, <1>2, <2>1, <2>2, <2>3 DEF IInv, RequestsCounted
<1>8. NoOneHitWonders'
  <2> SUFFICES ASSUME NEW k \in DOMAIN mapping', NEW b \in Buckets, OnlyKeyOf(k, b)
               PROVE  NVAL <= (requests[k] - 1) * hd_ad!Picks(k, b)
    BY <1>1 DEF NoOneHitWonders, Resident, OnlyKeyOf
  <2>1. CASE k \in DOMAIN mapping
    BY <2>1 DEF IInv, NoOneHitWonders, Resident, OnlyKeyOf
  <2>2. CASE admitted' /\ k = key
    <3>1. Asked(key) = requests[key] - 1
      BY <1>2 DEF Asked
    <3> QED BY <1>2, <1>3, <2>2, <3>1, FoundOften
  <2> QED BY <1>1, <2>1, <2>2
<1>9. FiltersHeard'
  <2> SUFFICES ASSUME NEW i \in 1..Len(entries'), NEW b \in Buckets
               PROVE  /\ entries'[i].BF.cbf[b] <= NVAL
                      /\ \A k \in Keys : OnlyKeyOf(k, b) =>
                           entries'[i].BF.cbf[b] <= Asked(k)' * hd_ad!Picks(k, b)
    BY DEF FiltersHeard, OnlyKeyOf
  <2>1. entries'[i].BF.cbf[b] <= NVAL
    BY <1>2, <1>3, CheckedHeard
  <2>2. ASSUME NEW k \in Keys, OnlyKeyOf(k, b)
        PROVE  entries'[i].BF.cbf[b] <= Asked(k)' * hd_ad!Picks(k, b)
    <3> DEFINE p == hd_ad!Picks(k, b)
               l == Asked(k)
    <3>1. entries'[i].BF.cbf[b] <= l * p + (IF k = key THEN p ELSE 0)
      BY <1>2, <1>3, <2>2, CheckedHeard
    <3>2. p \in Nat /\ l \in Nat
      BY PicksAreNumbers, AskedIsNat DEF IInv
    <3>3. Asked(k)' = requests[k]
      BY <1>1, <1>4 DEF Asked
    <3>4. l = IF k = key THEN requests[k] - 1 ELSE requests[k]
      BY <1>2 DEF Asked
    <3> HIDE DEF p, l
    <3>5. l * p \in Nat /\ (l + 1) * p = l * p + p
      BY <3>2, Products
    <3>6. CASE k = key
      <4>1. requests[k] = l + 1
        BY <1>6, <3>2, <3>4, <3>6
      <4>2. entries'[i].BF.cbf[b] <= (l + 1) * p
        BY <3>1, <3>5, <3>6
      <4> QED BY <3>3, <4>1, <4>2 DEF p
    <3>7. CASE k # key
      <4> DEFINE n == l * p
      <4>1. entries'[i].BF.cbf[b] <= n + 0 /\ n \in Nat
        BY <3>1, <3>5, <3>7
      <4> HIDE DEF n
      <4>2. entries'[i].BF.cbf[b] <= n
        BY <4>1
      <4> QED BY <3>3, <3>4, <3>7, <4>2 DEF n, p
    <3> QED BY <3>6, <3>7
  <2> QED BY <2>1, <2>2
<1> QED BY <1>5, <1>7, <1>8, <1>9 DEF IInv

LEMMA OneHitStep == IInv /\ [Next]_vars => IInv'
<1> SUFFICES ASSUME IInv, [Next]_vars PROVE IInv'
  OBVIOUS
<1>1. PutIsInAdd' /\ OriginAnswers'
  BY PutIsInAddStep DEF IInv
<1>2. ASSUME NEW line \in Lines, NEW ts \in FirstTime..MaxTime, ReadLine(line, ts)
      PROVE  IInv'
  BY <1>1, <1>2, ReadStep
<1>3. CASE Add
  BY <1>1, <1>3, AddStep
<1>4. CASE Hit
  BY <1>1, <1>4, QuietStep
     DEF Hit, hd_evict!Get, admissionVars, replayVars, Asking
<1>5. CASE Miss
  BY <1>1, <1>5, QuietStep
     DEF Miss, evictionVars, admissionVars, replayVars, Asking, IInv, PutIsInAdd
<1>6. CASE PurgeOne
  BY <1>1, <1>6, QuietStep
     DEF PurgeOne, hd_evict!LoopBody, hd_evict!PurgeRegular, hd_evict!Erase, hd_evict!Restrict,
         admissionVars, replayVars, Asking
<1>7. CASE Added
  BY <1>1, <1>7, QuietStep
     DEF Added, hd_evict!LoopExit, admissionVars, replayVars, Asking
<1>8. CASE Periodic
  <2>1. phase' \in {"reported", "idle"} /\ now' = now
    BY <1>8 DEF Periodic, em!PeriodicReport, em!PeriodicPurge
  <2> QED BY <1>1, <1>8, <2>1, QuietStep
      DEF Periodic, evictionVars, admissionVars, Asking
<1>9. CASE UNCHANGED vars
  BY <1>1, <1>9, QuietStep
     DEF vars, evictionVars, admissionVars, replayVars, Asking
<1> QED BY <1>2, <1>3, <1>4, <1>5, <1>6, <1>7, <1>8, <1>9 DEF Next, Process

\* An object with a bucket to itself is on the disk only after enough requests
\* for it, whatever was evicted, rotated or requested in between.
THEOREM OneHitWondersStayOut == Spec => []NoOneHitWonders
<1>1. IInv => NoOneHitWonders
  BY DEF IInv
<1> QED BY <1>1, OneHitInit, OneHitStep, PTL DEF Spec

-------------------------------------------------------------------------------
(* The disk *)

\* The eviction policy of Lru2hc with its lemmas, for objects of every size;
\* the policies that are proved beside it are built with nothing.
disk == INSTANCE LRUEvictionProofs WITH
          Capacity <- hd_max_size_bytes, Sizes <- Nat,
          put_at <- 0, ttl <- 0, TTLs <- {},
          NoBFCust <- {}, Formulas <- {}, grades <- 1,
          age_power <- [age \in 0..MaxTime |-> age],
          w_age <- 1, w_size <- 1, ef4_e <- 1, lru_interval <- 1,
          deciding <- FALSE, scored <- {}, size_score <- 0, score_vector <- 0,
          eviction_formula <- 0, hour_count <- 0, total_hourly_purge_intervals <- 0,
          LRU_list_size <- 0,
          purge_size_based_limit <- 0, purging <- FALSE, cursor <- 0,
          total_items_purged <- 0

LEMMA DiskInstance ==
  /\ disk!LRUAssumption /\ disk!FIFOAgeAssumption
  /\ disk!CostLRUAssumption /\ disk!SizeLRUAssumption
BY Lru2hcAssumption DEF disk!LRUAssumption, disk!FIFOAgeAssumption,
                        disk!CostLRUAssumption, disk!SizeLRUAssumption

LEMMA SameDisk ==
  /\ hd_evict!Init => disk!Init
  /\ \A k, ts : hd_evict!Get(k, ts) => disk!Get(k, ts)
  /\ \A k, size, ts : hd_evict!Put(k, size, ts) => disk!Put(k, size, ts)
  /\ hd_evict!LoopBody => disk!LoopBody
  /\ hd_evict!LoopExit => disk!LoopExit
  /\ disk!Consistent => hd_evict!Consistent
  /\ disk!OldestAtTail => hd_evict!OldestAtTail
  /\ disk!OverfullOnlyInPut => hd_evict!FitsAtRest
<1>1. \A l, k : /\ hd_evict!Attach(l, k) = disk!Attach(l, k)
                /\ hd_evict!Detach(l, k) = disk!Detach(l, k)
                /\ hd_evict!Last(l) = disk!Last(l)
                /\ hd_evict!Range(l) = disk!Range(l)
  BY DEF hd_evict!Attach, disk!Attach, hd_evict!Detach, disk!Detach,
         hd_evict!Last, disk!Last, hd_evict!Range, disk!Range, hd_evict!Cons, disk!Cons,
         hd_evict!RemoveAt, disk!RemoveAt, hd_evict!PositionOf, disk!PositionOf
<1>2. hd_evict!Init => disk!Init
  BY DEF hd_evict!Init, disk!Init
<1>3. ASSUME NEW k, NEW ts, hd_evict!Get(k, ts) PROVE disk!Get(k, ts)
  BY <1>1, <1>3 DEF hd_evict!Get, disk!Get, hd_evict!Advance, disk!Advance
<1>4. ASSUME NEW k, NEW size, NEW ts, hd_evict!Put(k, size, ts)
      PROVE  disk!Put(k, size, ts)
  BY <1>1, <1>4 DEF hd_evict!Put, disk!Put, hd_evict!Advance, disk!Advance
<1>5. hd_evict!OverTarget <=> disk!OverTarget
  BY DEF hd_evict!OverTarget, disk!OverTarget
<1>6. \A k : hd_evict!Erase(k) => disk!Erase(k)
  BY <1>1 DEF hd_evict!Erase, disk!Erase, hd_evict!Restrict, disk!Restrict
<1>7. hd_evict!LoopBody => disk!LoopBody
  BY <1>1, <1>5, <1>6 DEF hd_evict!LoopBody, disk!LoopBody,
                          hd_evict!PurgeRegular, disk!PurgeRegular
<1>8. hd_evict!LoopExit => disk!LoopExit
  BY <1>5 DEF hd_evict!LoopExit, disk!LoopExit
<1>9. disk!Consistent => hd_evict!Consistent
  BY <1>1 DEF hd_evict!Consistent, disk!Consistent, hd_evict!Unrepeated, disk!Unrepeated,
              hd_evict!SumsTo, disk!SumsTo, hd_evict!DataOf, disk!DataOf
<1>10. disk!OldestAtTail => hd_evict!OldestAtTail
  BY DEF hd_evict!OldestAtTail, disk!OldestAtTail
<1>11. disk!OverfullOnlyInPut => hd_evict!FitsAtRest
  BY DEF hd_evict!FitsAtRest, disk!OverfullOnlyInPut
<1> QED BY <1>2, <1>3, <1>4, <1>7, <1>8, <1>9, <1>10, <1>11

\* The request under way has a key and a size.
RequestIsTyped ==
  phase \in {"check", "add"} => request.key \in Keys /\ request.size \in Nat

\* The object being put is there with the size that was asked for, and what
\* fits stays there.
PutHasRoom ==
  loop = "put" =>
    /\ request.key \in Resident => mapping[request.key].data = request.size
    /\ request.size <= hd_max_size_bytes => request.key \in Resident

DiskInv ==
  /\ PutIsInAdd /\ OriginAnswers
  /\ disk!IInv /\ disk!OverfullOnlyInPut
  /\ RequestIsTyped /\ LatestAtHead /\ PutHasRoom

LEMMA DiskInit == Init => DiskInv
<1> SUFFICES ASSUME Init PROVE DiskInv
  OBVIOUS
<1>1. disk!IInv
  BY DiskInstance, SameDisk, disk!InvariantInit DEF Init
<1>2. /\ DOMAIN mapping = {} /\ phase = "idle" /\ loop = "idle"
      /\ current_size = 0 /\ cache_filled_once = FALSE
  BY DEF Init, hd_evict!Init, em!Init, em!ChainInit
<1>3. disk!OverfullOnlyInPut
  BY <1>2, Lru2hcAssumption DEF disk!OverfullOnlyInPut
<1> QED BY <1>1, <1>2, <1>3, PutIsInAddInit
        DEF DiskInv, RequestIsTyped, LatestAtHead, PutHasRoom, Resident

\* An operation of the policy, with a key, a size and a time of the log.
LEMMA DiskOperation ==
  ASSUME DiskInv,
         \/ \E k \in Keys, ts \in 0..MaxTime : disk!Get(k, ts)
         \/ \E k \in Keys, size \in Nat, ts \in 0..MaxTime : disk!Put(k, size, ts)
         \/ disk!LoopBody
         \/ disk!LoopExit
         \/ UNCHANGED disk!vars
  PROVE  disk!IInv' /\ disk!OverfullOnlyInPut'
<1>1. [disk!Next]_disk!vars
  BY DEF disk!Next, disk!Work
<1>2. disk!TypeOK' /\ disk!Consistent'
  BY <1>1, DiskInstance, disk!TypeStep, disk!ConsistentStep DEF DiskInv, disk!IInv
<1>3. disk!RequestedByNow' /\ disk!OldestAtTail'
  BY <1>1, DiskInstance, disk!RequestedByNowStep, disk!OldestStep DEF DiskInv, disk!IInv
<1>4. disk!OverfullOnlyInPut'
  BY <1>1, DiskInstance, disk!OverfullStep DEF DiskInv, disk!IInv
<1> QED BY <1>2, <1>3, <1>4 DEF disk!IInv

\* Between operations only the time of the log moves.
LEMMA DiskWaits ==
  ASSUME DiskInv, UNCHANGED evictionVars, now' \in 0..MaxTime, now' >= now
  PROVE  disk!IInv' /\ disk!OverfullOnlyInPut'
<1> USE DEF DiskInv, disk!IInv, evictionVars
<1>1. disk!TypeOK'
  BY DEF disk!TypeOK
<1>2. disk!Consistent' /\ disk!OldestAtTail' /\ disk!OverfullOnlyInPut'
  BY DEF disk!Consistent, disk!DataOf, disk!OldestAtTail, disk!OverfullOnlyInPut
<1>3. disk!RequestedByNow'
  <2>1. \A k \in DOMAIN mapping : mapping[k].timestamp \in 0..MaxTime
    BY DEF disk!TypeOK, disk!Entries
  <2>2. now \in 0..MaxTime
    BY DEF disk!TypeOK
  <2> QED BY <2>1, <2>2, Lru2hcAssumption DEF disk!RequestedByNow
<1> QED BY <1>1, <1>2, <1>3

\* What the operations of the policy do to the object of a request.
LEMMA DiskServes ==
  ASSUME DiskInv
  PROVE  /\ now \in 0..MaxTime
         /\ \A k \in Keys : disk!Get(k, now) =>
              Head(list') = k /\ mapping'[k].timestamp = now
         /\ \A k \in Keys, size \in Nat : disk!Put(k, size, now) =>
              /\ Head(list') = k /\ k \in Resident'
              /\ mapping'[k].timestamp = now /\ mapping'[k].data = size
         /\ disk!LoopBody =>
              /\ Resident' \subseteq Resident
              /\ \A k \in Resident' : mapping'[k] = mapping[k]
              /\ Head(list) \in Resident' => Head(list') = Head(list)
              /\ \A k \in Resident : loop = "put" /\ k = Head(list)
                   /\ mapping[k].data <= hd_max_size_bytes => k \in Resident'
<1> USE DEF DiskInv, disk!IInv, Resident
<1>1. now \in 0..MaxTime
  BY DEF disk!TypeOK
<1>2. ASSUME NEW k \in Keys, disk!Get(k, now)
      PROVE  Head(list') = k /\ mapping'[k].timestamp = now
  <2>1. Head(list') = k
    BY <1>1, <1>2, DiskInstance, disk!HeadAfter
  <2>2. mapping[k] \in disk!Entries /\ k \in DOMAIN mapping
    BY <1>2 DEF disk!Get, disk!TypeOK
  <2>3. mapping'[k].timestamp = now
    BY <1>2, <2>2 DEF disk!Get, disk!Entries
  <2> QED BY <2>1, <2>3
<1>3. ASSUME NEW k \in Keys, NEW size \in Nat, disk!Put(k, size, now)
      PROVE  /\ Head(list') = k /\ k \in DOMAIN mapping'
             /\ mapping'[k].timestamp = now /\ mapping'[k].data = size
  <2>1. Head(list') = k
    BY <1>1, <1>3, DiskInstance, disk!HeadAfter
  <2> QED BY <1>3, <2>1 DEF disk!Put
<1>4. ASSUME disk!LoopBody
      PROVE  /\ DOMAIN mapping' \subseteq DOMAIN mapping
             /\ \A k \in DOMAIN mapping' : mapping'[k] = mapping[k]
             /\ Head(list) \in DOMAIN mapping' => Head(list') = Head(list)
             /\ \A k \in DOMAIN mapping : loop = "put" /\ k = Head(list)
                  /\ mapping[k].data <= hd_max_size_bytes => k \in DOMAIN mapping'
  <2>1. /\ DOMAIN mapping' \subseteq DOMAIN mapping
        /\ \A k \in DOMAIN mapping' : mapping'[k] = mapping[k]
    BY <1>4 DEF disk!LoopBody, disk!PurgeRegular, disk!Erase, disk!Restrict
  <2>2. Head(list) \in DOMAIN mapping' => Head(list') = Head(list)
    BY <1>4, DiskInstance, disk!HeadAfter
  <2>3. [disk!Next]_disk!vars
    BY <1>4 DEF disk!Next, disk!Work
  <2>4. ASSUME NEW k \in DOMAIN mapping \ DOMAIN mapping', loop = "put", k = Head(list)
        PROVE  mapping[k].data > hd_max_size_bytes
    BY <2>3, <2>4, DiskInstance, disk!LostAlone
  <2>5. \A k \in DOMAIN mapping : mapping[k].data \in Nat
    BY DEF disk!TypeOK, disk!Entries
  <2> QED BY <2>1, <2>2, <2>4, <2>5, Lru2hcAssumption
<1> QED BY <1>1, <1>2, <1>3, <1>4

LEMMA DiskStep == DiskInv /\ [Next]_vars => DiskInv'
<1> SUFFICES ASSUME DiskInv, [Next]_vars PROVE DiskInv'
  OBVIOUS
<1>1. PutIsInAdd' /\ OriginAnswers'
  BY PutIsInAddStep DEF DiskInv
<1>2. /\ PutIsInAdd /\ RequestIsTyped /\ LatestAtHead /\ PutHasRoom
      /\ now \in 0..MaxTime
  BY DiskServes DEF DiskInv
<1> DEFINE Served == RequestIsTyped' /\ LatestAtHead' /\ PutHasRoom'
<1> USE DEF RequestIsTyped, LatestAtHead, PutHasRoom, Resident
<1>3. ASSUME NEW line \in Lines, NEW ts \in FirstTime..MaxTime, ReadLine(line, ts)
      PROVE  DiskInv'
  <2>1. /\ phase' = "check" /\ now' = ts /\ ts >= now
        /\ request' = [key |-> em!KeyOf(line), size |-> em!SizeOf(line)]
        /\ em!Accepted(line) /\ UNCHANGED evictionVars
    BY <1>3 DEF ReadLine, em!ReadLine, em!Call
  <2>2. now' \in 0..MaxTime
    BY <2>1, Lru2hcAssumption
  <2>3. request'.key \in Keys /\ request'.size \in Nat
    BY <2>1, Lru2hcAssumption
  <2>4. loop' # "put"
    BY <1>1, <2>1 DEF PutIsInAdd
  <2> QED BY <1>1, <2>1, <2>2, <2>3, <2>4, DiskWaits DEF DiskInv
<1>4. CASE Hit
  <2>1. /\ phase = "check" /\ phase' = "returned" /\ request' = request /\ now' = now
        /\ disk!Get(request.key, now) /\ loop' = "idle"
    BY <1>4, SameDisk DEF Hit, replayVars, hd_evict!Get
  <2>2. Head(list') = request.key /\ mapping'[request.key].timestamp = now
    BY <1>2, <2>1, DiskServes
  <2>3. disk!IInv' /\ disk!OverfullOnlyInPut'
    BY <1>2, <2>1, DiskOperation
  <2> QED BY <1>1, <2>1, <2>2, <2>3 DEF DiskInv
<1>5. CASE Miss
  <2>1. /\ UNCHANGED <<evictionVars, request, now>>
        /\ request.key \notin DOMAIN mapping /\ phase = "check" /\ loop' = "idle"
    BY <1>2, <1>5 DEF Miss, replayVars, evictionVars, PutIsInAdd
  <2>2. disk!IInv' /\ disk!OverfullOnlyInPut'
    BY <1>2, <2>1, DiskWaits
  <2> QED BY <1>1, <1>2, <2>1, <2>2 DEF DiskInv, evictionVars
<1>6. CASE Add
  <2>1. phase = "add" /\ request' = request /\ now' = now /\ loop = "idle"
    BY <1>6 DEF Add, replayVars
  <2>2. CASE admitted'
    <3>1. disk!Put(request.key, request.size, now) /\ phase' = "add"
      BY <1>6, <2>1, <2>2, SameDisk DEF Add
    <3>2. /\ Head(list') = request.key /\ request.key \in DOMAIN mapping'
          /\ mapping'[request.key].timestamp = now
          /\ mapping'[request.key].data = request.size
      BY <1>2, <2>1, <3>1, DiskServes
    <3>3. disk!IInv' /\ disk!OverfullOnlyInPut'
      BY <1>2, <2>1, <3>1, DiskOperation
    <3> QED BY <1>1, <1>2, <2>1, <3>1, <3>2, <3>3 DEF DiskInv
  <2>3. CASE ~admitted'
    <3>1. UNCHANGED evictionVars /\ phase' = "returned"
      BY <1>6, <2>3 DEF Add
    <3>2. disk!IInv' /\ disk!OverfullOnlyInPut'
      BY <1>2, <2>1, <3>1, DiskWaits
    <3> QED BY <1>1, <1>2, <2>1, <3>1, <3>2 DEF DiskInv, evictionVars
  <2> QED BY <2>2, <2>3
<1>7. CASE PurgeOne
  <2>1. /\ phase = "add" /\ phase' = "add" /\ request' = request /\ now' = now
        /\ loop = "put" /\ disk!LoopBody
    BY <1>2, <1>7, SameDisk DEF PurgeOne, replayVars, PutIsInAdd,
                                hd_evict!LoopBody, hd_evict!OverTarget
  <2>2. /\ DOMAIN mapping' \subseteq DOMAIN mapping
        /\ \A k \in DOMAIN mapping' : mapping'[k] = mapping[k]
        /\ Head(list) \in DOMAIN mapping' => Head(list') = Head(list)
        /\ \A k \in DOMAIN mapping : loop = "put" /\ k = Head(list)
             /\ mapping[k].data <= hd_max_size_bytes => k \in DOMAIN mapping'
    BY <2>1, DiskServes
  <2>3. disk!IInv' /\ disk!OverfullOnlyInPut'
    BY <2>1, DiskOperation
  <2>4. LatestAtHead' /\ PutHasRoom'
    BY <1>2, <2>1, <2>2
  <2> QED BY <1>1, <1>2, <2>1, <2>3, <2>4 DEF DiskInv
<1>8. CASE Added
  <2>1. /\ phase = "add" /\ phase' = "returned" /\ loop' = "idle"
        /\ UNCHANGED <<request, now, list, mapping>> /\ disk!LoopExit
    BY <1>8, SameDisk DEF Added, replayVars, hd_evict!LoopExit
  <2>2. disk!IInv' /\ disk!OverfullOnlyInPut'
    BY <2>1, DiskOperation
  <2> QED BY <1>1, <1>2, <2>1, <2>2 DEF DiskInv
<1>9. CASE Periodic
  <2>1. /\ UNCHANGED <<evictionVars, request, now>>
        /\ phase \in {"returned", "reported"} /\ phase' \in {"reported", "idle"}
    BY <1>9 DEF Periodic, em!PeriodicReport, em!PeriodicPurge, em!Report, em!Purge
  <2>2. disk!IInv' /\ disk!OverfullOnlyInPut'
    BY <1>2, <2>1, DiskWaits
  <2>3. loop' # "put"
    BY <1>1, <2>1 DEF PutIsInAdd
  <2> QED BY <1>1, <1>2, <2>1, <2>2, <2>3 DEF DiskInv, evictionVars
<1>10. CASE UNCHANGED vars
  <2>1. UNCHANGED <<evictionVars, request, now, phase>>
    BY <1>10 DEF vars, replayVars
  <2>2. disk!IInv' /\ disk!OverfullOnlyInPut'
    BY <1>2, <2>1, DiskWaits
  <2> QED BY <1>1, <1>2, <2>1, <2>2 DEF DiskInv, evictionVars
<1> QED BY <1>3, <1>4, <1>5, <1>6, <1>7, <1>8, <1>9, <1>10 DEF Next, Process

\* The disk of the shipped program, for every log and every capacity: its map,
\* list and counts agree, it is never overfull when a line is read, and its
\* objects stand in the order in which the log asked for them.
THEOREM DiskIsKept == Spec => []DiskIsLRU
<1>1. DiskInv => DiskIsLRU
  BY SameDisk DEF DiskInv, disk!IInv, DiskIsLRU
<1> QED BY <1>1, DiskInit, DiskStep, PTL DEF Spec

-------------------------------------------------------------------------------
(* What is missed often is kept *)

\* The filters do not age between two checks: the time of the log moves alone.
LEMMA FiltersWait ==
  ASSUME sh!RotInv, UNCHANGED admissionVars, now' \in 0..MaxTime, now' >= now
  PROVE  sh!RotInv'
<1> USE DEF sh!RotInv, admissionVars
<1>1. sh!TypeOK'
  BY DEF sh!TypeOK
<1>2. sh!SoleBuckets' /\ sh!Retained' /\ sh!RotatingExact'
  BY DEF sh!SoleBuckets, sh!Retained, sh!Whereabouts, sh!RotatingExact
<1>3. sh!InThePast'
  <2>1. entries[1].init_time \in Nat
    BY FiltersInstance, sh!HeadType
  <2>2. \A k \in Keys : \A i \in 1..Len(seen[k]) : seen[k][i] \in Nat
    <3> SUFFICES ASSUME NEW k \in Keys, NEW i \in 1..Len(seen[k])
                 PROVE  seen[k][i] \in Nat
      OBVIOUS
    <3>1. seen[k] \in Seq(0..MaxTime)
      BY DEF sh!TypeOK
    <3> QED BY <3>1, ElementOfSeq, Lru2hcAssumption
  <2>3. now \in Nat /\ now' \in Nat
    BY Lru2hcAssumption DEF sh!TypeOK
  <2> QED BY <2>1, <2>2, <2>3 DEF sh!InThePast
<1> QED BY <1>1, <1>2, <1>3

FiltersInv == DiskInv /\ sh!RotInv

LEMMA FiltersInit == Init => FiltersInv
BY DiskInit, SameFilters, FiltersInstance, sh!RotInit DEF Init, FiltersInv

LEMMA FiltersStep == FiltersInv /\ [Next]_vars => FiltersInv'
<1> SUFFICES ASSUME FiltersInv, [Next]_vars PROVE sh!RotInv'
  BY DiskStep DEF FiltersInv
<1>1. DiskInv /\ sh!RotInv /\ now \in 0..MaxTime
  BY DiskServes DEF FiltersInv
<1>2. ASSUME NEW line \in Lines, NEW ts \in FirstTime..MaxTime, ReadLine(line, ts)
      PROVE  sh!RotInv'
  <2>1. UNCHANGED admissionVars /\ now' = ts /\ ts >= now
    BY <1>2 DEF ReadLine, em!ReadLine
  <2>2. now' \in 0..MaxTime
    BY <2>1, Lru2hcAssumption
  <2> QED BY <1>1, <2>1, <2>2, FiltersWait
<1>3. CASE Add
  <2>1. sh!Check(request.key, FALSE, now) /\ request.key \in Keys
    BY <1>1, <1>3, SameFilters DEF Add, DiskInv, RequestIsTyped
  <2>2. sh!Next
    BY <1>1, <2>1 DEF sh!Next
  <2> QED BY <1>1, <2>2, FiltersInstance, sh!RotStep
<1>4. CASE UNCHANGED <<admissionVars, now>>
  BY <1>1, <1>4, FiltersWait
<1>5. Hit \/ Miss \/ PurgeOne \/ Added \/ Periodic \/ UNCHANGED vars
        => UNCHANGED <<admissionVars, now>>
  BY DEF Hit, Miss, PurgeOne, Added, Periodic, vars, replayVars, admissionVars,
         em!PeriodicReport, em!PeriodicPurge
<1> QED BY <1>2, <1>3, <1>4, <1>5 DEF Next, Process

\* The safety half of N-hit caching, from end to end and for every log: an
\* object that was missed in the last bf_reset_int seconds and is missed again
\* is on the disk when its request returns, unless it could never fit.  For
\* the program as it is shipped and every NVAL up to one; with two and more the
\* filters may forget a key in between (see the run third_hit).
THEOREM MissedTwiceIsKept ==
  ASSUME NVAL <= 1
  PROVE  Spec => NHitIsKept
<1> DEFINE Kept == /\ phase = "add" /\ phase' = "returned"
                   /\ request.size <= hd_max_size_bytes
                   /\ HeardOfOften(request.key)
                   => request.key \in Resident'
<1>1. ASSUME FiltersInv, [Next]_vars PROVE [Kept]_vars
  <2> SUFFICES ASSUME phase = "add", phase' = "returned",
                      request.size <= hd_max_size_bytes,
                      HeardOfOften(request.key)
               PROVE  request.key \in Resident'
    OBVIOUS
  <2>1. DiskInv /\ sh!RotInv /\ now \in 0..MaxTime /\ request.key \in Keys
    BY <1>1, DiskServes DEF FiltersInv, DiskInv, RequestIsTyped
  <2>2. Add \/ Added
    BY <1>1 DEF Next, Process, ReadLine, em!ReadLine, em!Call, Hit, Miss, PurgeOne,
                Periodic, em!PeriodicReport, em!PeriodicPurge, vars
  <2>3. CASE Add
    <3>1. sh!NHitAdmits
      BY <2>1, FiltersInstance, sh!HeardIsFound
    <3>2. sh!WouldAdmit(request.key, now)
      <4>1. now \in now..MaxTime
        BY <2>1, Lru2hcAssumption
      <4> QED BY <2>1, <3>1, <4>1 DEF sh!NHitAdmits, HeardOfOften
    <3>3. sh!Check(request.key, FALSE, now)
      BY <2>3, SameFilters DEF Add
    <3>4. admitted'
      BY <3>2, <3>3 DEF sh!Check, sh!WouldAdmit
    <3> QED BY <2>3, <3>4 DEF Add
  <2>4. CASE Added
    <3>1. loop = "put" /\ UNCHANGED mapping
      BY <2>1, <2>4 DEF Added, hd_evict!LoopExit, DiskInv, PutIsInAdd
    <3> QED BY <2>1, <3>1 DEF DiskInv, PutHasRoom, Resident
  <2> QED BY <2>2, <2>3, <2>4
<1>2. FiltersInv /\ [Next]_vars => [Kept]_vars
  BY <1>1
<1> QED BY <1>2, FiltersInit, FiltersStep, PTL DEF Spec, NHitIsKept
===================================================================================
