----------------------------- MODULE EmulatorProofs -----------------------------
(***************************************************************************)
(* Theorems about the replay of a log, for every number of layers, every   *)
(* policy of theirs, every log and every interval of the two timers.       *)
(***************************************************************************)
EXTENDS LogReplay, WellFoundedInduction, TLAPS

-------------------------------------------------------------------------------
(* The inductive invariant *)

\* A request has reached the layer, which has not looked for it yet.
Asks(i) == phase = "check" /\ layer = i

\* What of the request under way the layer has still to count.
Pending(i) == IF Asks(i) THEN 1 ELSE 0
PendingBytes(i) == IF Asks(i) THEN request.size ELSE 0

\* The request under way is one the infinite cache has seen.
RequestKnown ==
  phase \in {"check", "add"} =>
    request.key \in requested_item_map /\ request.size \in Nat

\* LayersAddUp at every moment: a request is counted by the layer it has
\* reached, or is yet to be.
AddsUp ==
  /\ stats[1].hit + stats[1].miss + Pending(1) = number_of_urls
  /\ stats[1].byte_hit + stats[1].byte_miss + PendingBytes(1) = traffic
  /\ \A i \in 1..Depth - 1 :
       /\ stats[i].miss = stats[i+1].hit + stats[i+1].miss + Pending(i+1)
       /\ stats[i].byte_miss
            = stats[i+1].byte_hit + stats[i+1].byte_miss + PendingBytes(i+1)
       /\ stats[i].reads_from_origin = 0
  /\ stats[Depth].reads_from_origin = stats[Depth].byte_miss

\* A layer holds only what was requested; so what the infinite cache missed,
\* every layer misses: the last has, or is about to.
MissedEverywhere ==
  /\ infinite["hit"] + infinite["miss"] = number_of_urls
  /\ infinite["hit_bytes"] + infinite["miss_bytes"] = traffic
  /\ \A i \in Layers : contents[i] \subseteq requested_item_map
  /\ \/ /\ infinite["miss"] <= stats[Depth].miss
        /\ infinite["miss_bytes"] <= stats[Depth].byte_miss
     \/ /\ phase = "check"
        /\ infinite["miss"] <= stats[Depth].miss + 1
        /\ infinite["miss_bytes"] <= stats[Depth].byte_miss + request.size
        /\ \A i \in Layers : request.key \notin contents[i]

IInv == TypeOK /\ RequestKnown /\ AddsUp /\ MissedEverywhere

-------------------------------------------------------------------------------
(* What the steps count *)

\* A counter of a layer is a number.
LEMMA CounterIsNat ==
  ASSUME ChainTypeOK, NEW i \in Layers
  PROVE  /\ stats[i].hit \in Nat /\ stats[i].miss \in Nat
         /\ stats[i].byte_hit \in Nat /\ stats[i].byte_miss \in Nat
         /\ stats[i].reads_from_origin \in Nat
BY DEF ChainTypeOK, Counters, RequestCounters

LEMMA BlocksIsNat == ASSUME NEW n \in Nat PROVE Blocks(n) \in Nat
BY ChainAssumption DEF Blocks

\* A hit is counted by the layer that has the object, in objects and bytes.
LEMMA HitCounts ==
  ASSUME ChainTypeOK, request.size \in Nat, Hit
  PROVE  /\ stats' \in [Layers -> [Counters -> Nat]]
         /\ \A i \in Layers :
              /\ stats'[i].hit = stats[i].hit + Pending(i)
              /\ stats'[i].byte_hit = stats[i].byte_hit + PendingBytes(i)
              /\ stats'[i].miss = stats[i].miss
              /\ stats'[i].byte_miss = stats[i].byte_miss
              /\ stats'[i].reads_from_origin = stats[i].reads_from_origin
<1>1. layer \in Layers /\ phase = "check" /\ Blocks(request.size) \in Nat
  BY BlocksIsNat DEF ChainTypeOK, Hit
<1>2. \A i \in Layers : stats[i] \in [Counters -> Nat]
  BY DEF ChainTypeOK
<1>3. stats' = [stats EXCEPT ![layer].hit = @ + 1,
                             ![layer].byte_hit = @ + request.size,
                             ![layer].number_of_reads = @ + Blocks(request.size)]
  BY DEF Hit
<1>4. stats' = [stats EXCEPT ![layer] =
                 [stats[layer] EXCEPT !["hit"] = @ + 1,
                                      !["byte_hit"] = @ + request.size,
                                      !["number_of_reads"] = @ + Blocks(request.size)]]
  BY <1>1, <1>3 DEF ChainTypeOK
<1> QED BY <1>1, <1>2, <1>4
        DEF ChainTypeOK, Counters, RequestCounters, DiskCounters,
            Pending, PendingBytes, Asks

\* A miss is counted by the layer, and by the last one as a read from the
\* origin.
LEMMA MissCounts ==
  ASSUME ChainTypeOK, request.size \in Nat, Miss
  PROVE  /\ stats' \in [Layers -> [Counters -> Nat]]
         /\ \A i \in Layers :
              /\ stats'[i].miss = stats[i].miss + Pending(i)
              /\ stats'[i].byte_miss = stats[i].byte_miss + PendingBytes(i)
              /\ stats'[i].hit = stats[i].hit
              /\ stats'[i].byte_hit = stats[i].byte_hit
              /\ stats'[i].reads_from_origin
                   = stats[i].reads_from_origin + IF i = Depth THEN PendingBytes(i) ELSE 0
<1>1. layer \in Layers /\ phase = "check" /\ layer \in Nat /\ Depth \in Nat
  BY ChainAssumption DEF ChainTypeOK, Miss, Layers
<1>2. \A i \in Layers : stats[i] \in [Counters -> Nat]
  BY DEF ChainTypeOK
<1>3. CASE layer < Depth
  <2>1. stats' = [stats EXCEPT ![layer] =
                   [stats[layer] EXCEPT !["miss"] = @ + 1,
                                        !["byte_miss"] = @ + request.size]]
    BY <1>1, <1>3 DEF Miss, ChainTypeOK
  <2>2. stats' \in [Layers -> [Counters -> Nat]]
    BY <1>1, <1>2, <2>1 DEF ChainTypeOK, Counters, RequestCounters, DiskCounters
  <2>3. \A i \in Layers \ {layer} : stats'[i] = stats[i] /\ ~Asks(i)
    BY <2>1 DEF ChainTypeOK, Asks
  <2>4. /\ Asks(layer) /\ layer # Depth
        /\ stats'[layer].miss = stats[layer].miss + 1
        /\ stats'[layer].byte_miss = stats[layer].byte_miss + request.size
        /\ \A c \in {"hit", "byte_hit", "reads_from_origin"} :
             stats'[layer][c] = stats[layer][c]
    BY <1>1, <1>2, <1>3, <2>1 DEF ChainTypeOK, Counters, RequestCounters, Asks
  <2> QED BY <2>2, <2>3, <2>4, CounterIsNat DEF Pending, PendingBytes
<1>4. CASE layer = Depth
  <2>1. stats' = [stats EXCEPT ![layer] =
                   [stats[layer] EXCEPT !["miss"] = @ + 1,
                                        !["byte_miss"] = @ + request.size,
                                        !["reads_from_origin"] = @ + request.size]]
    BY <1>1, <1>4 DEF Miss, ChainTypeOK
  <2> QED BY <1>1, <1>2, <1>4, <2>1
          DEF ChainTypeOK, Counters, RequestCounters, DiskCounters,
              Pending, PendingBytes, Asks
<1> QED BY <1>1, <1>3, <1>4 DEF ChainTypeOK, Layers

\* Adding an object counts writes alone.
LEMMA AddCounts ==
  ASSUME ChainTypeOK, request.size \in Nat, Admit \/ Refuse
  PROVE  /\ stats' \in [Layers -> [Counters -> Nat]]
         /\ \A i \in Layers, c \in RequestCounters : stats'[i][c] = stats[i][c]
<1>1. layer \in Layers /\ Blocks(request.size) \in Nat
  BY BlocksIsNat DEF ChainTypeOK
<1>2. \A i \in Layers : stats[i] \in [Counters -> Nat]
  BY DEF ChainTypeOK
<1>3. CASE Admit
  <2>1. stats' = [stats EXCEPT ![layer] =
                   [stats[layer] EXCEPT !["number_of_writes"] = @ + Blocks(request.size)]]
    BY <1>1, <1>3 DEF Admit, ChainTypeOK
  <2> QED BY <1>1, <1>2, <2>1 DEF ChainTypeOK, Counters, RequestCounters, DiskCounters
<1>4. CASE Refuse
  BY <1>4 DEF Refuse, ChainTypeOK
<1> QED BY <1>3, <1>4

\* Asking for an object writes nothing.
LEMMA WritesUncounted ==
  ASSUME ChainTypeOK, Hit \/ Miss, NEW i \in Layers
  PROVE  stats'[i].number_of_writes = stats[i].number_of_writes
<1>1. layer \in Layers /\ stats[i] \in [Counters -> Nat]
  BY DEF ChainTypeOK
<1>2. CASE Hit
  BY <1>1, <1>2 DEF Hit, ChainTypeOK, Counters, DiskCounters, RequestCounters
<1>3. CASE Miss
  BY <1>1, <1>3 DEF Miss, ChainTypeOK, Counters, DiskCounters, RequestCounters
<1> QED BY <1>2, <1>3

\* A report leaves every counter at zero.
LEMMA ReportCounts ==
  ASSUME ResetCounters
  PROVE  /\ stats' \in [Layers -> [Counters -> Nat]]
         /\ \A i \in Layers, c \in RequestCounters : stats'[i][c] = 0
BY DEF ResetCounters, periodic_output, reset_disk_counters, clear_counters, Cleared,
       Counters, RequestCounters, DiskCounters

-------------------------------------------------------------------------------
(* Type correctness *)

\* Where the thread goes when an activation of process ends.
LEMMA Returns ==
  ASSUME ChainTypeOK, NEW v \in BOOLEAN, Return(v)
  PROVE  phase' \in {"add", "returned"} /\ layer' \in Layers /\ answer' \in BOOLEAN
<1>1. layer \in Layers /\ Depth \in Nat
  BY ChainAssumption DEF ChainTypeOK
<1> QED BY <1>1 DEF Return, Layers

\* A step of the recursion keeps the types, and takes no object from
\* anywhere but the request.
LEMMA ProcessType ==
  ASSUME TypeOK, RequestKnown, Process, UNCHANGED globalVars
  PROVE  /\ TypeOK'
         /\ phase' \in {"check", "add", "returned"}
         /\ UNCHANGED request
         /\ \A i \in Layers : contents'[i] \subseteq contents[i] \cup {request.key}
<1>1. ChainTypeOK /\ phase \in {"check", "add"}
  BY DEF TypeOK, Process, Hit, Miss, Admit, MayAdd, Refuse
<1>2. request.key \in Keys /\ request.size \in Nat
  BY <1>1 DEF RequestKnown, TypeOK
<1>3. UNCHANGED settings
  BY DEF Process, Hit, Miss, Admit, Refuse
<1>4. CASE Hit
  <2>1. UNCHANGED contents /\ Return(TRUE)
    BY <1>4 DEF Hit
  <2> QED BY <1>1, <1>2, <1>3, <1>4, <2>1, HitCounts, Returns
          DEF Hit, TypeOK, ChainTypeOK, globalVars, settings, Phases
<1>5. CASE Miss
  <2>1. \A i \in Layers : contents'[i] \subseteq contents[i]
    BY <1>1, <1>5 DEF Miss, NotFound, ChainTypeOK
  <2>2. contents' \in [Layers -> SUBSET Keys]
    BY <1>1, <1>5 DEF Miss, NotFound, ChainTypeOK
  <2>3. phase' \in {"check", "add"} /\ layer' \in Layers /\ answer' \in BOOLEAN
    <3>1. layer \in 1..Depth /\ Depth \in Nat /\ phase = "check" /\ answer \in BOOLEAN
      BY <1>1, <1>5, ChainAssumption DEF Miss, ChainTypeOK, Layers
    <3>2. CASE layer < Depth
      <4>1. layer' = layer + 1 /\ UNCHANGED <<phase, answer>>
        BY <1>5, <3>2 DEF Miss
      <4> QED BY <3>1, <3>2, <4>1 DEF Layers
    <3>3. CASE ~(layer < Depth)
      BY <1>1, <1>5, <3>1, <3>3 DEF Miss, ChainTypeOK
    <3> QED BY <3>2, <3>3
  <2> QED BY <1>1, <1>2, <1>3, <1>5, <2>1, <2>2, <2>3, MissCounts
          DEF Miss, TypeOK, ChainTypeOK, globalVars, settings, Phases
<1>6. CASE Admit
  <2>1. PICK lost \in SUBSET (contents[layer] \cup {request.key}) :
          contents' = [contents EXCEPT ![layer] = (@ \cup {request.key}) \ lost]
    BY <1>6 DEF Admit
  <2>2. /\ contents' \in [Layers -> SUBSET Keys]
        /\ \A i \in Layers : contents'[i] \subseteq contents[i] \cup {request.key}
    BY <1>1, <1>2, <2>1 DEF ChainTypeOK
  <2> QED BY <1>1, <1>2, <1>3, <1>6, <2>2, AddCounts, Returns
          DEF Admit, TypeOK, ChainTypeOK, globalVars, settings, Phases
<1>7. CASE Refuse
  BY <1>1, <1>2, <1>3, <1>7, AddCounts, Returns
  DEF Refuse, TypeOK, ChainTypeOK, globalVars, settings, Phases
<1> QED BY <1>4, <1>5, <1>6, <1>7 DEF Process

LEMMA TypeStep ==
  ASSUME TypeOK, RequestKnown, [Next]_vars
  PROVE  TypeOK'
<1> USE EmulatorAssumption
<1>1. ASSUME NEW line \in Lines, NEW ts \in FirstTime..MaxTime, ReadLine(line, ts)
      PROVE  TypeOK'
  <2>1. KeyOf(line) \in Keys /\ SizeOf(line) \in Nat
    BY <1>1, LinesAssumption DEF ReadLine
  <2>2. infinite' \in [InfiniteCounters -> Nat] /\ requested_item_map' \subseteq Keys
    BY <1>1, <2>1 DEF ReadLine, CountInfinite, TypeOK, InfiniteCounters
  <2>3. 1 \in Layers
    BY ChainAssumption DEF Layers
  <2>4. ChainTypeOK'
    BY <1>1, <2>3 DEF ReadLine, Call, TypeOK, ChainTypeOK, Phases, settings
  <2>5. number_of_urls' \in 0..MaxUrls /\ now' \in 0..MaxTime /\ traffic' \in Nat
    BY <1>1, <2>1 DEF ReadLine, TypeOK
  <2> QED BY <1>1, <2>2, <2>4, <2>5 DEF ReadLine, TypeOK
<1>2. CASE ProcessStep
  BY <1>2, ProcessType DEF ProcessStep
<1>3. CASE PeriodicReport
  <2>1. stats' \in [Layers -> [Counters -> Nat]]
    BY <1>3, ReportCounts DEF PeriodicReport, Report, TypeOK, ChainTypeOK
  <2>2. NothingInfinite \in [InfiniteCounters -> Nat]
    BY DEF NothingInfinite, InfiniteCounters
  <2> HIDE DEF NothingInfinite
  <2> QED BY <1>3, <2>1, <2>2
          DEF PeriodicReport, Report, TypeOK, ChainTypeOK, Phases, settings
<1>4. CASE PeriodicPurge
  <2>1. contents' \in [Layers -> SUBSET Keys]
    BY <1>4 DEF PeriodicPurge, Purge, TypeOK, ChainTypeOK
  <2> QED BY <1>4, <2>1 DEF PeriodicPurge, Purge, TypeOK, ChainTypeOK, Phases, settings
<1>5. CASE UNCHANGED vars
  BY <1>5 DEF vars, chainVars, globalVars, settings, TypeOK, ChainTypeOK
<1> QED BY <1>1, <1>2, <1>3, <1>4, <1>5 DEF Next

\* The request under way has been counted by the infinite cache.
LEMMA RequestKnownStep ==
  ASSUME TypeOK, RequestKnown, [Next]_vars
  PROVE  RequestKnown'
<1>1. ASSUME NEW line \in Lines, NEW ts \in FirstTime..MaxTime, ReadLine(line, ts)
      PROVE  RequestKnown'
  BY <1>1, LinesAssumption DEF ReadLine, Call, CountInfinite, RequestKnown
<1>2. CASE ProcessStep
  <2>1. phase \in {"check", "add"} /\ UNCHANGED <<request, requested_item_map>>
    BY <1>2, ProcessType
    DEF ProcessStep, globalVars, Process, Hit, Miss, Admit, MayAdd, Refuse
  <2> QED BY <2>1 DEF RequestKnown
<1>3. CASE PeriodicReport \/ PeriodicPurge
  BY <1>3 DEF PeriodicReport, PeriodicPurge, RequestKnown
<1>4. CASE UNCHANGED vars
  BY <1>4 DEF vars, chainVars, globalVars, RequestKnown
<1> QED BY <1>1, <1>2, <1>3, <1>4 DEF Next

-------------------------------------------------------------------------------
(* The layers add up *)

\* Nothing is pending but in phase "check".
LEMMA NothingPending ==
  ASSUME phase # "check", NEW i
  PROVE  Pending(i) = 0 /\ PendingBytes(i) = 0
BY DEF Pending, PendingBytes, Asks

\* What is pending in a layer, in numbers.
LEMMA PendingIsNat ==
  ASSUME RequestKnown, NEW i
  PROVE  Pending(i) \in Nat /\ PendingBytes(i) \in Nat
BY DEF Pending, PendingBytes, Asks, RequestKnown

\* A layer that misses leaves to the next what was pending in it.
LEMMA MissPasses ==
  ASSUME TypeOK, RequestKnown, Miss
  PROVE  /\ Pending(1)' = 0 /\ PendingBytes(1)' = 0
         /\ \A i \in 1..Depth-1 :
              /\ Pending(i+1)' = Pending(i)
              /\ PendingBytes(i+1)' = PendingBytes(i)
<1>1. layer \in 1..Depth /\ Depth \in Nat /\ phase = "check"
  BY ChainAssumption DEF TypeOK, ChainTypeOK, Layers, Miss
<1>2. UNCHANGED request
  BY DEF Miss
<1>3. CASE layer < Depth
  <2>1. layer' = layer + 1 /\ phase' = "check"
    BY <1>1, <1>3 DEF Miss
  <2> QED BY <1>1, <1>2, <2>1 DEF Pending, PendingBytes, Asks
<1>4. CASE ~(layer < Depth)
  <2>1. layer = Depth /\ phase' = "add"
    BY <1>1, <1>4 DEF Miss
  <2> QED BY <1>1, <2>1 DEF Pending, PendingBytes, Asks
<1> QED BY <1>3, <1>4

LEMMA AddsUpStep ==
  ASSUME TypeOK, RequestKnown, AddsUp, [Next]_vars
  PROVE  AddsUp'
<1> DEFINE Inner == 1..Depth-1
<1>0. /\ Depth \in Nat /\ Depth >= 1 /\ 1 \in Layers /\ Depth \in Layers
      /\ \A i \in Inner : i \in Layers /\ i+1 \in Layers /\ i # Depth
  BY ChainAssumption DEF Layers
<1>00. \A i \in Layers : /\ stats[i].hit \in Nat /\ stats[i].miss \in Nat
                         /\ stats[i].byte_hit \in Nat /\ stats[i].byte_miss \in Nat
                         /\ stats[i].reads_from_origin \in Nat
                         /\ Pending(i) \in Nat /\ PendingBytes(i) \in Nat
  BY CounterIsNat, PendingIsNat DEF TypeOK
<1>1. ASSUME NEW line \in Lines, NEW ts \in FirstTime..MaxTime, ReadLine(line, ts)
      PROVE  AddsUp'
  <2>1. phase = "idle" /\ phase' = "check" /\ layer' = 1 /\ UNCHANGED stats
        /\ request'.size = SizeOf(line)
    BY <1>1 DEF ReadLine, Call, settings
  <2>2. /\ Pending(1)' = 1 /\ PendingBytes(1)' = SizeOf(line)
        /\ \A i \in Inner : Pending(i+1)' = 0 /\ PendingBytes(i+1)' = 0
    BY <1>0, <2>1 DEF Pending, PendingBytes, Asks
  <2>3. /\ Pending(1) = 0 /\ PendingBytes(1) = 0
        /\ \A i \in Inner : Pending(i+1) = 0 /\ PendingBytes(i+1) = 0
    BY <2>1, NothingPending
  <2>4. number_of_urls' = number_of_urls + 1 /\ traffic' = traffic + SizeOf(line)
        /\ SizeOf(line) \in Nat
    BY <1>1, LinesAssumption DEF ReadLine
  <2> HIDE DEF Inner
  <2>5. /\ stats[1].hit + stats[1].miss + 1 = number_of_urls'
        /\ stats[1].byte_hit + stats[1].byte_miss + SizeOf(line) = traffic'
    BY <1>0, <1>00, <2>3, <2>4 DEF AddsUp
  <2> QED BY <1>0, <1>00, <2>1, <2>2, <2>3, <2>5 DEF AddsUp, Inner
<1>2. ASSUME Hit, UNCHANGED globalVars PROVE AddsUp'
  <2>1. request.size \in Nat /\ phase' # "check"
    BY <1>2, ProcessType, Returns DEF Process, RequestKnown, Hit, TypeOK
  <2>2. \A i \in Layers : Pending(i)' = 0 /\ PendingBytes(i)' = 0
    BY <2>1 DEF Pending, PendingBytes, Asks
  <2>3. \A i \in Layers :
          /\ stats'[i].hit = stats[i].hit + Pending(i)
          /\ stats'[i].byte_hit = stats[i].byte_hit + PendingBytes(i)
          /\ stats'[i].miss = stats[i].miss
          /\ stats'[i].byte_miss = stats[i].byte_miss
          /\ stats'[i].reads_from_origin = stats[i].reads_from_origin
    BY <1>2, <2>1, HitCounts DEF TypeOK
  <2>4. UNCHANGED <<number_of_urls, traffic>>
    BY <1>2 DEF globalVars
  <2>5. \A i \in Layers :
          /\ stats'[i].hit + stats'[i].miss + Pending(i)'
               = stats[i].hit + stats[i].miss + Pending(i)
          /\ stats'[i].byte_hit + stats'[i].byte_miss + PendingBytes(i)'
               = stats[i].byte_hit + stats[i].byte_miss + PendingBytes(i)
    BY <1>00, <2>2, <2>3
  <2> QED BY <1>0, <2>3, <2>4, <2>5 DEF AddsUp
<1>3. ASSUME Miss, UNCHANGED globalVars PROVE AddsUp'
  <2>1. phase = "check" /\ request.size \in Nat
    BY <1>3 DEF Miss, RequestKnown
  <2>2. \A i \in Layers :
          /\ stats'[i].miss = stats[i].miss + Pending(i)
          /\ stats'[i].byte_miss = stats[i].byte_miss + PendingBytes(i)
          /\ stats'[i].hit = stats[i].hit
          /\ stats'[i].byte_hit = stats[i].byte_hit
          /\ stats'[i].reads_from_origin
               = stats[i].reads_from_origin + IF i = Depth THEN PendingBytes(i) ELSE 0
    BY <1>3, <2>1, MissCounts DEF TypeOK
  <2>3. /\ Pending(1)' = 0 /\ PendingBytes(1)' = 0
        /\ \A i \in Inner :
             Pending(i+1)' = Pending(i) /\ PendingBytes(i+1)' = PendingBytes(i)
    BY <1>3, MissPasses
  <2>4. UNCHANGED <<number_of_urls, traffic>>
    BY <1>3 DEF globalVars
  <2>5. /\ stats'[1].hit + stats'[1].miss + Pending(1)' = number_of_urls'
        /\ stats'[1].byte_hit + stats'[1].byte_miss + PendingBytes(1)' = traffic'
    BY <1>0, <1>00, <2>2, <2>3, <2>4 DEF AddsUp
  <2>6. ASSUME NEW i \in Inner
        PROVE  /\ stats'[i].miss = stats'[i+1].hit + stats'[i+1].miss + Pending(i+1)'
               /\ stats'[i].byte_miss
                    = stats'[i+1].byte_hit + stats'[i+1].byte_miss + PendingBytes(i+1)'
               /\ stats'[i].reads_from_origin = 0
    BY <1>0, <1>00, <2>2, <2>3 DEF AddsUp
  <2>7. stats'[Depth].reads_from_origin = stats'[Depth].byte_miss
    BY <1>0, <1>00, <2>2 DEF AddsUp
  <2> QED BY <2>5, <2>6, <2>7 DEF AddsUp
<1>4. ASSUME Admit \/ Refuse, UNCHANGED globalVars PROVE AddsUp'
  <2>1. phase = "add" /\ request.size \in Nat
    BY <1>4 DEF Admit, MayAdd, Refuse, RequestKnown
  <2>2. \A i \in Layers : /\ stats'[i].hit = stats[i].hit
                          /\ stats'[i].miss = stats[i].miss
                          /\ stats'[i].byte_hit = stats[i].byte_hit
                          /\ stats'[i].byte_miss = stats[i].byte_miss
                          /\ stats'[i].reads_from_origin = stats[i].reads_from_origin
    BY <1>4, <2>1, AddCounts DEF RequestCounters, TypeOK
  <2>3. phase' # "check"
    BY <1>4, Returns DEF Admit, Refuse, TypeOK
  <2>4. \A i \in Layers : /\ Pending(i) = 0 /\ Pending(i)' = 0
                          /\ PendingBytes(i) = 0 /\ PendingBytes(i)' = 0
    BY <2>1, <2>3 DEF Pending, PendingBytes, Asks
  <2>5. UNCHANGED <<number_of_urls, traffic>>
    BY <1>4 DEF globalVars
  <2> QED BY <1>0, <2>2, <2>4, <2>5 DEF AddsUp
<1>5. CASE PeriodicReport
  <2>1. \A i \in Layers : /\ Pending(i) = 0 /\ Pending(i)' = 0
                          /\ PendingBytes(i) = 0 /\ PendingBytes(i)' = 0
    BY <1>5 DEF PeriodicReport, Pending, PendingBytes, Asks
  <2>2. CASE Report
    <3>1. \A i \in Layers : /\ stats'[i].hit = 0 /\ stats'[i].miss = 0
                            /\ stats'[i].byte_hit = 0 /\ stats'[i].byte_miss = 0
                            /\ stats'[i].reads_from_origin = 0
      BY <2>2, ReportCounts DEF Report, RequestCounters
    <3>2. number_of_urls' = 0 /\ traffic' = 0
      BY <2>2 DEF Report
    <3> QED BY <1>0, <2>1, <3>1, <3>2 DEF AddsUp
  <2>3. CASE UNCHANGED <<traffic, number_of_urls, stats>>
    BY <1>0, <2>1, <2>3 DEF AddsUp
  <2> QED BY <1>5, <2>2, <2>3 DEF PeriodicReport
<1>6. CASE PeriodicPurge \/ UNCHANGED vars
  <2>1. /\ UNCHANGED <<traffic, number_of_urls, stats, request, layer>>
        /\ phase' = phase \/ (phase # "check" /\ phase' # "check")
    BY <1>6 DEF PeriodicPurge, vars, chainVars, globalVars
  <2>2. \A i \in Layers : Pending(i)' = Pending(i) /\ PendingBytes(i)' = PendingBytes(i)
    BY <2>1 DEF Pending, PendingBytes, Asks
  <2> QED BY <1>0, <2>1, <2>2 DEF AddsUp
<1> QED BY <1>1, <1>2, <1>3, <1>4, <1>5, <1>6 DEF Next, ProcessStep, Process

-------------------------------------------------------------------------------
(* The infinite cache *)

LEMMA MissedEverywhereStep ==
  ASSUME TypeOK, RequestKnown, AddsUp, MissedEverywhere, [Next]_vars
  PROVE  MissedEverywhere'
<1>0. Depth \in Layers /\ \A i \in Layers : i \in 1..Depth
  BY ChainAssumption DEF Layers
<1>00. /\ stats[Depth].miss \in Nat /\ stats[Depth].byte_miss \in Nat
       /\ \A c \in InfiniteCounters : infinite[c] \in Nat
       /\ number_of_urls \in Nat /\ traffic \in Nat
  BY <1>0, CounterIsNat, EmulatorAssumption DEF TypeOK
<1>1. ASSUME NEW line \in Lines, NEW ts \in FirstTime..MaxTime, ReadLine(line, ts)
      PROVE  MissedEverywhere'
  <2> DEFINE key == KeyOf(line)
             size == SizeOf(line)
  <2>1. /\ phase = "idle" /\ phase' = "check" /\ UNCHANGED <<stats, contents>>
        /\ request' = [key |-> key, size |-> size]
        /\ requested_item_map' = requested_item_map \cup {key}
        /\ number_of_urls' = number_of_urls + 1 /\ traffic' = traffic + size
    BY <1>1 DEF ReadLine, Call, CountInfinite
  <2>2. size \in Nat
    BY <1>1, LinesAssumption DEF ReadLine
  <2>3. /\ infinite["miss"] <= stats[Depth].miss
        /\ infinite["miss_bytes"] <= stats[Depth].byte_miss
    BY <2>1 DEF MissedEverywhere
  <2> HIDE DEF key, size
  <2>4. CASE key \in requested_item_map
    <3>1. infinite' = [infinite EXCEPT !["hit"] = @ + 1, !["hit_bytes"] = @ + size]
      BY <1>1, <2>4 DEF ReadLine, CountInfinite, key, size
    <3>2. /\ infinite'["hit"] = infinite["hit"] + 1
          /\ infinite'["hit_bytes"] = infinite["hit_bytes"] + size
          /\ infinite'["miss"] = infinite["miss"]
          /\ infinite'["miss_bytes"] = infinite["miss_bytes"]
      BY <3>1 DEF TypeOK, InfiniteCounters
    <3> QED BY <1>00, <2>1, <2>2, <2>3, <3>2 DEF MissedEverywhere, InfiniteCounters
  <2>5. CASE key \notin requested_item_map
    <3>1. infinite' = [infinite EXCEPT !["miss"] = @ + 1, !["miss_bytes"] = @ + size]
      BY <1>1, <2>5 DEF ReadLine, CountInfinite, key, size
    <3>2. /\ infinite'["hit"] = infinite["hit"]
          /\ infinite'["hit_bytes"] = infinite["hit_bytes"]
          /\ infinite'["miss"] = infinite["miss"] + 1
          /\ infinite'["miss_bytes"] = infinite["miss_bytes"] + size
      BY <3>1 DEF TypeOK, InfiniteCounters
    <3>3. \A i \in Layers : key \notin contents'[i]
      BY <2>1, <2>5 DEF MissedEverywhere
    <3>4. request'.key = key /\ request'.size = size
      BY <2>1
    <3>5. /\ infinite'["miss"] <= stats'[Depth].miss + 1
          /\ infinite'["miss_bytes"] <= stats'[Depth].byte_miss + request'.size
      BY <1>00, <2>1, <2>2, <2>3, <3>2, <3>4 DEF InfiniteCounters
    <3>6. /\ infinite'["hit"] + infinite'["miss"] = number_of_urls'
          /\ infinite'["hit_bytes"] + infinite'["miss_bytes"] = traffic'
      BY <1>00, <2>1, <2>2, <3>2 DEF MissedEverywhere, InfiniteCounters
    <3>7. \A i \in Layers : contents'[i] \subseteq requested_item_map'
      BY <2>1 DEF MissedEverywhere
    <3> QED BY <2>1, <3>3, <3>4, <3>5, <3>6, <3>7 DEF MissedEverywhere
  <2> QED BY <2>4, <2>5
<1>2. ASSUME Process, UNCHANGED globalVars PROVE MissedEverywhere'
  <2>1. /\ UNCHANGED <<infinite, number_of_urls, traffic, requested_item_map, request>>
        /\ request.key \in requested_item_map /\ request.size \in Nat
    BY <1>2, ProcessType
    DEF globalVars, RequestKnown, Process, Hit, Miss, Admit, MayAdd, Refuse
  <2>2. \A i \in Layers : contents'[i] \subseteq requested_item_map'
    BY <1>2, <2>1, ProcessType DEF MissedEverywhere
  <2>3. CASE Hit
    <3>1. request.key \in contents[layer] /\ layer \in Layers
      BY <2>3 DEF Hit, TypeOK, ChainTypeOK
    <3>2. /\ infinite["miss"] <= stats[Depth].miss
          /\ infinite["miss_bytes"] <= stats[Depth].byte_miss
      BY <3>1 DEF MissedEverywhere
    <3>3. stats'[Depth].miss = stats[Depth].miss
          /\ stats'[Depth].byte_miss = stats[Depth].byte_miss
      BY <1>0, <2>1, <2>3, HitCounts DEF TypeOK
    <3> QED BY <2>1, <2>2, <3>2, <3>3 DEF MissedEverywhere
  <2>4. CASE Miss
    <3>1. /\ stats'[Depth].miss = stats[Depth].miss + Pending(Depth)
          /\ stats'[Depth].byte_miss = stats[Depth].byte_miss + PendingBytes(Depth)
      BY <1>0, <2>1, <2>4, MissCounts DEF TypeOK
    <3>2. CASE layer = Depth
      <4>1. Pending(Depth) = 1 /\ PendingBytes(Depth) = request.size
        BY <2>4, <3>2 DEF Pending, PendingBytes, Asks, Miss
      <4>2. /\ infinite["miss"] <= stats[Depth].miss + 1
            /\ infinite["miss_bytes"] <= stats[Depth].byte_miss + request.size
        BY <1>00, <2>1 DEF MissedEverywhere, InfiniteCounters
      <4> QED BY <2>1, <2>2, <3>1, <4>1, <4>2 DEF MissedEverywhere
    <3>3. CASE layer # Depth
      <4>1. Pending(Depth) = 0 /\ PendingBytes(Depth) = 0
        BY <3>3 DEF Pending, PendingBytes, Asks
      <4>2. stats'[Depth].miss = stats[Depth].miss
            /\ stats'[Depth].byte_miss = stats[Depth].byte_miss
        BY <1>00, <3>1, <4>1
      <4>3. layer \in 1..Depth /\ Depth \in Nat
        BY ChainAssumption DEF TypeOK, ChainTypeOK, Layers
      <4>4. phase' = "check"
        BY <2>4, <3>3, <4>3 DEF Miss
      <4>5. \A i \in Layers : contents'[i] \subseteq contents[i]
        BY <2>4 DEF Miss, NotFound, TypeOK, ChainTypeOK
      <4> QED BY <2>1, <2>2, <4>2, <4>4, <4>5 DEF MissedEverywhere
    <3> QED BY <3>2, <3>3
  <2>5. CASE Admit \/ Refuse
    <3>1. phase = "add"
      BY <2>5 DEF Admit, MayAdd, Refuse
    <3>2. stats'[Depth].miss = stats[Depth].miss
          /\ stats'[Depth].byte_miss = stats[Depth].byte_miss
      BY <1>0, <2>1, <2>5, AddCounts DEF RequestCounters, TypeOK
    <3> QED BY <2>1, <2>2, <3>1, <3>2 DEF MissedEverywhere
  <2> QED BY <1>2, <2>3, <2>4, <2>5 DEF Process
<1>3. CASE PeriodicReport
  <2>1. phase = "returned" /\ UNCHANGED <<contents, requested_item_map>>
    BY <1>3 DEF PeriodicReport
  <2>2. CASE Report
    <3>1. stats'[Depth].miss = 0 /\ stats'[Depth].byte_miss = 0
      BY <1>0, <2>2, ReportCounts DEF Report, RequestCounters
    <3>2. /\ number_of_urls' = 0 /\ traffic' = 0
          /\ \A c \in InfiniteCounters : infinite'[c] = 0
      BY <2>2 DEF Report, NothingInfinite
    <3> QED BY <2>1, <3>1, <3>2 DEF MissedEverywhere, InfiniteCounters
  <2>3. CASE UNCHANGED <<traffic, number_of_urls, infinite, stats>>
    BY <2>1, <2>3 DEF MissedEverywhere
  <2> QED BY <1>3, <2>2, <2>3 DEF PeriodicReport
<1>4. CASE PeriodicPurge
  <2>1. /\ phase = "reported"
        /\ UNCHANGED <<traffic, number_of_urls, infinite, stats, requested_item_map>>
    BY <1>4 DEF PeriodicPurge
  <2>2. \A i \in Layers : contents'[i] \subseteq contents[i]
    BY <1>4 DEF PeriodicPurge, Purge
  <2> QED BY <2>1, <2>2 DEF MissedEverywhere
<1>5. CASE UNCHANGED vars
  BY <1>5 DEF vars, chainVars, globalVars, MissedEverywhere
<1> QED BY <1>1, <1>2, <1>3, <1>4, <1>5 DEF Next, ProcessStep

-------------------------------------------------------------------------------
(* The inductive invariant holds *)

LEMMA IInvInit == Init => IInv
<1> SUFFICES ASSUME Init PROVE IInv
  OBVIOUS
<1>1. /\ 1 \in Layers /\ Depth \in Layers
      /\ \A i \in 1..Depth-1 : i \in Layers /\ i+1 \in Layers
  BY ChainAssumption DEF Layers
<1>2. /\ contents = [i \in Layers |-> {}] /\ stats = [i \in Layers |-> NoCounts]
      /\ respect_lower_admission \in [Layers -> BOOLEAN]
      /\ admission \in Configurations
  BY DEF Init, ChainInit
<1>3. phase = "idle" /\ layer = 1 /\ answer = FALSE
  BY DEF Init, ChainInit
<1>4. /\ requested_item_map = {} /\ infinite = NothingInfinite
      /\ traffic = 0 /\ number_of_urls = 0 /\ timer1 = 0 /\ timer2 = 0 /\ now = 0
  BY DEF Init
<1>5. \A i \in Layers :
        /\ stats[i].hit = 0 /\ stats[i].miss = 0 /\ stats[i].byte_hit = 0
        /\ stats[i].byte_miss = 0 /\ stats[i].reads_from_origin = 0
        /\ Pending(i) = 0 /\ PendingBytes(i) = 0
  BY <1>2, <1>3 DEF NoCounts, Counters, RequestCounters, Pending, PendingBytes, Asks
<1>6. \A c \in InfiniteCounters : infinite[c] = 0
  BY <1>4 DEF NothingInfinite
<1>7. TypeOK
  <2>1. NoCounts \in [Counters -> Nat] /\ NothingInfinite \in [InfiniteCounters -> Nat]
    BY DEF NoCounts, NothingInfinite
  <2>2. ChainTypeOK
    BY <1>1, <1>2, <1>3, <2>1 DEF ChainTypeOK, Phases
  <2> QED BY <1>4, <2>1, <2>2, EmulatorAssumption DEF TypeOK
<1>8. AddsUp
  BY <1>1, <1>4, <1>5 DEF AddsUp
<1>9. MissedEverywhere
  BY <1>1, <1>2, <1>4, <1>5, <1>6 DEF MissedEverywhere, InfiniteCounters
<1>10. RequestKnown
  BY <1>3 DEF RequestKnown
<1> QED BY <1>7, <1>8, <1>9, <1>10 DEF IInv

LEMMA IInvStep == IInv /\ [Next]_vars => IInv'
BY TypeStep, RequestKnownStep, AddsUpStep, MissedEverywhereStep
DEF IInv

-------------------------------------------------------------------------------
(* The sum over the layers *)

\* A set of numbers has a least element.
LEMMA Least ==
  ASSUME NEW T \in SUBSET Nat, T # {}
  PROVE  \E m \in T : \A n \in T : m <= n
<1> DEFINE R == OpToRel(<, Nat)
<1>1. IsWellFoundedOn(R, Nat)
  BY NatLessThanWellFounded
<1>2. \A x, y \in Nat : x < y => <<x, y>> \in R
  BY DEF OpToRel
<1> HIDE DEF R
<1>3. PICK m \in T : \A n \in Nat : <<n, m>> \in R => n \notin T
  BY <1>1, WFMin
<1>4. \A n \in T : ~(n < m)
  BY <1>2, <1>3
<1> QED BY <1>3, <1>4

\* Total is the last of any numbers that sum the counter up layer by layer.
LEMMA TotalIs ==
  ASSUME NEW counter, NEW sum \in [0..Depth -> Int], sum[0] = 0,
         \A i \in 1..Depth : sum[i] = sum[i-1] + stats[i][counter]
  PROVE  Total(counter) = sum[Depth]
<1> DEFINE Body(total) ==
             [i \in 0..Depth |-> IF i = 0 THEN 0 ELSE total[i-1] + stats[i][counter]]
           total == CHOOSE t : t = Body(t)
<1>0. Depth \in Nat
  BY ChainAssumption
<1>1. sum = Body(sum)
  BY <1>0
<1>2. total = Body(total)
  BY <1>1
<1>3. Total(counter) = total[Depth]
  BY DEF Total
<1> HIDE DEF total
<1>4. total[0] = 0 /\ \A i \in 1..Depth : total[i] = total[i-1] + stats[i][counter]
  BY <1>0, <1>2
<1> DEFINE Wrong == {i \in 0..Depth : total[i] # sum[i]}
<1>5. Wrong = {}
  <2>1. SUFFICES ASSUME Wrong # {} PROVE FALSE
    OBVIOUS
  <2>2. PICK m \in Wrong : \A n \in Wrong : m <= n
    <3>1. Wrong \in SUBSET Nat
      BY <1>0
    <3> HIDE DEF Wrong
    <3> QED BY <2>1, <3>1, Least
  <2>3. m \in 0..Depth /\ total[m] # sum[m] /\ m # 0
    BY <1>4, <2>2
  <2>4. m-1 \in 0..Depth /\ m-1 \notin Wrong
    BY <1>0, <2>2, <2>3
  <2>5. total[m] = sum[m]
    BY <1>0, <1>4, <2>3, <2>4
  <2> QED BY <2>3, <2>5
<1> QED BY <1>0, <1>3, <1>5

-------------------------------------------------------------------------------
(* What the inductive invariant says at rest *)

LEMMA AddsUpAtRest == TypeOK /\ AddsUp => LayersAddUp
<1> SUFFICES ASSUME TypeOK, AddsUp, AtRest
             PROVE  LayersAddUp!2
  BY DEF LayersAddUp
<1>1. \A i \in Layers : /\ stats[i].hit \in Nat /\ stats[i].miss \in Nat
                        /\ stats[i].byte_hit \in Nat /\ stats[i].byte_miss \in Nat
                        /\ Pending(i) = 0 /\ PendingBytes(i) = 0
  BY CounterIsNat, NothingPending DEF TypeOK, AtRest
<1>2. 1 \in Layers /\ \A i \in 1..Depth-1 : i \in Layers /\ i+1 \in Layers
  BY ChainAssumption DEF Layers
<1> QED BY <1>1, <1>2 DEF AddsUp

\* The hits of the layers together are what the last one did not miss.
LEMMA TotalsAtRest ==
  ASSUME TypeOK, LayersAddUp, AtRest
  PROVE  /\ Total("hit") = number_of_urls - stats[Depth].miss
         /\ Total("byte_hit") = traffic - stats[Depth].byte_miss
<1>0. Depth \in Nat \ {0} /\ number_of_urls \in Nat /\ traffic \in Nat
  BY ChainAssumption, EmulatorAssumption DEF TypeOK
<1>1. \A i \in 1..Depth : /\ stats[i].hit \in Nat /\ stats[i].miss \in Nat
                          /\ stats[i].byte_hit \in Nat /\ stats[i].byte_miss \in Nat
  BY CounterIsNat DEF TypeOK, Layers
<1>2. ASSUME NEW i \in 2..Depth
      PROVE  /\ i-1 \in 1..Depth
             /\ stats[i-1].miss = stats[i].hit + stats[i].miss
             /\ stats[i-1].byte_miss = stats[i].byte_hit + stats[i].byte_miss
  <2>1. i-1 \in 1..Depth-1 /\ i-1 \in 1..Depth /\ (i-1)+1 = i
    BY <1>0
  <2> QED BY <2>1 DEF LayersAddUp
<1>3. /\ stats[1].hit + stats[1].miss = number_of_urls
      /\ stats[1].byte_hit + stats[1].byte_miss = traffic
  BY DEF LayersAddUp
<1>4. Total("hit") = number_of_urls - stats[Depth].miss
  <2> DEFINE sum == [i \in 0..Depth |-> IF i = 0 THEN 0 ELSE number_of_urls - stats[i].miss]
  <2>1. sum \in [0..Depth -> Int] /\ sum[0] = 0
    BY <1>0, <1>1
  <2>2. \A i \in 1..Depth : sum[i] = sum[i-1] + stats[i].hit
    <3>1. TAKE i \in 1..Depth
    <3>2. CASE i = 1
      BY <1>0, <1>1, <1>3, <3>2
    <3>3. CASE i # 1
      <4>1. i \in 2..Depth /\ i-1 # 0 /\ i # 0 /\ i-1 \in 0..Depth /\ i \in 0..Depth
        BY <1>0, <3>3
      <4>2. /\ sum[i] = number_of_urls - stats[i].miss
            /\ sum[i-1] = number_of_urls - stats[i-1].miss
        BY <4>1
      <4>3. stats[i].hit \in Nat /\ stats[i].miss \in Nat
        BY <1>1
      <4> HIDE DEF sum
      <4> QED BY <1>0, <1>2, <4>1, <4>2, <4>3
    <3> QED BY <3>2, <3>3
  <2>3. sum[Depth] = number_of_urls - stats[Depth].miss
    BY <1>0
  <2> HIDE DEF sum
  <2> QED BY <2>1, <2>2, <2>3, TotalIs
<1>5. Total("byte_hit") = traffic - stats[Depth].byte_miss
  <2> DEFINE sum == [i \in 0..Depth |-> IF i = 0 THEN 0 ELSE traffic - stats[i].byte_miss]
  <2>1. sum \in [0..Depth -> Int] /\ sum[0] = 0
    BY <1>0, <1>1
  <2>2. \A i \in 1..Depth : sum[i] = sum[i-1] + stats[i].byte_hit
    <3>1. TAKE i \in 1..Depth
    <3>2. CASE i = 1
      BY <1>0, <1>1, <1>3, <3>2
    <3>3. CASE i # 1
      <4>1. i \in 2..Depth /\ i-1 # 0 /\ i # 0 /\ i-1 \in 0..Depth /\ i \in 0..Depth
        BY <1>0, <3>3
      <4>2. /\ sum[i] = traffic - stats[i].byte_miss
            /\ sum[i-1] = traffic - stats[i-1].byte_miss
        BY <4>1
      <4>3. stats[i].byte_hit \in Nat /\ stats[i].byte_miss \in Nat
        BY <1>1
      <4> HIDE DEF sum
      <4> QED BY <1>0, <1>2, <4>1, <4>2, <4>3
    <3> QED BY <3>2, <3>3
  <2>3. sum[Depth] = traffic - stats[Depth].byte_miss
    BY <1>0
  <2> HIDE DEF sum
  <2> QED BY <2>1, <2>2, <2>3, TotalIs
<1> QED BY <1>4, <1>5

LEMMA NoBetterAtRest == TypeOK /\ AddsUp /\ MissedEverywhere => NoBetterThanInfinite
<1> SUFFICES ASSUME TypeOK, AddsUp, MissedEverywhere, AtRest
             PROVE  NoBetterThanInfinite!2
  BY DEF NoBetterThanInfinite
<1>1. /\ Total("hit") = number_of_urls - stats[Depth].miss
      /\ Total("byte_hit") = traffic - stats[Depth].byte_miss
  BY AddsUpAtRest, TotalsAtRest
<1>2. /\ infinite["miss"] <= stats[Depth].miss
      /\ infinite["miss_bytes"] <= stats[Depth].byte_miss
      /\ infinite["hit"] + infinite["miss"] = number_of_urls
      /\ infinite["hit_bytes"] + infinite["miss_bytes"] = traffic
  BY DEF MissedEverywhere, AtRest
<1>3. /\ infinite["hit"] \in Nat /\ infinite["miss"] \in Nat
      /\ infinite["hit_bytes"] \in Nat /\ infinite["miss_bytes"] \in Nat
  BY DEF TypeOK, InfiniteCounters
<1>4. stats[Depth].miss \in Nat /\ stats[Depth].byte_miss \in Nat
  BY CounterIsNat, ChainAssumption DEF TypeOK, Layers
<1> QED BY <1>1, <1>2, <1>3, <1>4

-------------------------------------------------------------------------------
(* The lines of the log *)

\* A line is being processed that is not counted yet.
Uncounted == IF phase = "idle" THEN 0 ELSE 1

\* ReportsAndLinesAgree at every moment, and the bound on the lines.
LinesCounted ==
  /\ lines_processed \in Nat /\ lines_skipped \in Nat /\ reported \in Nat
  /\ running \in {"yes", "ended", "aborted"}
  /\ lines_processed + Uncounted = reported + number_of_urls
  /\ lines_processed + lines_skipped + Uncounted <= MaxLines

\* A step of the outer loop is a step of the emulator, or none.
LEMMA ReplayIsEmulation == [ReplayNext]_allVars => [Next]_vars
<1>1. ReplayNext => [Next]_vars
  BY DEF ReplayNext, Read, PassOver, Abort, Ask, MayReport, MayPurge, End, Next
<1>2. UNCHANGED allVars => UNCHANGED vars
  BY DEF allVars
<1> QED BY <1>1, <1>2

LEMMA LinesCountedStep ==
  ASSUME TypeOK, LinesCounted, [ReplayNext]_allVars
  PROVE  LinesCounted'
<1>0. number_of_urls \in Nat /\ MaxLines \in Nat /\ Uncounted \in {0, 1}
  BY EmulatorAssumption, ReplayAssumption DEF TypeOK, Uncounted
<1>1. ASSUME NEW line \in Lines, NEW ts \in FirstTime..MaxTime, Read(line, ts)
      PROVE  LinesCounted'
  <2>1. Uncounted = 0 /\ Uncounted' = 1 /\ number_of_urls' = number_of_urls + 1
    BY <1>1 DEF Read, ReadLine, Call, Uncounted
  <2>2. lines_processed + lines_skipped < MaxLines /\ UNCHANGED <<counts, reported>>
    BY <1>1 DEF Read, MoreLines
  <2> QED BY <1>0, <2>1, <2>2 DEF LinesCounted, counts
<1>2. ASSUME NEW line \in Lines, PassOver(line) \/ Abort(line)
      PROVE  LinesCounted'
  <2>1. UNCHANGED <<number_of_urls, reported, lines_processed>>
        /\ Uncounted = 0 /\ Uncounted' = 0
    BY <1>2 DEF PassOver, Abort, vars, chainVars, globalVars, Uncounted
  <2>2. CASE PassOver(line)
    <3>1. lines_processed + lines_skipped < MaxLines /\ UNCHANGED running
      BY <2>2 DEF PassOver, MoreLines
    <3>2. lines_skipped' = lines_skipped + 1 \/ lines_skipped' = lines_skipped + 0
      BY <2>2 DEF PassOver
    <3> QED BY <1>0, <2>1, <3>1, <3>2 DEF LinesCounted
  <2>3. CASE Abort(line)
    BY <2>1, <2>3 DEF LinesCounted, Abort
  <2> QED BY <1>2, <2>2, <2>3
<1>3. CASE Ask
  <2>1. /\ phase # "idle" /\ phase' # "idle"
        /\ UNCHANGED <<number_of_urls, counts, reported>>
    BY <1>3, ChainAssumption
    DEF Ask, ProcessStep, globalVars, Process, Hit, Miss, Admit, MayAdd, Refuse, Return
  <2> QED BY <2>1 DEF LinesCounted, counts, Uncounted
<1>4. CASE MayReport
  <2>1. Uncounted = 1 /\ Uncounted' = 1
        /\ UNCHANGED <<lines_processed, lines_skipped, running>>
    BY <1>4 DEF MayReport, PeriodicReport, counts, Uncounted
  <2>2. reported' + number_of_urls' = reported + number_of_urls /\ reported' \in Nat
    BY <1>0, <1>4 DEF MayReport, PeriodicReport, Report, LinesCounted
  <2> QED BY <2>1, <2>2 DEF LinesCounted
<1>5. CASE MayPurge
  <2>1. Uncounted = 1 /\ Uncounted' = 0 /\ lines_processed' = lines_processed + 1
        /\ UNCHANGED <<number_of_urls, lines_skipped, running, reported>>
    BY <1>5 DEF MayPurge, PeriodicPurge, Uncounted
  <2> QED BY <1>0, <2>1 DEF LinesCounted
<1>6. CASE End \/ UNCHANGED allVars
  <2>1. UNCHANGED <<number_of_urls, reported, lines_processed, lines_skipped, phase>>
        /\ running' \in {running, "ended"}
    BY <1>6 DEF End, allVars, replayVars, counts, vars, chainVars, globalVars
  <2> QED BY <2>1 DEF LinesCounted, Uncounted
<1> QED BY <1>1, <1>2, <1>3, <1>4, <1>5, <1>6 DEF ReplayNext

-------------------------------------------------------------------------------
(* The windows of the reports *)

\* A report that was made counts the requests of an interval and one more.
IsWindow(n) ==
  LET last == Len(reports[n]) IN
  /\ \A k \in 1..last - 1 : Follows(n-1, reports[n][k])
  /\ last > 0 /\ reports[n][last] - ReportTime(n-1) > ReportInterval

\* The request under way, not yet looked at for a report, is the last.
Latest == IF phase \in {"idle", "reported"} THEN 0 ELSE 1

\* ReportsAreWindows at every moment: a request is within the interval once it
\* was considered whether it triggers the report.
Windows ==
  /\ reports \in Seq(Seq(Nat)) /\ unreported \in Seq(Nat)
  /\ number_of_urls = Len(unreported)
  /\ timer1 = ReportTime(Len(reports)) /\ timer1 <= now
  /\ \A n \in 1..Len(reports) : IsWindow(n)
  /\ \A n \in 1..Len(reports) : \A k \in 1..Len(reports[n]) : reports[n][k] >= FirstTime
  /\ \A k \in 1..Len(unreported) : unreported[k] >= FirstTime
  /\ \A k \in 1..Len(unreported) - Latest : Follows(Len(reports), unreported[k])
  /\ Latest = 1 => Len(unreported) > 0 /\ unreported[Len(unreported)] = now
  /\ reports = <<>> => reported = 0

\* What is done outside of the reports leaves their windows alone.
LEMMA WindowsKept ==
  ASSUME Windows, UNCHANGED <<reports, unreported, reported, number_of_urls, timer1, now>>,
         Latest' = Latest
  PROVE  Windows'
BY DEF Windows, IsWindow, Follows, ReportTime

LEMMA WindowsStep ==
  ASSUME TypeOK, Windows, [ReplayNext]_allVars
  PROVE  Windows'
<1>0. /\ now \in Nat /\ timer1 \in Nat /\ ReportInterval \in Nat /\ FirstTime \in Nat
      /\ MaxTime \in Nat /\ Len(reports) \in Nat /\ Len(unreported) \in Nat
  BY EmulatorAssumption DEF TypeOK, Windows
<1>1. ASSUME NEW line \in Lines, NEW ts \in FirstTime..MaxTime, Read(line, ts)
      PROVE  Windows'
  <2>1. /\ Latest = 0 /\ Latest' = 1 /\ ts \in Nat /\ ts >= now /\ now' = ts
        /\ UNCHANGED <<reports, reported, timer1>>
        /\ unreported' = Append(unreported, ts)
        /\ number_of_urls' = number_of_urls + 1
    BY <1>0, <1>1 DEF Read, ReadLine, Call, Latest
  <2>2. /\ unreported' \in Seq(Nat) /\ Len(unreported') = Len(unreported) + 1
        /\ unreported'[Len(unreported')] = ts
        /\ \A k \in 1..Len(unreported) : unreported'[k] = unreported[k]
    BY <2>1 DEF Windows
  <2>3. \A n : ReportTime(n)' = ReportTime(n)
    BY <2>1 DEF ReportTime
  <2>4. \A n \in 1..Len(reports') : IsWindow(n)'
    BY <2>1, <2>3 DEF Windows, IsWindow, Follows
  <2>5. ASSUME NEW k \in 1..Len(unreported') PROVE unreported'[k] >= FirstTime
    <3>1. CASE k = Len(unreported')
      BY <1>0, <2>2, <3>1
    <3>2. CASE k \in 1..Len(unreported)
      BY <2>2, <3>2 DEF Windows
    <3> QED BY <1>0, <2>2, <3>1, <3>2
  <2>6. \A k \in 1..Len(unreported') - Latest' : Follows(Len(reports), unreported[k])'
    BY <1>0, <2>1, <2>2, <2>3 DEF Windows, Follows
  <2>7. timer1' = ReportTime(Len(reports))' /\ timer1' <= now'
    BY <1>0, <2>1, <2>3 DEF Windows
  <2> QED BY <1>0, <2>1, <2>2, <2>4, <2>5, <2>6, <2>7 DEF Windows
<1>2. ASSUME NEW line \in Lines, PassOver(line) \/ Abort(line)
      PROVE  Windows'
  BY <1>2, WindowsKept DEF PassOver, Abort, vars, chainVars, globalVars, Latest
<1>3. CASE Ask
  <2>1. Latest = 1 /\ Latest' = 1
    BY <1>3, ChainAssumption
    DEF Ask, ProcessStep, Process, Hit, Miss, Admit, MayAdd, Refuse, Return, Latest
  <2> QED BY <1>3, <2>1, WindowsKept DEF Ask, ProcessStep, globalVars
<1>4. CASE MayReport /\ Due(timer1, ReportInterval)
  <2>1. /\ Latest = 1 /\ Latest' = 0 /\ timer1' = now /\ now' = now /\ number_of_urls' = 0
        /\ reports' = Append(reports, unreported) /\ unreported' = <<>>
        /\ now - timer1 > ReportInterval
    BY <1>4 DEF MayReport, PeriodicReport, Report, Due, Latest
  <2>2. /\ reports' \in Seq(Seq(Nat)) /\ Len(reports') = Len(reports) + 1
        /\ reports'[Len(reports')] = unreported /\ reports' # <<>>
        /\ \A n \in 1..Len(reports) : reports'[n] = reports[n]
    <3> DEFINE Times == Seq(Nat)
    <3>1. reports \in Seq(Times) /\ unreported \in Times
      BY DEF Windows
    <3> HIDE DEF Times
    <3>2. /\ reports' \in Seq(Times) /\ Len(reports') = Len(reports) + 1
          /\ reports'[Len(reports')] = unreported
          /\ \A n \in 1..Len(reports) : reports'[n] = reports[n]
      BY <2>1, <3>1
    <3>3. reports' # <<>>
      BY <1>0, <3>2
    <3> QED BY <3>2, <3>3 DEF Times
  <2>3. \A n \in 0..Len(reports) : ReportTime(n)' = ReportTime(n)
    BY <1>0, <2>2 DEF ReportTime
  <2>4. ReportTime(Len(reports))' = now
    BY <1>0, <2>1, <2>2 DEF ReportTime, Windows
  <2>5. ASSUME NEW n \in 1..Len(reports') PROVE IsWindow(n)'
    <3>1. CASE n \in 1..Len(reports)
      <4>1. n-1 \in 0..Len(reports) /\ reports'[n] = reports[n] /\ IsWindow(n)
        BY <1>0, <2>2, <3>1 DEF Windows
      <4> QED BY <2>3, <4>1 DEF IsWindow, Follows
    <3>2. CASE n = Len(reports')
      <4>1. n-1 = Len(reports) /\ reports'[n] = unreported
        BY <1>0, <2>2, <3>2
      <4>2. ReportTime(n-1)' = timer1 /\ ReportTime(n-1) = timer1
        BY <1>0, <2>3, <4>1 DEF Windows
      <4> QED BY <1>0, <2>1, <4>1, <4>2 DEF Windows, IsWindow, Follows
    <3> QED BY <1>0, <2>2, <3>1, <3>2
  <2>6. ASSUME NEW n \in 1..Len(reports'), NEW k \in 1..Len(reports'[n])
        PROVE  reports'[n][k] >= FirstTime
    <3>1. CASE n \in 1..Len(reports)
      BY <2>2, <3>1 DEF Windows
    <3>2. CASE n = Len(reports')
      BY <2>2, <3>2 DEF Windows
    <3> QED BY <1>0, <2>2, <3>1, <3>2
  <2>7. /\ unreported' \in Seq(Nat) /\ Len(unreported') = 0
        /\ timer1' = ReportTime(Len(reports))' /\ timer1' <= now'
    <3>1. timer1' = ReportTime(Len(reports))'
      BY <2>1, <2>2, <2>4
    <3> QED BY <1>0, <2>1, <3>1
  <2> QED BY <2>1, <2>2, <2>5, <2>6, <2>7 DEF Windows
<1>5. CASE MayReport /\ ~Due(timer1, ReportInterval)
  <2>1. /\ Latest = 1 /\ Latest' = 0 /\ ~(now - timer1 > ReportInterval)
        /\ UNCHANGED <<reports, unreported, reported, number_of_urls, timer1, now>>
    BY <1>5 DEF MayReport, PeriodicReport, Due, Latest
  <2>2. \A n : ReportTime(n)' = ReportTime(n)
    BY <2>1 DEF ReportTime
  <2>3. \A k \in 1..Len(unreported) : Follows(Len(reports), unreported[k])
    BY <1>0, <2>1 DEF Windows, Follows
  <2> QED BY <1>0, <2>1, <2>2, <2>3 DEF Windows, IsWindow, Follows
<1>6. CASE MayPurge
  <2>1. Latest = 0 /\ Latest' = 0
    BY <1>6 DEF MayPurge, PeriodicPurge, Latest
  <2> QED BY <1>6, <2>1, WindowsKept DEF MayPurge, PeriodicPurge
<1>7. CASE End \/ UNCHANGED allVars
  BY <1>7, WindowsKept
  DEF End, allVars, replayVars, vars, chainVars, globalVars, Latest
<1> QED BY <1>1, <1>2, <1>3, <1>4, <1>5, <1>6, <1>7 DEF ReplayNext

-------------------------------------------------------------------------------
(* What the layers have written *)

\* RefusalsTravelUp, and what the answer a layer is given says of the layer
\* that gave it.
Writings ==
  /\ written \in [Layers -> SUBSET Keys]
  /\ RefusalsTravelUp
  /\ phase = "add" /\ answer /\ layer < Depth => request.key \in written[layer+1]

\* Nothing is written but by the layers as they are asked.
LEMMA WritingsKept ==
  ASSUME TypeOK, Writings, UNCHANGED <<written, respect_lower_admission>>,
         \A i \in Layers : contents'[i] \subseteq contents[i],
         phase' # "add"
  PROVE  Writings'
BY DEF Writings, RefusalsTravelUp

LEMMA WritingsStep ==
  ASSUME TypeOK, RequestKnown, Writings, [ReplayNext]_allVars
  PROVE  Writings'
<1>0. /\ Depth \in Nat /\ layer \in 1..Depth /\ Layers = 1..Depth
      /\ \A i \in Layers : stats[i].number_of_writes \in Nat
  BY ChainAssumption DEF TypeOK, ChainTypeOK, Layers, Counters, DiskCounters
<1>1. ASSUME NEW line \in Lines, NEW ts \in FirstTime..MaxTime, Read(line, ts)
      PROVE  Writings'
  BY <1>1, WritingsKept DEF Read, ReadLine, Call, settings
<1>2. CASE Ask
  <2>1. phase \in {"check", "add"} /\ UNCHANGED <<request, respect_lower_admission>>
    BY <1>2 DEF Ask, ProcessStep, Process, Hit, Miss, Admit, MayAdd, Refuse, settings
  <2>2. request.key \in Keys
    BY <2>1 DEF RequestKnown, TypeOK
  <2>3. CASE Hit
    <3>1. written' = written
      BY <1>0, <1>2, <2>3, WritesUncounted DEF Ask, Writings, TypeOK
    <3>2. UNCHANGED contents /\ request.key \in contents[layer] /\ Return(TRUE)
      BY <2>3 DEF Hit
    <3>3. phase' = "add" => layer' + 1 = layer
      BY <1>0, <3>2 DEF Return
    <3> QED BY <1>0, <2>1, <3>1, <3>2, <3>3 DEF Writings, RefusalsTravelUp
  <2>4. CASE Miss
    <3>1. written' = written
      BY <1>0, <1>2, <2>4, WritesUncounted DEF Ask, Writings, TypeOK
    <3>2. \A i \in Layers : contents'[i] \subseteq contents[i]
      BY <2>4 DEF Miss, NotFound, TypeOK, ChainTypeOK
    <3>3. phase' = "add" => ~(layer' < Depth)
      BY <1>0, <2>4 DEF Miss
    <3> QED BY <1>0, <2>1, <3>1, <3>2, <3>3 DEF Writings, RefusalsTravelUp
  <2>5. CASE Admit
    <3>1. Blocks(request.size) \in Nat /\ Blocks(request.size) > 0
      BY <2>1, ChainAssumption DEF Blocks, RequestKnown
    <3>2. /\ stats'[layer].number_of_writes > stats[layer].number_of_writes
          /\ \A i \in Layers \ {layer} : stats'[i] = stats[i]
      BY <1>0, <2>5, <3>1 DEF Admit, TypeOK, ChainTypeOK, Counters, DiskCounters
    <3>3. written' = [written EXCEPT ![layer] = @ \cup {request.key}]
      <4>1. \A i \in Layers \ {layer} :
              ~(stats'[i].number_of_writes > stats[i].number_of_writes)
        BY <1>0, <3>2
      <4> QED BY <1>0, <1>2, <3>2, <4>1 DEF Ask, Writings
    <3>4. /\ contents'[layer] \subseteq contents[layer] \cup {request.key}
          /\ \A i \in Layers \ {layer} : contents'[i] = contents[i]
      BY <1>0, <2>5 DEF Admit, TypeOK, ChainTypeOK
    <3>5. phase = "add" /\ (respect_lower_admission[layer] => answer) /\ Return(TRUE)
      BY <2>5 DEF Admit, MayAdd
    <3>6. phase' = "add" => layer' + 1 = layer
      BY <1>0, <3>5 DEF Return
    <3>7. \A i \in Layers : contents'[i] \subseteq written'[i]
      BY <1>0, <3>3, <3>4 DEF Writings, RefusalsTravelUp
    <3>8. ASSUME NEW i \in 1..Depth-1, respect_lower_admission[i]
          PROVE  written'[i] \subseteq written'[i+1]
      <4>1. i \in Layers /\ i+1 \in Layers /\ written[i] \subseteq written[i+1]
            /\ written[i+1] \subseteq written'[i+1]
        BY <1>0, <3>3, <3>8 DEF Writings, RefusalsTravelUp
      <4>2. CASE i = layer
        <5>1. request.key \in written[i+1]
          BY <1>0, <3>5, <3>8, <4>2 DEF Writings
        <5> QED BY <3>3, <4>1, <4>2, <5>1 DEF Writings
      <4>3. CASE i # layer
        <5>1. written'[i] = written[i]
          BY <3>3, <4>1, <4>3 DEF Writings
        <5> QED BY <4>1, <5>1
      <4> QED BY <4>2, <4>3
    <3>9. written' \in [Layers -> SUBSET Keys] /\ request.key \in written'[layer]
      BY <1>0, <2>2, <3>3 DEF Writings
    <3> QED BY <2>1, <3>6, <3>7, <3>8, <3>9 DEF Writings, RefusalsTravelUp
  <2>6. CASE Refuse
    <3>1. UNCHANGED <<contents, stats>> /\ Return(FALSE)
      BY <2>6 DEF Refuse
    <3>2. written' = written
      BY <1>0, <1>2, <3>1 DEF Ask, Writings
    <3>3. phase' = "add" => ~answer'
      BY <3>1 DEF Return
    <3> QED BY <2>1, <3>1, <3>2, <3>3 DEF Writings, RefusalsTravelUp
  <2> QED BY <1>2, <2>3, <2>4, <2>5, <2>6 DEF Ask, ProcessStep, Process
<1>3. CASE MayReport
  BY <1>3, WritingsKept DEF MayReport, PeriodicReport, settings
<1>4. CASE MayPurge
  <2>1. \A i \in Layers : contents'[i] \subseteq contents[i]
    BY <1>4 DEF MayPurge, PeriodicPurge, Purge
  <2> QED BY <1>4, <2>1, WritingsKept DEF MayPurge, PeriodicPurge, settings
<1>5. CASE (\E line \in Lines : PassOver(line) \/ Abort(line)) \/ End \/ UNCHANGED allVars
  <2>1. UNCHANGED <<vars, written>>
    BY <1>5 DEF PassOver, Abort, End, allVars, replayVars
  <2> QED BY <2>1 DEF vars, chainVars, settings, Writings, RefusalsTravelUp
<1> QED BY <1>1, <1>2, <1>3, <1>4, <1>5 DEF ReplayNext

-------------------------------------------------------------------------------
(* The theorems *)

\* The inductive invariants of the emulator and of the outer loop hold.
THEOREM Replayed == ReplaySpec => [](IInv /\ LinesCounted /\ Windows /\ Writings)
<1>1. ReplayInit => IInv /\ LinesCounted /\ Windows /\ Writings
  <2> SUFFICES ASSUME ReplayInit PROVE IInv /\ LinesCounted /\ Windows /\ Writings
    OBVIOUS
  <2>1. phase = "idle" /\ number_of_urls = 0 /\ timer1 = 0 /\ now = 0
        /\ contents = [i \in Layers |-> {}]
    BY DEF ReplayInit, Init, ChainInit
  <2>2. LinesCounted
    BY <2>1, ReplayAssumption DEF ReplayInit, LinesCounted, Uncounted
  <2>3. Windows
    BY <2>1 DEF ReplayInit, Windows, ReportTime, Latest
  <2>4. Writings
    BY <2>1, ChainAssumption DEF ReplayInit, Writings, RefusalsTravelUp, Layers
  <2> QED BY <2>2, <2>3, <2>4, IInvInit DEF ReplayInit
<1>2. IInv /\ LinesCounted /\ Windows /\ Writings /\ [ReplayNext]_allVars
        => (IInv /\ LinesCounted /\ Windows /\ Writings)'
  BY ReplayIsEmulation, IInvStep, LinesCountedStep, WindowsStep, WritingsStep DEF IInv
<1> QED BY <1>1, <1>2, PTL DEF ReplaySpec

\* cache.cc counts each request at the head once, each miss again at the layer
\* below, and what the last layer missed as read from the origin.
THEOREM AddingUp == ReplaySpec => []LayersAddUp
<1>1. IInv => LayersAddUp
  BY AddsUpAtRest DEF IInv
<1> QED BY <1>1, Replayed, PTL

\* The infinite cache of emulator.cc bounds what any layers are reported to hit.
THEOREM InfiniteIsBest == ReplaySpec => []NoBetterThanInfinite
<1>1. IInv => NoBetterThanInfinite
  BY NoBetterAtRest DEF IInv
<1> QED BY <1>1, Replayed, PTL

\* Over any log, each report of emulator_periodic_reporting counts the requests
\* of one interval and the one that triggers it; the first is of one request,
\* and what the end of the log leaves to none is of one interval.
THEOREM ReportedInWindows == ReplaySpec => []ReportsAreWindows
<1>1. IInv /\ LinesCounted /\ Windows => ReportsAreWindows
  <2> SUFFICES ASSUME IInv, LinesCounted, Windows, phase = "idle"
               PROVE  ReportsAreWindows!2
    BY DEF ReportsAreWindows
  <2>1. /\ FirstTime \in Nat /\ ReportInterval \in Nat /\ lines_processed \in Nat
        /\ Len(reports) \in Nat /\ Len(unreported) \in Nat
    BY EmulatorAssumption DEF LinesCounted, Windows
  <2>2. \A k \in 1..Len(unreported) : Follows(Len(reports), unreported[k])
    BY <2>1 DEF Windows, Latest
  <2>3. ASSUME FirstTime > ReportInterval, NEW ts \in Nat, ts >= FirstTime
        PROVE  ~Follows(0, ts)
    BY <2>1, <2>3 DEF Follows, ReportTime
  <2>4. ASSUME FirstTime > ReportInterval, lines_processed > 0
        PROVE  reports # <<>> /\ Len(reports[1]) = 1
    <3>1. ASSUME reports = <<>> PROVE FALSE
      <4>1. Len(reports) = 0 /\ Len(unreported) > 0
        BY <2>1, <2>4, <3>1 DEF LinesCounted, Windows, Uncounted
      <4>2. unreported[1] \in Nat /\ unreported[1] >= FirstTime
        BY <2>1, <4>1 DEF Windows
      <4> QED BY <2>1, <2>2, <2>3, <2>4, <4>1, <4>2
    <3>2. 1 \in 1..Len(reports) /\ IsWindow(1) /\ reports[1] \in Seq(Nat)
      BY <2>1, <3>1 DEF Windows
    <3>3. Len(reports[1]) \in Nat /\ Len(reports[1]) > 0
      BY <3>2 DEF IsWindow
    <3>4. reports[1][1] \in Nat /\ reports[1][1] >= FirstTime
      BY <3>2, <3>3 DEF Windows
    <3>5. ~Follows(0, reports[1][1])
      BY <2>3, <2>4, <3>4
    <3>6. \A k \in 1..Len(reports[1])-1 : Follows(0, reports[1][k])
      BY <3>2 DEF IsWindow
    <3> DEFINE last == Len(reports[1])
    <3>7. ~(1 \in 1..last-1) /\ last \in Nat /\ last > 0
      BY <3>3, <3>5, <3>6
    <3> HIDE DEF last
    <3>8. last = 1
      BY <3>7
    <3> QED BY <3>1, <3>8 DEF last
  <2> QED BY <2>2, <2>4 DEF Windows, IsWindow
<1> QED BY <1>1, Replayed, PTL

\* populate_access_log_cache counts as processed what the reports count.
THEOREM CountedLines == ReplaySpec => []WellCounted
<1>1. IInv /\ LinesCounted /\ Windows /\ Writings => WellCounted
  <2> SUFFICES ASSUME IInv, LinesCounted, Windows, Writings PROVE WellCounted
    OBVIOUS
  <2>1. number_of_urls \in Nat /\ MaxLines \in Nat /\ Uncounted \in {0, 1}
    BY EmulatorAssumption, ReplayAssumption DEF IInv, TypeOK, Uncounted
  <2>2. ReplayTypeOK
    BY <2>1 DEF IInv, LinesCounted, Windows, Writings, ReplayTypeOK
  <2>3. ReportsAndLinesAgree
    BY <2>1 DEF LinesCounted, ReportsAndLinesAgree, Uncounted
  <2> QED BY <2>2, <2>3 DEF WellCounted
<1> QED BY <1>1, Replayed, PTL

\* Over any log and any policies, a layer of cache.cc that respects the refusals
\* of the one below has written nothing that one did not write before.
THEOREM RefusalsRespected == ReplaySpec => []RefusalsTravelUp
<1>1. Writings => RefusalsTravelUp
  BY DEF Writings
<1> QED BY <1>1, Replayed, PTL
=============================================================================
