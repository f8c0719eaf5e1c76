-------------------------------- MODULE Emulator --------------------------------
(***************************************************************************)
(* lib/emulator.cc: the replay of the access log.  Each accepted line goes *)
(* through the infinite cache, then through the chain of layers, then the  *)
(* periodic functions look at the clock.                                   *)
(***************************************************************************)
EXTENDS CacheChain

CONSTANTS
  Lines,                  \* the log lines that can occur, less their timestamps
  FrontEndMode,           \* front_end_mode
  PartialObjectCaching,   \* partial_object_caching
  ReportInterval,         \* 900 seconds
  PurgeInterval,          \* 3600 seconds
  FirstTime, MaxTime,     \* the timestamps of the log
  MaxUrls                 \* bound on the lines of one report

ASSUME EmulatorAssumption ==
  /\ FirstTime \in Nat /\ MaxTime \in Nat
  /\ ReportInterval \in Nat /\ PurgeInterval \in Nat /\ MaxUrls \in Nat

VARIABLES
  requested_item_map,   \* keys ever requested: the infinite cache
  infinite,             \* its counters
  traffic, number_of_urls,
  timer1, timer2,       \* last report, last hourly purge
  now                   \* timestamp of the line being processed

globalVars == <<requested_item_map, infinite, traffic, number_of_urls,
                timer1, timer2, now>>
vars == <<chainVars, globalVars>>

InfiniteCounters == {"hit", "miss", "hit_bytes", "miss_bytes"}

TypeOK ==
  /\ ChainTypeOK
  /\ requested_item_map \subseteq Keys
  /\ infinite \in [InfiniteCounters -> Nat]
  /\ traffic \in Nat
  /\ number_of_urls \in 0..MaxUrls
  /\ timer1 \in 0..MaxTime
  /\ timer2 \in 0..MaxTime
  /\ now \in 0..MaxTime

NothingInfinite == [c \in InfiniteCounters |-> 0]

Init ==
  /\ ChainInit
  /\ requested_item_map = {}
  /\ infinite = NothingInfinite
  /\ traffic = 0
  /\ number_of_urls = 0
  /\ timer1 = 0
  /\ timer2 = 0
  /\ now = 0

-------------------------------------------------------------------------------
(* What a line says *)

\* Lines whose cache status shows that nothing was served from a cache.
BadStatuses == IF FrontEndMode THEN {"CONFIG_NOCACHE"} ELSE {"CONFIG_NOCACHE", "NONE"}

\* The filters of process_access_log_line, in one.  (That on the age of the
\* line compares with initial_cache_dump_last_ts, which nothing sets.)
Accepted(line) ==
  /\ {"size", "bytes_out"} \subseteq line.numeric
  /\ line.status \notin BadStatuses
  /\ line.url # ""
  /\ line.code \in 200..400

IsPartial(line) == PartialObjectCaching /\ line.code = 206

\* The cache key: the URL without its query string, with the byte range
\* when partial objects are cached apart.
KeyOf(line) == IF IsPartial(line) THEN <<line.url, line.range>> ELSE <<line.url>>

\* An object of unknown size, or a part of one, is as large as what was sent.
SizeOf(line) == IF IsPartial(line) \/ line.size = 0 THEN line.bytes_out ELSE line.size

\* The filters let only lines through that have an object and a size.
ASSUME LinesAssumption ==
  \A line \in Lines : Accepted(line) => KeyOf(line) \in Keys /\ SizeOf(line) \in Nat

-------------------------------------------------------------------------------
(* Faulty variants of the steps below *)

\* The report of a line read at a quiet moment is put off to the next one.
DueTwice(timer, interval) == now - timer > 2 * interval

-------------------------------------------------------------------------------
(* Steps *)

\* The infinite cache takes everything and evicts nothing.
CountInfinite(key, size) ==
  /\ infinite' = IF key \in requested_item_map
                 THEN [infinite EXCEPT !["hit"] = @ + 1, !["hit_bytes"] = @ + size]
                 ELSE [infinite EXCEPT !["miss"] = @ + 1, !["miss_bytes"] = @ + size]
  /\ requested_item_map' = requested_item_map \cup {key}

\* process_access_log_line up to the call of head->process; a line that is
\* not accepted changes nothing.
ReadLine(line, ts) ==
  /\ number_of_urls < MaxUrls
  /\ ts >= now
  /\ Accepted(line)
  /\ now' = ts
  /\ number_of_urls' = number_of_urls + 1
  /\ traffic' = traffic + SizeOf(line)
  /\ CountInfinite(KeyOf(line), SizeOf(line))
  /\ Call(KeyOf(line), SizeOf(line))
  /\ UNCHANGED <<timer1, timer2>>

\* A step of the recursion through the layers.
ProcessStep == Process /\ UNCHANGED globalVars

\* The condition of both timers.
Due(timer, interval) == now - timer > interval

\* emulator_periodic_reporting: every counter is printed and reset.
Report ==
  /\ timer1' = now
  /\ traffic' = 0
  /\ number_of_urls' = 0
  /\ infinite' = NothingInfinite
  /\ ResetCounters

\* hourly_purging of every layer.
Purge ==
  /\ timer2' = now
  /\ \E lost \in [Layers -> SUBSET Keys] :
       /\ \A i \in Layers : lost[i] \in hourly_purging(i)
       /\ contents' = [i \in Layers |-> contents[i] \ lost[i]]

\* execute_periodic_functions, in two steps: the report first.
PeriodicReport ==
  /\ phase = "returned"
  /\ phase' = "reported"
  /\ IF Due(timer1, ReportInterval)
     THEN Report
     ELSE UNCHANGED <<timer1, traffic, number_of_urls, infinite, stats>>
  /\ UNCHANGED <<timer2, contents, settings, layer, request, answer,
                 requested_item_map, now>>

PeriodicPurge ==
  /\ phase = "reported"
  /\ phase' = "idle"
  /\ IF Due(timer2, PurgeInterval) THEN Purge ELSE UNCHANGED <<timer2, contents>>
  /\ UNCHANGED <<timer1, traffic, number_of_urls, infinite, stats,
                 settings, layer, request, answer,
                 requested_item_map, now>>

Next ==
  \/ \E line \in Lines, ts \in FirstTime..MaxTime : ReadLine(line, ts)
  \/ ProcessStep
  \/ PeriodicReport
  \/ PeriodicPurge

\* One thread that waits for nothing but its input: a line that was read is
\* processed to its end.
Spec == Init /\ [][Next]_vars /\ WF_vars(ProcessStep \/ PeriodicReport \/ PeriodicPurge)

-------------------------------------------------------------------------------
(* Properties *)

\* The moments at which no request is inside the chain, a report among them.
AtRest == phase \in {"idle", "returned", "reported"}

\* What the layers count adds up: each request is a hit or a miss of the
\* head, each miss of a layer is a request to the next, only the last one
\* reads from the origin and it reads what it missed; in objects and bytes.
\* So the total hit ratio, the hits of all layers over the requests of the
\* head, never counts a request twice.
LayersAddUp ==
  AtRest =>
    /\ stats[1].hit + stats[1].miss = number_of_urls
    /\ stats[1].byte_hit + stats[1].byte_miss = traffic
    /\ \A i \in 1..Depth - 1 :
         /\ stats[i].miss = stats[i+1].hit + stats[i+1].miss
         /\ stats[i].byte_miss = stats[i+1].byte_hit + stats[i+1].byte_miss
         /\ stats[i].reads_from_origin = 0
    /\ stats[Depth].reads_from_origin = stats[Depth].byte_miss

\* No chain of layers, whatever its policies, is reported to hit more than
\* the infinite cache of the same requests, in objects or in bytes.
NoBetterThanInfinite ==
  AtRest =>
    /\ infinite["hit"] + infinite["miss"] = number_of_urls
    /\ infinite["hit_bytes"] + infinite["miss_bytes"] = traffic
    /\ Total("hit") <= infinite["hit"]
    /\ Total("byte_hit") <= infinite["hit_bytes"]
==============================================================================
