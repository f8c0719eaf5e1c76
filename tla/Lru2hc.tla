---------------------------------- MODULE Lru2hc ----------------------------------
(***************************************************************************)
(* src/lru_2hc.cpp: the program that is shipped.  main builds one layer, a *)
(* hard drive with LRUEviction behind SecondHitAdmissionRot (the kernel    *)
(* cache is built but never added), and runs the Emulator over it.         *)
(*                                                                         *)
(* The reading of lines and the periodic work are the steps of Emulator;   *)
(* Cache::process of the one layer is written here with its two policies   *)
(* in place of the free choices of CacheChain, and shown to implement them. *)
(***************************************************************************)
EXTENDS Integers, Sequences, FiniteSets

CONSTANTS
  Keys, Lines, Sizes,
  hd_max_size_bytes,                    \* capacity of the hard drive
  Buckets, Hashes, NVAL, bf_reset_int,  \* the admission policy
  BlockSize, ReportInterval, PurgeInterval,
  FirstTime, MaxTime, MaxUrls           \* bounds, as in Emulator

VARIABLES
  list, mapping, current_size, cache_item_count, cache_filled_once, loop,
  entries, admitted, seen,
  phase, request, answer, stats,
  requested_item_map, infinite, traffic, number_of_urls, timer1, timer2, now,
  held,      \* history: the keys resident when the put under way began
  requests   \* history: requests of each key, counted up to NVAL + 1

hd_evict == INSTANCE LRUEviction WITH Capacity <- hd_max_size_bytes
hd_ad == INSTANCE SecondHitAdmissionRot WITH
           MaxAge <- bf_reset_int, CounterRange <- 256

\* The emulator as main sets it up: one layer, no hourly purging, no partial
\* objects.  Its layer changes in one step where a put takes several: until
\* the put returns, it still holds what it held.
em == INSTANCE Emulator WITH
        Depth <- 1,
        Configurations <- {<<"prob">>},
        DoHourlyPurging <- {},
        SizeThreshold <- 0, Prob <- 1, RandMax <- 1,
        FrontEndMode <- FALSE,
        PartialObjectCaching <- FALSE,
        contents <- [i \in {1} |-> IF loop = "put" THEN held ELSE DOMAIN mapping],
        respect_lower_admission <- [i \in {1} |-> FALSE],
        admission <- [i \in {1} |-> "prob"],
        layer <- 1

ASSUME Lru2hcAssumption ==
  /\ hd_max_size_bytes \in Nat
  /\ IsFiniteSet(Buckets)
  /\ Hashes \in [Keys -> Seq(Buckets)]
  /\ \A k \in Keys : Hashes[k] # <<>>
  /\ NVAL \in Nat /\ bf_reset_int \in Nat
  /\ BlockSize \in Nat \ {0}
  /\ ReportInterval \in Nat /\ PurgeInterval \in Nat
  /\ FirstTime \in Nat /\ MaxTime \in Nat /\ MaxUrls \in Nat
  /\ \A line \in Lines :
       em!Accepted(line) => em!KeyOf(line) \in Keys /\ em!SizeOf(line) \in Nat

evictionVars == <<list, mapping, current_size, cache_item_count,
                  cache_filled_once, loop>>
admissionVars == <<entries, admitted, seen>>
replayVars == <<requested_item_map, infinite, traffic, number_of_urls,
                timer1, timer2, now>>
vars == <<evictionVars, admissionVars, replayVars, phase, request, answer,
          stats, held, requests>>

Init ==
  /\ hd_evict!Init
  /\ hd_ad!Init
  /\ held = {}
  /\ requests = [k \in Keys |-> 0]
  /\ stats = <<em!NoCounts>>
  /\ em!Init

Resident == DOMAIN mapping

-------------------------------------------------------------------------------
(* Faulty variants of the steps below *)

\* The other policy of the source, commented out there: NullAdmission.
AddUnasked ==
  /\ phase = "add"
  /\ loop = "idle"
  /\ hd_evict!Put(request.key, request.size, now)
  /\ held' = Resident
  /\ UNCHANGED <<admissionVars, phase, request, answer, stats,
                 replayVars, requests>>

\* A hit of which the eviction policy is not told.
HitUntold ==
  /\ phase = "check"
  /\ request.key \in Resident
  /\ stats' = [stats EXCEPT ![1].hit = @ + 1,
                            ![1].byte_hit = @ + request.size,
                            ![1].number_of_reads = @ + em!Blocks(request.size)]
  /\ phase' = "returned"
  /\ answer' = TRUE
  /\ UNCHANGED <<evictionVars, admissionVars, request, replayVars, held, requests>>

\* A hit is counted in objects, not in bytes or reads.
HitUncounted ==
  /\ phase = "check"
  /\ request.key \in Resident
  /\ hd_evict!Get(request.key, now)
  /\ stats' = [stats EXCEPT ![1].hit = @ + 1]
  /\ phase' = "returned"
  /\ answer' = TRUE
  /\ UNCHANGED <<admissionVars, request, replayVars, held, requests>>

-------------------------------------------------------------------------------
(* Steps *)

\* The emulator reads a line, and asks the one layer for its object.
ReadLine(line, ts) ==
  /\ UNCHANGED <<evictionVars, admissionVars, held>>
  /\ UNCHANGED stats
  /\ requests' = [requests EXCEPT ![em!KeyOf(line)] =
                    IF @ > NVAL THEN @ ELSE @ + 1]
  /\ em!ReadLine(line, ts)

\* check finds the key and get moves it to the head: the admission policy
\* does not hear of the request.
Hit ==
  /\ phase = "check"
  /\ request.key \in Resident
  /\ hd_evict!Get(request.key, now)
  /\ stats' = [stats EXCEPT ![1].hit = @ + 1,
                            ![1].byte_hit = @ + request.size,
                            ![1].number_of_reads = @ + em!Blocks(request.size)]
  /\ phase' = "returned"
  /\ answer' = TRUE
  /\ UNCHANGED <<admissionVars, request, replayVars, held, requests>>

\* There is no layer below: the origin is read.
Miss ==
  /\ phase = "check"
  /\ request.key \notin Resident
  /\ stats' = [stats EXCEPT ![1].miss = @ + 1,
                            ![1].byte_miss = @ + request.size,
                            ![1].reads_from_origin = @ + request.size]
  /\ phase' = "add"
  /\ answer' = TRUE
  /\ UNCHANGED <<evictionVars, admissionVars, request, replayVars,
                 held, requests>>

\* Cache::add: the filters are asked, and learn; an admitted object is put,
\* up to the purge loop.  No customer bypasses the filters: no_bf_cust is
\* filled from a configuration file, and main reads none.
Add ==
  /\ phase = "add"
  /\ loop = "idle"
  /\ hd_ad!Check(request.key, FALSE, now)
  /\ IF admitted'
     THEN /\ hd_evict!Put(request.key, request.size, now)
          /\ held' = Resident
          /\ UNCHANGED <<phase, answer>>
     ELSE /\ phase' = "returned"
          /\ answer' = FALSE
          /\ UNCHANGED <<evictionVars, held>>
  /\ UNCHANGED <<request, stats, replayVars, requests>>

\* One turn of the purge loop of put.
PurgeOne ==
  /\ phase = "add"
  /\ hd_evict!LoopBody
  /\ UNCHANGED <<admissionVars, phase, request, answer, stats,
                 replayVars, held, requests>>

\* put returns, the write is counted, and so do add and process.
Added ==
  /\ phase = "add"
  /\ hd_evict!LoopExit
  /\ stats' = [stats EXCEPT ![1].number_of_writes = @ + em!Blocks(request.size)]
  /\ phase' = "returned"
  /\ answer' = TRUE
  /\ held' = {}
  /\ UNCHANGED <<admissionVars, request, replayVars, requests>>

\* The periodic functions; the layer was built without hourly purging.
Periodic ==
  /\ UNCHANGED <<evictionVars, admissionVars, held, requests>>
  /\ em!PeriodicReport \/ em!PeriodicPurge

Process == Hit \/ Miss \/ Add \/ PurgeOne \/ Added

Next ==
  \/ \E line \in Lines, ts \in FirstTime..MaxTime : ReadLine(line, ts)
  \/ Process
  \/ Periodic

\* One thread: a line that was read is processed to its end.
Spec == Init /\ [][Next]_vars /\ WF_vars(Process \/ Periodic)

-------------------------------------------------------------------------------
(* Properties *)

\* The last NVAL times the filters heard of the key are within bf_reset_int.
HeardOfOften(k) ==
  /\ Len(seen[k]) = NVAL
  /\ \A i \in DOMAIN seen[k] : now - seen[k][i] <= bf_reset_int

\* N-hit caching from end to end: an object that was missed NVAL times in
\* the last bf_reset_int seconds and is missed again is on the disk when its
\* request returns, unless it could never fit.  Neither a rotation of the
\* filters nor the purge that makes room for it loses it.
NHitIsCached ==
  \A k \in Keys :
    /\ phase = "add" /\ loop = "idle" /\ request.key = k
    /\ request.size <= hd_max_size_bytes
    /\ HeardOfOften(k)
    ~> phase = "returned" /\ request.key = k /\ k \in Resident

\* Its safety half: such a request never returns with its object off the disk.
NHitIsKept ==
  [][/\ phase = "add" /\ phase' = "returned"
     /\ request.size <= hd_max_size_bytes
     /\ HeardOfOften(request.key)
     => request.key \in Resident']_vars

\* Until the next line is read, an object that was just got or put stands at
\* the head, stamped with the time of its request.
LatestAtHead ==
  phase # "check" /\ request.key \in Resident =>
    Head(list) = request.key /\ mapping[request.key].timestamp = now

\* The disk under the whole program is what the policy promises of itself:
\* its map, list and counts agree, its objects fit whenever a line is read,
\* and they stand in the order of their last requests in the log.
DiskIsLRU ==
  /\ hd_evict!Consistent
  /\ hd_evict!FitsAtRest
  /\ hd_evict!OldestAtTail
  /\ LatestAtHead

\* No one-hit wonders on the disk: an object whose key has a bucket of the
\* filters to itself is there only if the earlier requests for it filled that
\* bucket, each counting once per hash that picks it; with one hash, only if
\* it was requested more than NVAL times, whatever was evicted, rotated or
\* requested in between.
NoOneHitWonders ==
  \A k \in Resident, b \in Buckets :
    /\ hd_ad!Picks(k, b) > 0
    /\ \A other \in Keys \ {k} : hd_ad!Picks(other, b) = 0
    => NVAL <= (requests[k] - 1) * hd_ad!Picks(k, b)

\* The program is the emulator with a layer that answers freely: what was
\* shown of the counters of any chain of layers holds of this one.
ImplementsEmulator == em!Init /\ [][em!Next]_em!vars
===============================================================================
