------------------------------- MODULE CacheChain -------------------------------
(***************************************************************************)
(* lib/cache.cc: the layers of the emulated cache, linked by next, and the *)
(* recursion of Cache::process through them.  A step is what one           *)
(* activation of process does before it calls the layer below, or after    *)
(* that call has returned.                                                 *)
(*                                                                         *)
(* The eviction policy of a layer is any eviction store here, and its      *)
(* admission policy one of those without a memory: "prob" answers freely,  *)
(* as second_hit may.  What a layer counts must add up whichever policies  *)
(* it was given.                                                           *)
(***************************************************************************)
EXTENDS Admissions

CONSTANTS Keys,       \* cache keys (city64_str)
          Depth,      \* number of layers; layer 1 is the head, Depth the tail
          BlockSize,  \* number_of_bytes_per_read and _per_write
          Configurations,     \* the admission policies of the layers, in order
          DoHourlyPurging     \* layers built with do_hourly_purging

ASSUME ChainAssumption ==
  /\ Depth \in Nat \ {0}
  /\ BlockSize \in Nat \ {0}
  /\ Configurations \subseteq [1..Depth -> AdmissionNames]
  /\ DoHourlyPurging \subseteq 1..Depth

\* add_to_tail: the order in which the layers were added.
Layers == 1..Depth

VARIABLES
  contents,                 \* layer -> keys its eviction policy holds
  stats,                    \* layer -> the counters of its Cache object
  respect_lower_admission,  \* layer -> BOOLEAN, fixed when it is built
  admission,                \* layer -> its admission policy, likewise
  phase,                    \* where the thread is: "check" and "add" in a layer,
                            \* the rest between two calls of head->process
  layer,                    \* whose activation of process runs
  request,                  \* [key, size] of the item being processed
  answer                    \* what the call to the layer below returned

settings == <<respect_lower_admission, admission>>
chainVars == <<contents, stats, settings, phase, layer, request, answer>>

RequestCounters == {"hit", "miss", "byte_hit", "byte_miss", "reads_from_origin"}
DiskCounters == {"number_of_reads", "number_of_writes", "number_of_purges"}
Counters == RequestCounters \cup DiskCounters
Phases == {"idle", "check", "add", "returned", "reported"}

ChainTypeOK ==
  /\ contents \in [Layers -> SUBSET Keys]
  /\ stats \in [Layers -> [Counters -> Nat]]
  /\ respect_lower_admission \in [Layers -> BOOLEAN]
  /\ admission \in Configurations
  /\ phase \in Phases
  /\ layer \in Layers
  /\ answer \in BOOLEAN

NoCounts == [c \in Counters |-> 0]

ChainInit ==
  /\ contents = [i \in Layers |-> {}]
  /\ stats = [i \in Layers |-> NoCounts]
  /\ respect_lower_admission \in [Layers -> BOOLEAN]
  /\ admission \in Configurations
  /\ phase = "idle"
  /\ layer = 1
  /\ request = [key |-> "", size |-> 0]
  /\ answer = FALSE

\* Disk operations an object of n bytes takes.
Blocks(n) == (n \div BlockSize) + 1

\* The activation under way ends with the value v: the layer above goes on.
Return(v) ==
  IF layer = 1
  THEN phase' = "returned" /\ answer' = v /\ UNCHANGED layer
  ELSE phase' = "add" /\ answer' = v /\ layer' = layer - 1

\* check does not find the key, or finds that its time is up and deletes it
\* (the FIFO with age).
NotFound ==
  \/ request.key \notin contents[layer] /\ UNCHANGED contents
  \/ /\ request.key \in contents[layer]
     /\ contents' = [contents EXCEPT ![layer] = @ \ {request.key}]

-------------------------------------------------------------------------------
(* Faulty variants of the steps below *)

\* The bytes of a miss are counted only at the last layer.
MissBytesAtOriginOnly ==
  /\ phase = "check"
  /\ NotFound
  /\ IF layer < Depth
     THEN /\ layer' = layer + 1
          /\ stats' = [stats EXCEPT ![layer].miss = @ + 1]
          /\ UNCHANGED <<phase, answer>>
     ELSE /\ phase' = "add"
          /\ answer' = TRUE
          /\ stats' = [stats EXCEPT ![layer].miss = @ + 1,
                                    ![layer].byte_miss = @ + request.size,
                                    ![layer].reads_from_origin = @ + request.size]
          /\ UNCHANGED layer
  /\ UNCHANGED <<settings, request>>

\* A hit is passed on down the chain, as a miss is.
HitAsksBelow ==
  /\ phase = "check"
  /\ request.key \in contents[layer]
  /\ stats' = [stats EXCEPT ![layer].hit = @ + 1,
                            ![layer].byte_hit = @ + request.size,
                            ![layer].number_of_reads = @ + Blocks(request.size)]
  /\ IF layer < Depth THEN layer' = layer + 1 /\ UNCHANGED <<phase, answer>>
                      ELSE Return(TRUE)
  /\ UNCHANGED <<contents, settings, request>>

\* The answer of the layer below is not looked at.
MayAddAlways == phase = "add"

-------------------------------------------------------------------------------
(* Cache::process *)

\* head->process(ip_inst) is called.
Call(key, size) ==
  /\ phase = "idle"
  /\ phase' = "check"
  /\ layer' = 1
  /\ request' = [key |-> key, size |-> size]
  /\ answer' = FALSE
  /\ UNCHANGED <<contents, stats, settings>>

\* check finds the key: the eviction policy is told (get) and the layers
\* above are told to take the object.
Hit ==
  /\ phase = "check"
  /\ request.key \in contents[layer]
  /\ stats' = [stats EXCEPT ![layer].hit = @ + 1,
                            ![layer].byte_hit = @ + request.size,
                            ![layer].number_of_reads = @ + Blocks(request.size)]
  /\ Return(TRUE)
  /\ UNCHANGED <<contents, settings, request>>

\* A miss is counted and the layer below asked; below the last is the origin,
\* after which there is nobody's refusal to respect.
Miss ==
  /\ phase = "check"
  /\ NotFound
  /\ IF layer < Depth
     THEN /\ layer' = layer + 1
          /\ stats' = [stats EXCEPT ![layer].miss = @ + 1,
                                    ![layer].byte_miss = @ + request.size]
          /\ UNCHANGED <<phase, answer>>
     ELSE /\ phase' = "add"
          /\ answer' = TRUE
          /\ stats' = [stats EXCEPT ![layer].miss = @ + 1,
                                    ![layer].byte_miss = @ + request.size,
                                    ![layer].reads_from_origin = @ + request.size]
          /\ UNCHANGED layer
  /\ UNCHANGED <<settings, request>>

\* add is called: the layer below answered true, or this layer does not care.
MayAdd == phase = "add" /\ (answer \/ ~respect_lower_admission[layer])

\* The admission policy lets the object in and put makes room for it; put
\* may purge the object itself, and add answers true all the same.
Admit ==
  /\ MayAdd
  /\ TRUE \in Verdicts(admission[layer], request.size)
  /\ \E lost \in SUBSET (contents[layer] \cup {request.key}) :
       contents' = [contents EXCEPT ![layer] = (@ \cup {request.key}) \ lost]
  /\ stats' = [stats EXCEPT ![layer].number_of_writes = @ + Blocks(request.size)]
  /\ Return(TRUE)
  /\ UNCHANGED <<settings, request>>

\* The admission policy refuses the object, or the layer below did and
\* respect_lower_admission is set.
Refuse ==
  /\ phase = "add"
  /\ MayAdd => FALSE \in Verdicts(admission[layer], request.size)
  /\ Return(FALSE)
  /\ UNCHANGED <<contents, stats, settings, request>>

Process == Hit \/ Miss \/ Admit \/ Refuse

-------------------------------------------------------------------------------
(* Reporting *)

Cleared(counts, counters) ==
  [c \in Counters |-> IF c \in counters THEN 0 ELSE counts[c]]

clear_counters(counts) == Cleared(counts, RequestCounters)
reset_disk_counters(counts) == Cleared(counts, DiskCounters)

\* A layer reports its counters and forgets them.
periodic_output(counts) == reset_disk_counters(clear_counters(counts))

\* Every layer reports, from the head down.
ResetCounters ==
  stats' = [i \in Layers |-> periodic_output(stats[i])]

\* What an hourly purge may take from a layer.
hourly_purging(i) == IF i \in DoHourlyPurging THEN SUBSET contents[i] ELSE {{}}

\* A counter summed from the head down (get_hit_total, get_hit_bytes_total).
Total(counter) ==
  LET total[i \in 0..Depth] == IF i = 0 THEN 0 ELSE total[i-1] + stats[i][counter]
  IN  total[Depth]
==============================================================================
