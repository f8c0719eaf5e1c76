------------------------------ MODULE FIFOEviction ------------------------------
(***************************************************************************)
(* lib/fifo_eviction.cc: first in, first out.  The file is the LRU policy  *)
(* with a get that leaves the node where it is, and so is this module: it  *)
(* has the state of LRUEviction, and its put, purge and hourly_purging.    *)
(***************************************************************************)
EXTENDS LRUEviction

VARIABLE put_at     \* history: resident key -> time of its put

FIFOVars == <<vars, put_at>>

FIFOTypeOK ==
  /\ TypeOK
  /\ put_at \in [DOMAIN mapping -> 0..MaxTime]

FIFOInit == Init /\ put_at = [k \in {} |-> 0]

\* The history of what stays.
Forget == put_at' = Restrict(put_at, DOMAIN mapping')

-------------------------------------------------------------------------------
(* Faulty variants of the operations below: each is a slip this code could  *)
(* have, and the runs show that some property catches it.                   *)

\* The two lines that are commented out in get are not.
GetMoving(k, ts) ==
  /\ Get(k, ts)
  /\ UNCHANGED put_at

-------------------------------------------------------------------------------
(* Operations *)

FIFOPut(k, d, ts) ==
  /\ Put(k, d, ts)
  /\ put_at' = [x \in DOMAIN mapping \cup {k} |-> IF x = k THEN ts ELSE put_at[x]]

\* The timestamp of the node becomes that of the request; the node stays.
FIFOGet(k, ts) ==
  /\ loop = "idle"
  /\ k \in DOMAIN mapping
  /\ Advance(ts)
  /\ mapping' = [mapping EXCEPT ![k].timestamp = ts]
  /\ UNCHANGED <<list, current_size, cache_item_count, cache_filled_once, loop, put_at>>

FIFOHourlyPurging(ts) == HourlyPurging(ts) /\ UNCHANGED put_at

FIFOLoopBody == LoopBody /\ Forget

FIFOLoopExit == LoopExit /\ UNCHANGED put_at

FIFOWork == FIFOLoopBody \/ FIFOLoopExit

-------------------------------------------------------------------------------
(* Properties *)

\* The list, the hash map and the counts tell the same story as for LRU, the
\* capacity holds between operations, and the state is well typed.
FIFOWellFormed == FIFOTypeOK /\ Consistent /\ FitsAtRest

\* README: "Items are purged in first-in-first-out order".  A purge takes an
\* object only if none of those that stay was put before it, however often
\* it was requested since.
EvictsFirstIn ==
  [][\A k \in DOMAIN mapping \ DOMAIN mapping', i \in DOMAIN mapping' :
        loop # "idle" => put_at[k] <= put_at[i]]_FIFOVars
==============================================================================
