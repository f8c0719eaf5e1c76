------------------------------ MODULE CustomerStats ------------------------------
(***************************************************************************)
(* compute_periodic_stats of lib/sim_structs.cc, and its two copies in the *)
(* size-based and the cost-based LRU: at each periodic call the byte hit   *)
(* ratio of every customer is compared with that of the call before, and a *)
(* customer whose ratio fell is protected from size-based deletion until   *)
(* it rises, if the configuration asks for that.                           *)
(*                                                                         *)
(* Nothing in the repository calls it or fills its counters: the windows   *)
(* of traffic between two calls are inputs.  The configuration is parsed   *)
(* before them, as the constructor of Emulator does.                       *)
(***************************************************************************)
EXTENDS Configuration

CONSTANTS
  Customers,
  Windows      \* traffic of a customer between two calls: [hit, all], in bytes

ASSUME CustomerAssumption ==
  /\ Windows \subseteq [hit : Nat, all : Nat]
  /\ \A w \in Windows : w.hit <= w.all
  /\ "floor_customer_loss" \in Switches

VARIABLES
  periodic_bytes_hit, periodic_bytes_hit_and_miss,   \* customer -> bytes
  periodic_byte_hit_ratio,     \* customer -> percentage, truncated
  skip_size_based_deletion,    \* customer -> protected
  last,    \* history: the window of the last call that had traffic
  fell     \* history: customer -> the last two such windows, at protection

statsVars == <<periodic_bytes_hit, periodic_bytes_hit_and_miss,
               periodic_byte_hit_ratio, skip_size_based_deletion, last, fell>>
allVars == <<vars, statsVars>>

NoTraffic == [hit |-> 0, all |-> 0]

StatsTypeOK ==
  /\ periodic_bytes_hit \in [Customers -> Nat]
  /\ periodic_bytes_hit_and_miss \in [Customers -> Nat]
  /\ periodic_byte_hit_ratio \in [Customers -> 0..100]
  /\ skip_size_based_deletion \in [Customers -> BOOLEAN]
  /\ last \in [Customers -> Windows \cup {NoTraffic}]
  /\ fell \in [Customers -> [before : Windows \cup {NoTraffic},
                             after : Windows \cup {NoTraffic}]]

StatsInit ==
  /\ Init
  /\ periodic_bytes_hit = [c \in Customers |-> 0]
  /\ periodic_bytes_hit_and_miss = [c \in Customers |-> 0]
  /\ periodic_byte_hit_ratio = [c \in Customers |-> 0]
  /\ skip_size_based_deletion = [c \in Customers |-> FALSE]
  /\ last = [c \in Customers |-> NoTraffic]
  /\ fell = [c \in Customers |-> [before |-> NoTraffic, after |-> NoTraffic]]

\* The counters of one customer between two calls, as a whole.
Serve(c, w) ==
  /\ state = "parsed"
  /\ periodic_bytes_hit_and_miss[c] = 0
  /\ periodic_bytes_hit' = [periodic_bytes_hit EXCEPT ![c] = w.hit]
  /\ periodic_bytes_hit_and_miss' = [periodic_bytes_hit_and_miss EXCEPT ![c] = w.all]
  /\ UNCHANGED <<vars, periodic_byte_hit_ratio, skip_size_based_deletion, last, fell>>

-------------------------------------------------------------------------------
(* Faulty variants of the operators below *)

\* The rise that ends the protection is as large as the fall that began it.
RoseByTwo(diff) == diff >= 2

-------------------------------------------------------------------------------
(* compute_periodic_stats *)

\* unsigned long = 100 * hit / all: the fraction is dropped.
Percent(hit, all) == (100 * hit) \div all

Fell(diff) == diff <= -2
Rose(diff) == diff >= 1

HasTraffic(c) == periodic_bytes_hit_and_miss[c] > 0
NewRatio(c) == IF HasTraffic(c)
               THEN Percent(periodic_bytes_hit[c], periodic_bytes_hit_and_miss[c])
               ELSE periodic_byte_hit_ratio[c]
Diff(c) == NewRatio(c) - periodic_byte_hit_ratio[c]

Protected(c) ==
  IF ~switch["floor_customer_loss"] THEN skip_size_based_deletion[c]
  ELSE \/ Fell(Diff(c))
       \/ skip_size_based_deletion[c] /\ ~Rose(Diff(c))

Window(c) == [hit |-> periodic_bytes_hit[c], all |-> periodic_bytes_hit_and_miss[c]]

\* A customer without traffic keeps ratio and protection.
compute_periodic_stats ==
  /\ state = "parsed"
  /\ skip_size_based_deletion' = [c \in Customers |-> Protected(c)]
  /\ periodic_byte_hit_ratio' = [c \in Customers |-> NewRatio(c)]
  /\ periodic_bytes_hit' = [c \in Customers |-> 0]
  /\ periodic_bytes_hit_and_miss' = [c \in Customers |-> 0]
  /\ last' = [c \in Customers |-> IF HasTraffic(c) THEN Window(c) ELSE last[c]]
  /\ fell' = [c \in Customers |->
                IF Protected(c) /\ ~skip_size_based_deletion[c]
                THEN [before |-> last[c], after |-> Window(c)] ELSE fell[c]]
  /\ UNCHANGED vars

StatsNext ==
  \/ Next /\ UNCHANGED statsVars
  \/ \E c \in Customers, w \in Windows : Serve(c, w)
  \/ compute_periodic_stats

StatsSpec == StatsInit /\ [][StatsNext]_allVars

-------------------------------------------------------------------------------
(* Properties *)

\* Nobody is protected who has recovered: through any number of quiet or
\* busy periods, the ratio of a protected customer is at most the one it
\* had fallen to, by more than 1%, when its protection began; and nobody is
\* protected unless some line of the configuration asked for it.
ProtectedHaveNotRecovered ==
  \A c \in Customers : skip_size_based_deletion[c] =>
    LET before == fell[c].before
        after == fell[c].after
    IN /\ periodic_byte_hit_ratio[c] <= Percent(after.hit, after.all)
       /\ 100 * (before.hit * after.all - after.hit * before.all) > after.all * before.all
       /\ Says("floor_customer_loss", 1)

\* A parsed configuration means what it says, with the types of the state,
\* while the program runs under it.
WellConfigured == TypeOK /\ StatsTypeOK /\ ParsedAsAWhole
===============================================================================
