--------------------------- MODULE SecondHitAdmission ---------------------------
(***************************************************************************)
(* lib/second_hit_admission.cc: admission by one Bloom filter that is      *)
(* never emptied.                                                          *)
(***************************************************************************)
EXTENDS BloomFilter

VARIABLES filter,    \* BF
          admitted   \* what the last check returned

Init ==
  /\ filter = EmptyFilter
  /\ admitted = FALSE

\* check.  A customer of no_bf_cust (bypass) is let in and leaves no trace.
Check(key, bypass) ==
  /\ admitted' = (bypass \/ Has(filter, key))
  /\ filter' = IF bypass \/ Has(filter, key) THEN filter ELSE Add(filter, key)
==============================================================================
