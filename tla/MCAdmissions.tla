------------------------------ MODULE MCAdmissions ------------------------------
(***************************************************************************)
(* The second-hit policies on a small instance: three hash functions over  *)
(* five buckets.  k1 has a bucket to itself and shares one with k2, k3 is  *)
(* covered by the two of them (a false positive once both are in) and k4   *)
(* has all functions on one bucket.                                        *)
(***************************************************************************)
EXTENDS AdmissionsCompared, TLC

CONSTANTS k1, k2, k3, k4

MCBuckets == 1..5
MCHashes == (k1 :> <<1, 2, 5>>) @@ (k2 :> <<2, 3, 3>>)
            @@ (k3 :> <<1, 3, 3>>) @@ (k4 :> <<4, 4, 4>>)
==============================================================================
