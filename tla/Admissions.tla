------------------------------- MODULE Admissions -------------------------------
(***************************************************************************)
(* The admission policies that keep no state: lib/null_admission.cc and    *)
(* the three classes of lib/size_admission.cc.  A policy is the set of     *)
(* answers its check may give for an object of a size.                     *)
(***************************************************************************)
EXTENDS Integers

CONSTANTS SizeThreshold,   \* the threshold of SizeAdmission, in bytes
          Prob,            \* the threshold of ProbAdmission, in units of 1/RandMax
          RandMax          \* RAND_MAX

ASSUME AdmissionsAssumption ==
  /\ SizeThreshold \in Nat
  /\ Prob \in Nat
  /\ RandMax \in Nat \ {0}

AdmissionNames == {"null", "size", "prob", "prob_size"}

\* A draw is at most RAND_MAX itself, so that a threshold of one, which no
\* other draw reaches, can still refuse.
Draws == 0..RandMax

null_check == {TRUE}
size_check(size) == {size < SizeThreshold}
prob_check == {r < Prob : r \in Draws}

\* The threshold is exp(-size / c): one for an empty object, and for a larger
\* one anything above zero.
prob_size_check(size) ==
  {r < p : r \in Draws, p \in IF size = 0 THEN {RandMax} ELSE 1..RandMax}

Verdicts(name, size) ==
  [null |-> null_check, size |-> size_check(size), prob |-> prob_check,
   prob_size |-> prob_size_check(size)][name]
===============================================================================
