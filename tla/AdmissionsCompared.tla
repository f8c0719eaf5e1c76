--------------------------- MODULE AdmissionsCompared ---------------------------
(***************************************************************************)
(* The two second-hit policies side by side on the same log: what the      *)
(* emulator is for is to compare such policies, so what is reported for    *)
(* one must be comparable with the other.                                  *)
(***************************************************************************)
EXTENDS SecondHitAdmissionRot

VARIABLES filter,          \* the single filter
          admittedSingle   \* what its last check returned

Single == INSTANCE SecondHitAdmission WITH admitted <- admittedSingle

allVars == <<vars, filter, admittedSingle>>

BothInit == Init /\ Single!Init

BothCheck(key, bypass, ts) == Check(key, bypass, ts) /\ Single!Check(key, bypass)

BothNext ==
  \E key \in Keys, bypass \in BOOLEAN, ts \in 0..MaxTime : BothCheck(key, bypass, ts)

BothSpec == BothInit /\ [][BothNext]_allVars

\* Rotation only forgets: whatever the rotating filters let in, collisions
\* included, the single filter lets in too, so an emulated rotating cache
\* never admits what the plain one would have refused.
RotationOnlyForgets ==
  /\ admitted => admittedSingle
  /\ \A i \in DOMAIN entries, k \in Keys : Has(entries[i].BF, k) => Has(filter, k)

\* The fill rate each policy reports is the share of its buckets that are
\* full, though it is counted add by add.
FillIsExact ==
  /\ CountsFull(filter)
  /\ \A i \in DOMAIN entries : CountsFull(entries[i].BF)

\* With the types of the state, that there are never more than two filters
\* among them.
WellFormed == TypeOK /\ FillIsExact
==============================================================================
