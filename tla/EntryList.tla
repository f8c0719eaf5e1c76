------------------------------ MODULE EntryList ------------------------------
(***************************************************************************)
(* The list of entries that every eviction policy keeps between two        *)
(* sentinel nodes, head and tail.  The model keeps the keys of the linked  *)
(* nodes in order, head->next first and tail->prev last; the data and the  *)
(* timestamp of a node live in the policy's mapping.                       *)
(***************************************************************************)
EXTENDS Integers, Sequences, SequencesExt

\* Where the node of key k is linked (meaningful for a linked key).
PositionOf(list, k) == CHOOSE i \in 1..Len(list) : list[i] = k

\* detach(node): unlink the node of key k wherever it is.
Detach(list, k) == RemoveAt(list, PositionOf(list, k))

\* attach(node): link the node of key k right after the head sentinel.
Attach(list, k) == Cons(k, list)

\* No key is linked twice.
Unrepeated(list) ==
  \A i, j \in 1..Len(list) : list[i] = list[j] => i = j

\* The bytes of the linked entries add up to total: acc[i] is the running
\* sum over the first i of them.  (That acc does not decrease follows from the
\* rest, by induction on i; it is stated so that the proofs need none.)
SumsTo(list, weight, total) ==
  \E acc \in [0..Len(list) -> 0..total] :
    /\ acc[0] = 0
    /\ \A i \in 1..Len(list) : acc[i] = acc[i-1] + weight[list[i]]
    /\ \A i, j \in 0..Len(list) : i <= j => acc[i] <= acc[j]
    /\ acc[Len(list)] = total
==============================================================================
