------------------------------- MODULE MCLru2hc -------------------------------
(***************************************************************************)
(* The shipped program on three objects.  "c" fills the disk, and "b"      *)
(* never fits when it is served with its second size; the buckets of "b"   *)
(* are all shared.  The log does not know the size of "c".                 *)
(***************************************************************************)
EXTENDS Lru2hc, TLC

MCCapacity == 2
MCSizes == 1..MCCapacity + 1

Line(url, size) ==
  [url |-> url, range |-> "", size |-> size, bytes_out |-> size,
   status |-> "TCP_MISS", code |-> 200, numeric |-> {"size", "bytes_out"}]

MCLines == {Line("a", 1), Line("b", 1), Line("b", MCCapacity + 1), [Line("c", 2) EXCEPT !.size = 0]}
MCKeys == {<<"a">>, <<"b">>, <<"c">>}

MCBuckets == 1..3
MCHashes == (<<"a">> :> <<1, 2>>) @@ (<<"b">> :> <<2, 2>>) @@ (<<"c">> :> <<2, 3>>)
===============================================================================
