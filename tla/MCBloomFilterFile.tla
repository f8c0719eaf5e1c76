--------------------------- MODULE MCBloomFilterFile ---------------------------
(***************************************************************************)
(* Two processes and a file of two whole words and an incomplete one.  k1  *)
(* and k2 share a bit; k2 has one more behind the last whole word.         *)
(***************************************************************************)
EXTENDS BloomFilterFile, TLC

CONSTANTS k1, k2

MCbfsize == 5
MCHashes == (k1 :> <<0, 2>>) @@ (k2 :> <<1, 2, 4>>)
===============================================================================
