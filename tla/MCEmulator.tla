------------------------------- MODULE MCEmulator -------------------------------
(***************************************************************************)
(* The replay of a log through two layers of cache.  The lines: an object  *)
(* of two blocks, a part of it, one line for each reason to pass over a    *)
(* line, and lines with a part missing, before and behind what they are    *)
(* passed over for.                                                        *)
(***************************************************************************)
EXTENDS LogReplay

Line(url, range, size, bytes_out, status, code) ==
  [url |-> url, range |-> range, size |-> size, bytes_out |-> bytes_out,
   status |-> status, code |-> code, numeric |-> {"size", "bytes_out"},
   status_tokens |-> 2, fields |-> 6]

Whole == Line("a", "", 2, 1, "TCP_HIT", 200)
Part == Line("a", "0-1", 2, 1, "TCP_PARTIAL_HIT", 206)

NoSize == [Whole EXCEPT !.numeric = {"bytes_out"}]
NoBytes == [Whole EXCEPT !.numeric = {"size"}]
NoCode == [Whole EXCEPT !.status_tokens = 1]
None == [Whole EXCEPT !.status = "NONE"]
CutTo(n, line) == [line EXCEPT !.fields = n]

MCLines ==
  {Whole, Part, NoSize, NoBytes, None, NoCode,
   [Whole EXCEPT !.status = "CONFIG_NOCACHE"], [Whole EXCEPT !.code = 404],
   [Whole EXCEPT !.url = ""], [None EXCEPT !.status_tokens = 1],
   [NoCode EXCEPT !.numeric = {"size"}],
   CutTo(0, Whole), CutTo(1, Whole), CutTo(1, NoSize),
   CutTo(2, Whole), CutTo(2, NoSize), CutTo(4, Whole), CutTo(4, NoSize),
   CutTo(5, Whole), CutTo(5, NoBytes), CutTo(5, None), CutTo(5, NoCode)}

MCKeys == {KeyOf(line) : line \in {Whole, Part}}

\* Layers that answer freely; a head that takes the smaller objects above a
\* tail that takes all.
MCConfigurations == {<<"prob", "prob_size">>, <<"size", "null">>}
==============================================================================
