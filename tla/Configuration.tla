------------------------------ MODULE Configuration ------------------------------
(***************************************************************************)
(* lib/sim_structs.cc: EmConfItems, set from the options of the command    *)
(* line (command_line_parser) or, by the other constructor of Emulator,    *)
(* from a file (config_file_parser), a line at a time.                     *)
(*                                                                         *)
(* A line is [name, value]: what atoi, atof or the second word make of it. *)
(* The parser treats names of one group alike, so a few of each stand for  *)
(* the group; a line that starts with # or has one word has name "#".      *)
(***************************************************************************)
EXTENDS Integers, Sequences, FiniteSets

CONSTANTS
  Numbers,    \* names whose last value counts: sizes, intervals, paths
  FileNumbers,  \* those a file may set
  Switches,   \* names that a value of 1 turns on
  Lists,      \* names whose values, separated by commas, are appended
  Letters,    \* option letter of the command line -> its name
  Defaults,   \* name of a number -> its value before parsing
  Values,     \* values, 0 and 1 among them
  MaxLines    \* bound on the lines of a file and on the options of a command

\* The other names: a flag, a switch that is an error, a comment and no name.
OtherNames == {"base_mode", "second_hit_caching_kc", "#", "unknown"}

\* A name belongs to one group.
ASSUME ConfigurationAssumption ==
  /\ Numbers \cap (Switches \cup Lists \cup OtherNames) = {}
  /\ Switches \cap (Lists \cup OtherNames) = {}
  /\ Lists \cap OtherNames = {}
  /\ {"synthetic_test", "second_hit_caching_hd", "disable_kc"} \subseteq Switches
  /\ FileNumbers \subseteq Numbers
  /\ Defaults \in [Numbers -> Values]
  /\ Letters \in [DOMAIN Letters -> Numbers]
  /\ MaxLines \in Nat

VARIABLES
  number, switch, list,   \* the members of EmConfItems
  base_mode,              \* a switch that a value of 0 turns off
  input,                  \* history: what was parsed so far
  from,                   \* "command" or "file"
  state                   \* "parsing", "parsed", "exited" (1) or "aborted"

vars == <<number, switch, list, base_mode, input, from, state>>

\* The names a file may set: disable_kc is not one of them, nor are the
\* numbers that only the command line knows.
FileNames == FileNumbers \cup (Switches \ {"disable_kc"}) \cup Lists \cup OtherNames
FileLines == [name : FileNames, value : Values]
Options == [letter : DOMAIN Letters \cup {"?"}, value : Values]

TypeOK ==
  /\ number \in [Numbers -> Values]
  /\ switch \in [Switches -> BOOLEAN]
  /\ list \in [Lists -> Seq(Values)]
  /\ base_mode \in BOOLEAN
  /\ from \in {"command", "file"}
  /\ input \in IF from = "file" THEN Seq(FileLines) ELSE Seq(Options)
  /\ state \in {"parsing", "parsed", "exited", "aborted"}

Init ==
  /\ number = Defaults
  /\ switch = [n \in Switches |-> FALSE]
  /\ list = [n \in Lists |-> <<>>]
  /\ base_mode = TRUE
  /\ input = <<>>
  /\ from \in {"command", "file"}
  /\ state = "parsing"

-------------------------------------------------------------------------------
(* Faulty variants of the steps below *)

\* There is no override for a synthetic test.
FileEndPlain ==
  /\ from = "file"
  /\ state = "parsing"
  /\ state' = "parsed"
  /\ UNCHANGED <<number, switch, list, base_mode, input, from>>

-------------------------------------------------------------------------------
(* config_file_parser *)

\* The flags only ever move away from their defaults.
TurnOn(line) ==
  /\ switch' = [n \in Switches |-> switch[n] \/ (n = line.name /\ line.value = 1)]
  /\ base_mode' = (base_mode /\ ~(line.name = "base_mode" /\ line.value = 0))

\* One line; second hit caching in the kernel cache ends the program.
FileLine(line) ==
  /\ from = "file"
  /\ state = "parsing"
  /\ Len(input) < MaxLines
  /\ input' = Append(input, line)
  /\ number' = [n \in Numbers |-> IF n = line.name THEN line.value ELSE number[n]]
  /\ list' = [n \in Lists |-> IF n = line.name THEN Append(list[n], line.value)
                                               ELSE list[n]]
  /\ TurnOn(line)
  /\ state' = IF line.name = "second_hit_caching_kc" /\ line.value = 1
              THEN "exited" ELSE "parsing"
  /\ UNCHANGED from

\* Behind the last line: what a synthetic test rules out.
FileEnd ==
  /\ from = "file"
  /\ state = "parsing"
  /\ switch' = IF switch["synthetic_test"]
               THEN [switch EXCEPT !["disable_kc"] = TRUE,
                                   !["second_hit_caching_hd"] = FALSE]
               ELSE switch
  /\ state' = "parsed"
  /\ UNCHANGED <<number, list, base_mode, input, from>>

\* There is no such file.
NoFile ==
  /\ from = "file"
  /\ state = "parsing"
  /\ input = <<>>
  /\ state' = "exited"
  /\ UNCHANGED <<number, switch, list, base_mode, input, from>>

-------------------------------------------------------------------------------
(* command_line_parser *)

Option(option) ==
  /\ from = "command"
  /\ state = "parsing"
  /\ Len(input) < MaxLines
  /\ input' = Append(input, option)
  /\ IF option.letter \in DOMAIN Letters
     THEN /\ number' = [number EXCEPT ![Letters[option.letter]] = option.value]
          /\ UNCHANGED state
     ELSE state' = "aborted" /\ UNCHANGED number
  /\ UNCHANGED <<switch, list, base_mode, from>>

CommandEnd ==
  /\ from = "command"
  /\ state = "parsing"
  /\ state' = "parsed"
  /\ UNCHANGED <<number, switch, list, base_mode, input, from>>

Next ==
  \/ \E line \in FileLines : FileLine(line)
  \/ FileEnd
  \/ NoFile
  \/ \E option \in Options : Option(option)
  \/ CommandEnd

Spec == Init /\ [][Next]_vars

-------------------------------------------------------------------------------
(* What a configuration means, without an order of parsing *)

\* The name that a line or an option sets.
NameOf(x) == IF from = "file" THEN x.name
             ELSE IF x.letter \in DOMAIN Letters THEN Letters[x.letter] ELSE "unknown"

\* Which lines name n, and whether one of them gives it the value v.
Naming(n) == {i \in DOMAIN input : NameOf(input[i]) = n}
Says(n, v) == \E i \in Naming(n) : input[i].value = v

\* A number has the value of the last line that names it.
NumbersAreLast ==
  \A n \in Numbers :
    \/ Naming(n) = {} /\ number[n] = Defaults[n]
    \/ \E i \in Naming(n) : /\ \A j \in Naming(n) : j <= i
                            /\ number[n] = input[i].value

\* A list has the values of all lines that name it, in their order.
ListsAreWhole ==
  \A n \in Lists :
    /\ Len(list[n]) = Cardinality(Naming(n))
    /\ \A i \in Naming(n) :
         list[n][Cardinality({j \in Naming(n) : j <= i})] = input[i].value

\* A parsed configuration means what its file or command says as a whole: a
\* number has its last value; a switch is on if any line turns it on,
\* whatever later lines say; a list has all its values; a synthetic test
\* has no second hit caching and no kernel cache wherever its line stands;
\* and no configuration asks for second hit caching in the kernel cache.
ParsedAsAWhole ==
  state = "parsed" =>
    /\ NumbersAreLast
    /\ \A n \in Switches \ {"second_hit_caching_hd", "disable_kc"} :
         switch[n] <=> from = "file" /\ Says(n, 1)
    /\ switch["disable_kc"] = switch["synthetic_test"]
    /\ switch["second_hit_caching_hd"]
         <=> Says("second_hit_caching_hd", 1) /\ ~Says("synthetic_test", 1)
    /\ base_mode <=> ~Says("base_mode", 0)
    /\ ListsAreWhole
    /\ ~Says("second_hit_caching_kc", 1)
===============================================================================
