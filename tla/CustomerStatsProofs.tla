--------------------------- MODULE CustomerStatsProofs ---------------------------
(***************************************************************************)
(* Theorems about Configuration and CustomerStats for every set of names,  *)
(* values, customers and windows, and any number of lines.                 *)
(***************************************************************************)
EXTENDS CustomerStats, SequenceTheorems, FiniteSetTheorems, TLAPS

-------------------------------------------------------------------------------
(* Reading a line *)

\* The lines that are read at a time: of a file or of a command.
Lines == IF from = "file" THEN FileLines ELSE Options

LEMMA NamingIsFinite ==
  ASSUME TypeOK
  PROVE  \A n : /\ Naming(n) \subseteq 1..Len(input)
                /\ IsFiniteSet(Naming(n)) /\ Cardinality(Naming(n)) \in Nat
<1> SUFFICES ASSUME NEW n
             PROVE  /\ Naming(n) \subseteq 1..Len(input)
                    /\ IsFiniteSet(Naming(n)) /\ Cardinality(Naming(n)) \in Nat
  OBVIOUS
<1>1. input \in Seq(Lines)
  BY DEF TypeOK, Lines
<1>2. DOMAIN input = 1..Len(input) /\ Len(input) \in Nat
  BY <1>1, LenProperties
<1>3. Naming(n) \subseteq 1..Len(input)
  BY <1>2 DEF Naming
<1>4. IsFiniteSet(1..Len(input))
  BY <1>2, FS_Interval
<1> QED BY <1>3, <1>4, FS_Subset, FS_CardinalityType

\* A line adds its place to those that name what it names.
LEMMA Reading ==
  ASSUME TypeOK, NEW x \in Lines, input' = Append(input, x), from' = from
  PROVE  /\ Len(input) \in Nat
         /\ \A i \in 1..Len(input) : input'[i] = input[i]
         /\ input'[Len(input) + 1] = x
         /\ \A n : Naming(n)' = IF NameOf(x) = n THEN Naming(n) \cup {Len(input) + 1}
                                                 ELSE Naming(n)
<1>1. input \in Seq(Lines)
  BY DEF TypeOK, Lines
<1>2. DOMAIN input = 1..Len(input) /\ Len(input) \in Nat
  BY <1>1, LenProperties
<1>3. /\ DOMAIN input' = 1..(Len(input) + 1)
      /\ \A i \in 1..Len(input) : input'[i] = input[i]
      /\ input'[Len(input) + 1] = x
  <2>1. /\ Len(Append(input, x)) = Len(input) + 1
        /\ \A i \in 1..Len(input) : Append(input, x)[i] = input[i]
        /\ Append(input, x)[Len(input) + 1] = x
        /\ Append(input, x) \in Seq(Lines)
    BY <1>1, AppendProperties
  <2>2. DOMAIN Append(input, x) = 1..Len(Append(input, x))
    BY <2>1, LenProperties
  <2> QED BY <2>1, <2>2
<1>4. ASSUME NEW n
      PROVE  Naming(n)' = IF NameOf(x) = n THEN Naming(n) \cup {Len(input) + 1}
                                           ELSE Naming(n)
  <2>1. \A y : NameOf(y)' = NameOf(y)
    BY DEF NameOf
  <2>2. Naming(n)' = {i \in 1..(Len(input) + 1) : NameOf(input'[i]) = n}
    BY <1>3 DEF Naming, NameOf
  <2>3. Naming(n) = {i \in 1..Len(input) : NameOf(input[i]) = n}
    BY <1>2 DEF Naming
  <2>4. 1..(Len(input) + 1) = 1..Len(input) \cup {Len(input) + 1}
    BY <1>2
  <2>5. CASE NameOf(x) = n
    BY <1>3, <2>2, <2>3, <2>4, <2>5
  <2>6. CASE NameOf(x) # n
    BY <1>3, <2>2, <2>3, <2>4, <2>6
  <2> QED BY <2>5, <2>6
<1> QED BY <1>2, <1>3, <1>4

\* What a line says, and what was said before it.
LEMMA SayingMore ==
  ASSUME TypeOK, NEW x \in Lines, input' = Append(input, x), from' = from
  PROVE  \A n, v : Says(n, v)' <=> Says(n, v) \/ (NameOf(x) = n /\ x.value = v)
<1> SUFFICES ASSUME NEW n, NEW v
             PROVE  Says(n, v)' <=> Says(n, v) \/ (NameOf(x) = n /\ x.value = v)
  OBVIOUS
<1>1. /\ \A i \in Naming(n) : input'[i] = input[i]
      /\ input'[Len(input) + 1] = x
      /\ Naming(n)' = IF NameOf(x) = n THEN Naming(n) \cup {Len(input) + 1}
                                       ELSE Naming(n)
  BY Reading, NamingIsFinite
<1>2. Says(n, v)' <=> \E i \in Naming(n)' : input'[i].value = v
  BY DEF Says
<1>3. Says(n, v) <=> \E i \in Naming(n) : input[i].value = v
  BY DEF Says
<1>4. CASE NameOf(x) = n
  BY <1>1, <1>2, <1>3, <1>4
<1>5. CASE NameOf(x) # n
  BY <1>1, <1>2, <1>3, <1>5
<1> QED BY <1>4, <1>5

\* A number that takes the value of each line that names it has the last.
LEMMA LastCounts ==
  ASSUME TypeOK, NumbersAreLast, NEW x \in Lines, input' = Append(input, x), from' = from,
         \A n \in Numbers : number'[n] = IF NameOf(x) = n THEN x.value ELSE number[n]
  PROVE  NumbersAreLast'
<1> SUFFICES ASSUME NEW n \in Numbers
             PROVE  \/ Naming(n)' = {} /\ number'[n] = Defaults[n]
                    \/ \E i \in Naming(n)' : /\ \A j \in Naming(n)' : j <= i
                                             /\ number'[n] = input'[i].value
  BY DEF NumbersAreLast
<1>1. /\ Len(input) \in Nat
      /\ Naming(n) \subseteq 1..Len(input)
      /\ \A i \in Naming(n) : input'[i] = input[i]
      /\ input'[Len(input) + 1] = x
      /\ Naming(n)' = IF NameOf(x) = n THEN Naming(n) \cup {Len(input) + 1}
                                       ELSE Naming(n)
  BY Reading, NamingIsFinite
<1>2. CASE NameOf(x) = n
  <2>1. \A j \in Naming(n)' : j <= Len(input) + 1
    BY <1>1, <1>2
  <2>2. number'[n] = input'[Len(input) + 1].value /\ Len(input) + 1 \in Naming(n)'
    BY <1>1, <1>2
  <2> QED BY <2>1, <2>2
<1>3. CASE NameOf(x) # n
  <2>1. Naming(n)' = Naming(n) /\ number'[n] = number[n]
    BY <1>1, <1>3
  <2>2. CASE Naming(n) = {} /\ number[n] = Defaults[n]
    BY <2>1, <2>2
  <2>3. CASE \E i \in Naming(n) : /\ \A j \in Naming(n) : j <= i
                                  /\ number[n] = input[i].value
    BY <1>1, <2>1, <2>3
  <2> QED BY <2>2, <2>3 DEF NumbersAreLast
<1> QED BY <1>2, <1>3

\* A list that each line that names it is appended to has them all.
LEMMA AllCount ==
  ASSUME TypeOK, ListsAreWhole, NEW x \in Lines, input' = Append(input, x), from' = from,
         x.value \in Values,
         \A n \in Lists : list'[n] = IF NameOf(x) = n THEN Append(list[n], x.value)
                                                      ELSE list[n]
  PROVE  ListsAreWhole'
<1> SUFFICES ASSUME NEW n \in Lists
             PROVE  /\ Len(list'[n]) = Cardinality(Naming(n)')
                    /\ \A i \in Naming(n)' :
                         list'[n][Cardinality({j \in Naming(n)' : j <= i})] = input'[i].value
  BY DEF ListsAreWhole
<1> DEFINE N == Naming(n)
           end == Len(input) + 1
           Rank(i) == Cardinality({j \in N : j <= i})
<1>1. /\ Len(input) \in Nat
      /\ N \subseteq 1..Len(input)
      /\ \A i \in N : input'[i] = input[i]
      /\ input'[end] = x
      /\ Naming(n)' = IF NameOf(x) = n THEN N \cup {end} ELSE N
  BY Reading, NamingIsFinite
<1>2. /\ list[n] \in Seq(Values)
      /\ Len(list[n]) = Cardinality(N)
      /\ \A i \in N : list[n][Rank(i)] = input[i].value
  BY DEF TypeOK, ListsAreWhole
<1>3. IsFiniteSet(N) /\ Cardinality(N) \in Nat
  BY NamingIsFinite
<1>6. end \notin N /\ \A i \in N : i <= end
  BY <1>1
<1>7. end <= end
  BY <1>1
<1> HIDE DEF N, end
<1>4. CASE NameOf(x) # n
  BY <1>1, <1>2, <1>4
<1>5. CASE NameOf(x) = n
  <2>1. Cardinality(N \cup {end}) = Cardinality(N) + 1
    BY <1>3, <1>6, FS_AddElement
  <2>5. list'[n] = Append(list[n], x.value) /\ list[n] \in Seq(Values)
    BY <1>2, <1>5
  <2>2. /\ Len(list'[n]) = Len(list[n]) + 1
        /\ \A i \in 1..Len(list[n]) : list'[n][i] = list[n][i]
        /\ list'[n][Len(list[n]) + 1] = x.value
    BY <2>5, AppendProperties
  <2>3. ASSUME NEW i \in N
        PROVE  list'[n][Cardinality({j \in N \cup {end} : j <= i})] = input'[i].value
    <3> DEFINE B == {j \in N : j <= i}
    <3>1. {j \in N \cup {end} : j <= i} = B
      <4>1. ~(end <= i)
        BY <1>1, <2>3 DEF end, N
      <4> QED BY <4>1
    <3>2. B \subseteq N /\ B # {}
      <4>1. i <= i
        BY <1>1, <2>3
      <4> QED BY <4>1
    <3>3. Cardinality(B) \in 1..Cardinality(N)
      <4>1. IsFiniteSet(B) /\ Cardinality(B) <= Cardinality(N)
        BY <1>3, <3>2, FS_Subset
      <4>2. Cardinality(B) \in Nat /\ Cardinality(B) # 0
        BY <3>2, <4>1, FS_CardinalityType, FS_EmptySet
      <4> QED BY <1>3, <4>1, <4>2
    <3> DEFINE r == Cardinality(B)
    <3>4. list[n][r] = input[i].value /\ r \in 1..Len(list[n])
      BY <1>2, <3>3
    <3> HIDE DEF r
    <3>5. list'[n][r] = input[i].value
      BY <2>2, <3>4
    <3> QED BY <1>1, <3>1, <3>5 DEF r
  <2>4. list'[n][Cardinality({j \in N \cup {end} : j <= end})] = input'[end].value
    <3>1. {j \in N \cup {end} : j <= end} = N \cup {end}
      BY <1>6, <1>7
    <3> QED BY <1>1, <1>2, <2>1, <2>2, <3>1
  <2>6. Naming(n)' = N \cup {end}
    BY <1>1, <1>5
  <2>7. Len(list'[n]) = Cardinality(Naming(n)')
    BY <1>2, <2>1, <2>2, <2>6
  <2> QED BY <2>3, <2>4, <2>6, <2>7
<1> QED BY <1>4, <1>5

-------------------------------------------------------------------------------
(* A configuration means what it says *)

\* What was read so far counts already, but for the end of a file.
AsFarAsRead ==
  /\ state \in {"parsing", "parsed"} =>
       /\ NumbersAreLast
       /\ ListsAreWhole
       /\ base_mode <=> ~Says("base_mode", 0)
       /\ ~Says("second_hit_caching_kc", 1)
  /\ state = "parsing" => \A n \in Switches : switch[n] <=> from = "file" /\ Says(n, 1)

ParseInv == TypeOK /\ AsFarAsRead /\ ParsedAsAWhole

LEMMA ParseStarts == Init => ParseInv
<1> SUFFICES ASSUME Init PROVE ParseInv
  OBVIOUS
<1>1. input = <<>> /\ DOMAIN input = {} /\ state = "parsing"
  BY DEF Init
<1>2. TypeOK
  <2>1. input \in Seq(FileLines) /\ input \in Seq(Options)
    BY <1>1, EmptySeq
  <2>2. \A n \in Lists : list[n] \in Seq(Values)
    BY EmptySeq DEF Init
  <2>3. list \in [Lists -> Seq(Values)] /\ switch \in [Switches -> BOOLEAN]
    BY <2>2 DEF Init
  <2>4. number \in [Numbers -> Values] /\ base_mode \in BOOLEAN
    BY ConfigurationAssumption DEF Init
  <2>5. from \in {"command", "file"} /\ state \in {"parsing", "parsed", "exited", "aborted"}
    BY DEF Init
  <2> QED BY <2>1, <2>3, <2>4, <2>5 DEF TypeOK
<1>3. \A n, v : Naming(n) = {} /\ ~Says(n, v)
  BY <1>1 DEF Naming, Says
<1>4. NumbersAreLast
  BY <1>3 DEF Init, NumbersAreLast
<1>5. ListsAreWhole
  <2>1. Cardinality({}) = 0
    BY FS_EmptySet
  <2> QED BY <1>3, <2>1 DEF Init, ListsAreWhole
<1>6. base_mode = TRUE /\ \A n \in Switches : switch[n] = FALSE
  BY DEF Init
<1> QED BY <1>1, <1>2, <1>3, <1>4, <1>5, <1>6 DEF ParseInv, AsFarAsRead, ParsedAsAWhole

LEMMA FileLineStep ==
  ASSUME ParseInv, NEW line \in FileLines, FileLine(line)
  PROVE  ParseInv'
<1> USE DEF ParseInv
<1>1. /\ from = "file" /\ from' = from /\ state = "parsing"
      /\ input' = Append(input, line)
      /\ \A n \in Numbers : number'[n] = IF n = line.name THEN line.value ELSE number[n]
      /\ \A n \in Lists : list'[n] = IF n = line.name THEN Append(list[n], line.value)
                                                      ELSE list[n]
      /\ \A n \in Switches : switch'[n] = (switch[n] \/ (n = line.name /\ line.value = 1))
      /\ base_mode' = (base_mode /\ ~(line.name = "base_mode" /\ line.value = 0))
      /\ state' = IF line.name = "second_hit_caching_kc" /\ line.value = 1
                  THEN "exited" ELSE "parsing"
  BY DEF FileLine, TurnOn
<1>2. line \in Lines /\ line.value \in Values /\ NameOf(line) = line.name
  BY <1>1 DEF Lines, FileLines, NameOf
<1>3. TypeOK'
  <2>1. input' \in Seq(FileLines)
    BY <1>1, AppendProperties DEF TypeOK
  <2>2. number' \in [Numbers -> Values]
    BY <1>2 DEF FileLine, TypeOK
  <2>3. list' \in [Lists -> Seq(Values)]
    <3>1. list' = [n \in Lists |-> IF n = line.name THEN Append(list[n], line.value)
                                                    ELSE list[n]]
      BY DEF FileLine
    <3>2. \A n \in Lists : list[n] \in Seq(Values) /\ Append(list[n], line.value) \in Seq(Values)
      BY <1>2, AppendProperties DEF TypeOK
    <3> QED BY <3>1, <3>2
  <2>4. switch' \in [Switches -> BOOLEAN] /\ base_mode' \in BOOLEAN
    BY DEF FileLine, TurnOn
  <2>5. state' \in {"parsing", "parsed", "exited", "aborted"}
    BY <1>1
  <2> QED BY <1>1, <2>1, <2>2, <2>3, <2>4, <2>5 DEF TypeOK
<1>4. \A n, v : Says(n, v)' <=> Says(n, v) \/ (line.name = n /\ line.value = v)
  BY <1>1, <1>2, SayingMore
<1>5. NumbersAreLast'
  BY <1>1, <1>2, LastCounts DEF AsFarAsRead
<1>6. ListsAreWhole'
  BY <1>1, <1>2, AllCount DEF AsFarAsRead
<1>7. /\ base_mode <=> ~Says("base_mode", 0)
      /\ ~Says("second_hit_caching_kc", 1)
      /\ \A n \in Switches : switch[n] <=> Says(n, 1)
  BY <1>1 DEF AsFarAsRead
<1>8. base_mode' <=> ~Says("base_mode", 0)'
  BY <1>1, <1>4, <1>7
<1>9. \A n \in Switches : switch'[n] <=> Says(n, 1)'
  BY <1>1, <1>4, <1>7
<1>10. state' = "parsing" => ~Says("second_hit_caching_kc", 1)'
  BY <1>1, <1>4, <1>7
<1>11. state' # "parsed"
  BY <1>1
<1>12. AsFarAsRead'
  BY <1>1, <1>5, <1>6, <1>8, <1>9, <1>10, <1>11 DEF AsFarAsRead
<1> QED BY <1>3, <1>11, <1>12 DEF ParsedAsAWhole

\* What is read leaves alone, its end does too.
LEMMA SameInput ==
  ASSUME UNCHANGED <<input, from>>
  PROVE  \A n, v : Naming(n)' = Naming(n) /\ (Says(n, v)' <=> Says(n, v))
BY DEF Naming, NameOf, Says

LEMMA SameMeaning ==
  ASSUME UNCHANGED <<number, list, base_mode, input, from>>
  PROVE  /\ NumbersAreLast => NumbersAreLast'
         /\ ListsAreWhole => ListsAreWhole'
<1>1. \A n : Naming(n)' = Naming(n)
  BY SameInput
<1> QED BY <1>1 DEF NumbersAreLast, ListsAreWhole

\* No file can name disable_kc.
LEMMA NobodySaysDisableKc ==
  ASSUME TypeOK, from = "file"
  PROVE  ~Says("disable_kc", 1)
<1>1. "disable_kc" \notin FileNames
  <2>1. "disable_kc" \in Switches
    BY ConfigurationAssumption
  <2>2. "disable_kc" \notin Numbers \cup Lists \cup OtherNames /\ FileNumbers \subseteq Numbers
    BY <2>1, ConfigurationAssumption
  <2> QED BY <2>2 DEF FileNames
<1>2. input \in Seq(FileLines) /\ DOMAIN input = 1..Len(input)
  BY LenProperties DEF TypeOK
<1>3. \A i \in DOMAIN input : input[i] \in FileLines
  BY <1>2, ElementOfSeq
<1>4. \A i \in DOMAIN input : NameOf(input[i]) \in FileNames
  BY <1>3 DEF FileLines, NameOf
<1> QED BY <1>1, <1>4 DEF Says, Naming

\* A command names numbers only.
LEMMA CommandsNameNumbers ==
  ASSUME TypeOK, from = "command"
  PROVE  \A n \in Switches \cup Lists \cup {"base_mode", "second_hit_caching_kc"} :
           \A v : ~Says(n, v)
<1>1. input \in Seq(Options) /\ DOMAIN input = 1..Len(input)
  BY LenProperties DEF TypeOK
<1>2. \A i \in DOMAIN input : NameOf(input[i]) \in Numbers \cup {"unknown"}
  BY ConfigurationAssumption DEF NameOf
<1>3. \A n \in Switches \cup Lists \cup {"base_mode", "second_hit_caching_kc"} :
        n \notin Numbers \cup {"unknown"}
  BY ConfigurationAssumption DEF OtherNames
<1> QED BY <1>2, <1>3 DEF Says, Naming

LEMMA FileEndStep ==
  ASSUME ParseInv, FileEnd
  PROVE  ParseInv'
<1> USE DEF ParseInv
<1>1. /\ from = "file" /\ state = "parsing" /\ state' = "parsed"
      /\ switch' = IF switch["synthetic_test"]
                   THEN [switch EXCEPT !["disable_kc"] = TRUE,
                                       !["second_hit_caching_hd"] = FALSE]
                   ELSE switch
      /\ UNCHANGED <<number, list, base_mode, input, from>>
  BY DEF FileEnd
<1>2. /\ {"synthetic_test", "second_hit_caching_hd", "disable_kc"} \subseteq Switches
      /\ switch \in [Switches -> BOOLEAN]
  BY ConfigurationAssumption DEF TypeOK
<1>3. /\ NumbersAreLast /\ ListsAreWhole
      /\ base_mode <=> ~Says("base_mode", 0)
      /\ ~Says("second_hit_caching_kc", 1)
      /\ \A n \in Switches : switch[n] <=> Says(n, 1)
  BY <1>1 DEF AsFarAsRead
<1>4. switch["disable_kc"] = FALSE
  BY <1>1, <1>2, <1>3, NobodySaysDisableKc
<1>5. /\ switch' \in [Switches -> BOOLEAN]
      /\ \A n \in Switches \ {"second_hit_caching_hd", "disable_kc"} : switch'[n] = switch[n]
      /\ switch'["disable_kc"] = switch["synthetic_test"]
      /\ switch'["second_hit_caching_hd"]
           <=> switch["second_hit_caching_hd"] /\ ~switch["synthetic_test"]
  BY <1>1, <1>2, <1>4
<1>6. \A n, v : Says(n, v)' <=> Says(n, v)
  BY <1>1, SameInput
<1>7. NumbersAreLast' /\ ListsAreWhole'
  BY <1>1, <1>3, SameMeaning
<1>8. TypeOK'
  BY <1>1, <1>5 DEF TypeOK
<1>9. AsFarAsRead'
  BY <1>1, <1>3, <1>6, <1>7 DEF AsFarAsRead
<1>10. ParsedAsAWhole'
  <2>1. \A n \in Switches \ {"second_hit_caching_hd", "disable_kc"} :
          switch'[n] <=> Says(n, 1)'
    BY <1>3, <1>5, <1>6
  <2>2. switch'["disable_kc"] = switch'["synthetic_test"]
    BY <1>2, <1>5
  <2>3. switch'["second_hit_caching_hd"]
          <=> Says("second_hit_caching_hd", 1)' /\ ~Says("synthetic_test", 1)'
    BY <1>2, <1>3, <1>5, <1>6
  <2> QED BY <1>1, <1>3, <1>6, <1>7, <2>1, <2>2, <2>3 DEF ParsedAsAWhole
<1> QED BY <1>8, <1>9, <1>10

LEMMA OptionStep ==
  ASSUME ParseInv, NEW option \in Options, Option(option)
  PROVE  ParseInv'
<1> USE DEF ParseInv
<1>1. /\ from = "command" /\ state = "parsing"
      /\ input' = Append(input, option)
      /\ IF option.letter \in DOMAIN Letters
         THEN /\ number' = [number EXCEPT ![Letters[option.letter]] = option.value]
              /\ state' = state
         ELSE state' = "aborted" /\ number' = number
      /\ UNCHANGED <<switch, list, base_mode, from>>
  BY DEF Option
<1>2. option \in Lines /\ option.value \in Values
  BY <1>1 DEF Lines, Options
<1>3. NameOf(option) \in Numbers \cup {"unknown"}
  BY <1>1, ConfigurationAssumption DEF NameOf
<1>4. \A n \in Numbers : number'[n] = IF NameOf(option) = n THEN option.value ELSE number[n]
  <2>1. number \in [Numbers -> Values]
    BY DEF TypeOK
  <2>2. CASE option.letter \in DOMAIN Letters
    BY <1>1, <2>1, <2>2, ConfigurationAssumption DEF NameOf
  <2>3. CASE option.letter \notin DOMAIN Letters
    <3>1. NameOf(option) = "unknown" /\ "unknown" \notin Numbers
      BY <1>1, <2>3, ConfigurationAssumption DEF NameOf, OtherNames
    <3> QED BY <1>1, <2>3, <3>1
  <2> QED BY <2>2, <2>3
<1>5. TypeOK'
  <2>1. input' \in Seq(Options)
    BY <1>1, AppendProperties DEF TypeOK
  <2>2. number' \in [Numbers -> Values]
    BY <1>1, <1>2, ConfigurationAssumption DEF TypeOK
  <2>3. state' \in {"parsing", "parsed", "exited", "aborted"}
    BY <1>1
  <2> QED BY <1>1, <2>1, <2>2, <2>3 DEF TypeOK
<1>6. NumbersAreLast'
  BY <1>1, <1>2, <1>4, LastCounts DEF AsFarAsRead
<1>7. ListsAreWhole'
  <2>1. \A n \in Lists : NameOf(option) # n
    BY <1>3, ConfigurationAssumption DEF OtherNames
  <2> QED BY <1>1, <1>2, <2>1, AllCount DEF AsFarAsRead
<1>8. \A n \in Switches \cup Lists \cup {"base_mode", "second_hit_caching_kc"} :
        \A v : ~Says(n, v)'
  <2>1. \A n, v : Says(n, v)' <=> Says(n, v) \/ (NameOf(option) = n /\ option.value = v)
    BY <1>1, <1>2, SayingMore
  <2>2. \A n \in Switches \cup Lists \cup {"base_mode", "second_hit_caching_kc"} :
          NameOf(option) # n
    BY <1>3, ConfigurationAssumption DEF OtherNames
  <2> QED BY <1>1, <2>1, <2>2, CommandsNameNumbers
<1>9. base_mode
  BY <1>1, CommandsNameNumbers DEF AsFarAsRead
<1>10. \A n \in Switches : ~switch[n]
  BY <1>1 DEF AsFarAsRead
<1>11. AsFarAsRead'
  BY <1>1, <1>6, <1>7, <1>8, <1>9, <1>10 DEF AsFarAsRead
<1>12. state' # "parsed"
  BY <1>1
<1> QED BY <1>5, <1>11, <1>12 DEF ParsedAsAWhole

LEMMA CommandEndStep ==
  ASSUME ParseInv, CommandEnd
  PROVE  ParseInv'
<1> USE DEF ParseInv
<1>1. /\ from = "command" /\ state = "parsing" /\ state' = "parsed"
      /\ UNCHANGED <<number, switch, list, base_mode, input, from>>
  BY DEF CommandEnd
<1>2. {"synthetic_test", "second_hit_caching_hd", "disable_kc"} \subseteq Switches
  BY ConfigurationAssumption
<1>3. /\ NumbersAreLast /\ ListsAreWhole
      /\ base_mode <=> ~Says("base_mode", 0)
      /\ ~Says("second_hit_caching_kc", 1)
      /\ \A n \in Switches : ~switch[n]
  BY <1>1 DEF AsFarAsRead
<1>4. ~Says("second_hit_caching_hd", 1)
  BY <1>1, <1>2, CommandsNameNumbers
<1>5. \A n, v : Says(n, v)' <=> Says(n, v)
  BY <1>1, SameInput
<1>6. NumbersAreLast' /\ ListsAreWhole'
  BY <1>1, <1>3, SameMeaning
<1>7. TypeOK'
  BY <1>1 DEF TypeOK
<1>8. AsFarAsRead'
  BY <1>1, <1>3, <1>5, <1>6 DEF AsFarAsRead
<1>9. switch["disable_kc"] = switch["synthetic_test"]
  BY <1>2, <1>3 DEF TypeOK
<1>10. ParsedAsAWhole'
  BY <1>1, <1>2, <1>3, <1>4, <1>5, <1>6, <1>9 DEF ParsedAsAWhole
<1> QED BY <1>7, <1>8, <1>10

LEMMA ParseStep == ParseInv /\ [Next]_vars => ParseInv'
<1> SUFFICES ASSUME ParseInv, [Next]_vars PROVE ParseInv'
  OBVIOUS
<1>1. CASE NoFile
  BY <1>1 DEF NoFile, ParseInv, TypeOK, AsFarAsRead, ParsedAsAWhole
<1>2. CASE UNCHANGED vars
  <2>1. UNCHANGED <<number, switch, list, base_mode, input, from, state>>
    BY <1>2 DEF vars
  <2>2. \A n, v : Says(n, v)' <=> Says(n, v)
    BY <2>1, SameInput
  <2>3. /\ NumbersAreLast => NumbersAreLast'
        /\ ListsAreWhole => ListsAreWhole'
    BY <2>1, SameMeaning
  <2> QED BY <2>1, <2>2, <2>3 DEF ParseInv, TypeOK, AsFarAsRead, ParsedAsAWhole
<1> QED BY <1>1, <1>2, FileLineStep, FileEndStep, OptionStep, CommandEndStep DEF Next

-------------------------------------------------------------------------------
(* Percentages without their fractions *)

LEMMA ProductGrows ==
  ASSUME NEW a \in Nat, NEW b \in Nat, NEW c \in Nat, a <= b
  PROVE  a * c <= b * c
OBVIOUS

\* The percentage that is kept is the real one, rounded down.
LEMMA PercentRounds ==
  ASSUME NEW hit \in Nat, NEW all \in Nat, hit <= all, all > 0
  PROVE  /\ Percent(hit, all) \in 0..100
         /\ Percent(hit, all) * all <= 100 * hit
         /\ 100 * hit < (Percent(hit, all) + 1) * all
<1> DEFINE q == (100 * hit) \div all
           r == (100 * hit) % all
<1>1. 100 * hit \in Nat /\ q \in Int /\ r \in 0..(all - 1)
  OBVIOUS
<1>2. 100 * hit = all * q + r
  OBVIOUS
<1> HIDE DEF q, r
<1>3. q * all <= 100 * hit /\ 100 * hit < (q + 1) * all
  BY <1>1, <1>2
<1>4. q >= 0
  BY <1>1, <1>2
<1>5. q <= 100
  BY <1>1, <1>2
<1> QED BY <1>1, <1>3, <1>4, <1>5 DEF Percent, q

\* A ratio that fell by two whole percent really fell by more than one.
LEMMA RealLoss ==
  ASSUME NEW hit1 \in Nat, NEW all1 \in Nat, hit1 <= all1, all1 > 0,
         NEW hit2 \in Nat, NEW all2 \in Nat, hit2 <= all2, all2 > 0,
         Percent(hit2, all2) - Percent(hit1, all1) <= -2
  PROVE  100 * (hit1 * all2 - hit2 * all1) > all2 * all1
<1> DEFINE p == Percent(hit2, all2)
           q == Percent(hit1, all1)
<1>7. q \in 0..100 /\ q * all1 <= 100 * hit1
  BY PercentRounds, Zenon
<1>8. p \in 0..100 /\ 100 * hit2 < (p + 1) * all2
  BY PercentRounds, Zenon
<1>9. p - q <= -2
  OBVIOUS
<1> HIDE DEF p, q
<1>1. /\ p \in Nat /\ q \in Nat /\ p + 2 <= q
      /\ q * all1 <= 100 * hit1
      /\ 100 * hit2 < (p + 1) * all2
  BY <1>7, <1>8, <1>9
<1>2. (p + 2) * all1 <= 100 * hit1
  <2>1. (p + 2) * all1 <= q * all1
    BY <1>1, ProductGrows
  <2> QED BY <1>1, <2>1
<1>3. ((p + 2) * all1) * all2 <= (100 * hit1) * all2
  <2>1. (p + 2) * all1 \in Nat /\ 100 * hit1 \in Nat
    BY <1>1
  <2> QED BY <1>2, <2>1, ProductGrows
<1>4. (100 * hit2 + 1) * all1 <= ((p + 1) * all2) * all1
  <2>1. 100 * hit2 + 1 \in Nat /\ (p + 1) * all2 \in Nat
    BY <1>1
  <2>2. 100 * hit2 + 1 <= (p + 1) * all2
    BY <1>1, <2>1
  <2> QED BY <2>1, <2>2, ProductGrows
<1>5. /\ ((p + 2) * all1) * all2 = p * (all2 * all1) + 2 * (all2 * all1)
      /\ ((p + 1) * all2) * all1 = p * (all2 * all1) + all2 * all1
      /\ (100 * hit1) * all2 = 100 * (hit1 * all2)
      /\ (100 * hit2 + 1) * all1 = 100 * (hit2 * all1) + all1
  BY <1>1
<1>6. /\ p * (all2 * all1) \in Int /\ all2 * all1 \in Int
      /\ hit1 * all2 \in Int /\ hit2 * all1 \in Int
  BY <1>1
<1> QED BY <1>3, <1>4, <1>5, <1>6

-------------------------------------------------------------------------------
(* The protection of customers *)

\* The counters are those of a window or of none, and the ratio that is kept
\* is that of the last window.
RatioOfLast ==
  \A c \in Customers :
    /\ Window(c) \in Windows \cup {NoTraffic}
    /\ periodic_byte_hit_ratio[c] =
         IF last[c].all = 0 THEN 0 ELSE Percent(last[c].hit, last[c].all)

\* Protection is part of a run under a configuration that asks for it.
ProtectionIsConfigured ==
  \A c \in Customers :
    skip_size_based_deletion[c] => state = "parsed" /\ switch["floor_customer_loss"]

\* What ProtectedHaveNotRecovered says of the ratios.
StillFallen ==
  \A c \in Customers : skip_size_based_deletion[c] =>
    LET before == fell[c].before
        after == fell[c].after
    IN /\ periodic_byte_hit_ratio[c] <= Percent(after.hit, after.all)
       /\ 100 * (before.hit * after.all - after.hit * before.all) > after.all * before.all

StatsInv ==
  /\ ParseInv
  /\ StatsTypeOK
  /\ RatioOfLast
  /\ ProtectionIsConfigured
  /\ StillFallen

LEMMA WindowsAreTraffic ==
  \A w \in Windows \cup {NoTraffic} : w.hit \in Nat /\ w.all \in Nat /\ w.hit <= w.all
<1>1. NoTraffic.hit = 0 /\ NoTraffic.all = 0
  BY DEF NoTraffic
<1>2. \A w \in Windows : w.hit \in Nat /\ w.all \in Nat /\ w.hit <= w.all
  BY CustomerAssumption
<1> QED BY <1>1, <1>2

LEMMA StatsStarts == StatsInit => StatsInv
<1> SUFFICES ASSUME StatsInit PROVE StatsInv
  OBVIOUS
<1>1. ParseInv
  BY ParseStarts DEF StatsInit
<1>2. StatsTypeOK
  BY DEF StatsInit, StatsTypeOK
<1>3. RatioOfLast
  BY DEF StatsInit, RatioOfLast, Window, NoTraffic
<1>4. ProtectionIsConfigured /\ StillFallen
  BY DEF StatsInit, ProtectionIsConfigured, StillFallen
<1> QED BY <1>1, <1>2, <1>3, <1>4 DEF StatsInv

\* Parsing is over before the counters are used.
LEMMA ParsingStep ==
  ASSUME StatsInv, Next, UNCHANGED statsVars
  PROVE  StatsInv'
<1>1. ParseInv'
  BY ParseStep DEF StatsInv
<1>2. state # "parsed"
  BY DEF Next, FileLine, FileEnd, NoFile, Option, CommandEnd
<1>3. StatsTypeOK' /\ RatioOfLast' /\ StillFallen'
  BY DEF StatsInv, statsVars, StatsTypeOK, RatioOfLast, StillFallen, Window
<1>4. ProtectionIsConfigured'
  BY <1>2 DEF StatsInv, statsVars, ProtectionIsConfigured
<1> QED BY <1>1, <1>3, <1>4 DEF StatsInv

LEMMA ServeStep ==
  ASSUME StatsInv, NEW c \in Customers, NEW w \in Windows, Serve(c, w)
  PROVE  StatsInv'
<1>1. /\ UNCHANGED vars
      /\ UNCHANGED <<periodic_byte_hit_ratio, skip_size_based_deletion, last, fell>>
      /\ periodic_bytes_hit' = [periodic_bytes_hit EXCEPT ![c] = w.hit]
      /\ periodic_bytes_hit_and_miss' = [periodic_bytes_hit_and_miss EXCEPT ![c] = w.all]
  BY DEF Serve
<1>2. ParseInv'
  BY <1>1, ParseStep DEF StatsInv
<1>3. w.hit \in Nat /\ w.all \in Nat /\ w = [hit |-> w.hit, all |-> w.all]
  BY CustomerAssumption
<1>4. StatsTypeOK'
  BY <1>1, <1>3 DEF StatsInv, StatsTypeOK
<1>5. RatioOfLast'
  <2>1. \A d \in Customers : Window(d)' = IF d = c THEN w ELSE Window(d)
    BY <1>1, <1>3 DEF StatsInv, StatsTypeOK, Window
  <2> QED BY <1>1, <2>1 DEF StatsInv, RatioOfLast
<1>6. ProtectionIsConfigured' /\ StillFallen'
  BY <1>1 DEF StatsInv, ProtectionIsConfigured, StillFallen, vars
<1> QED BY <1>2, <1>4, <1>5, <1>6 DEF StatsInv

LEMMA PeriodicStep ==
  ASSUME StatsInv, compute_periodic_stats
  PROVE  StatsInv'
<1>1. /\ state = "parsed" /\ UNCHANGED vars
      /\ skip_size_based_deletion' = [c \in Customers |-> Protected(c)]
      /\ periodic_byte_hit_ratio' = [c \in Customers |-> NewRatio(c)]
      /\ periodic_bytes_hit' = [c \in Customers |-> 0]
      /\ periodic_bytes_hit_and_miss' = [c \in Customers |-> 0]
      /\ last' = [c \in Customers |-> IF HasTraffic(c) THEN Window(c) ELSE last[c]]
      /\ fell' = [c \in Customers |->
                    IF Protected(c) /\ ~skip_size_based_deletion[c]
                    THEN [before |-> last[c], after |-> Window(c)] ELSE fell[c]]
  BY DEF compute_periodic_stats
<1>2. ParseInv'
  BY <1>1, ParseStep DEF StatsInv
<1>3. ASSUME NEW c \in Customers
      PROVE  /\ Window(c) \in Windows \cup {NoTraffic}
             /\ last[c] \in Windows \cup {NoTraffic}
             /\ Window(c).hit = periodic_bytes_hit[c]
             /\ Window(c).all = periodic_bytes_hit_and_miss[c]
             /\ skip_size_based_deletion[c] \in BOOLEAN
             /\ periodic_byte_hit_ratio[c] \in 0..100
  BY DEF StatsInv, StatsTypeOK, RatioOfLast, Window
<1>4. ASSUME NEW c \in Customers
      PROVE  /\ NewRatio(c) \in 0..100
             /\ NewRatio(c) = IF HasTraffic(c) THEN Percent(Window(c).hit, Window(c).all)
                                               ELSE periodic_byte_hit_ratio[c]
  <2>1. CASE HasTraffic(c)
    <3>1. /\ Window(c).hit \in Nat /\ Window(c).all \in Nat
          /\ Window(c).hit <= Window(c).all /\ Window(c).all > 0
      BY <1>3, <2>1, WindowsAreTraffic DEF HasTraffic
    <3> QED BY <1>3, <2>1, <3>1, PercentRounds DEF NewRatio
  <2>2. CASE ~HasTraffic(c)
    BY <1>3, <2>2 DEF NewRatio
  <2> QED BY <2>1, <2>2
<1>5. \A c \in Customers : Protected(c) \in BOOLEAN
  BY <1>3 DEF Protected
<1>6. StatsTypeOK'
  <2>1. periodic_byte_hit_ratio' \in [Customers -> 0..100]
    BY <1>1, <1>4
  <2>2. skip_size_based_deletion' \in [Customers -> BOOLEAN]
    BY <1>1, <1>5
  <2>3. last' \in [Customers -> Windows \cup {NoTraffic}]
    BY <1>1, <1>3
  <2>4. fell' \in [Customers -> [before : Windows \cup {NoTraffic},
                                 after : Windows \cup {NoTraffic}]]
    <3>1. \A c \in Customers : fell[c] \in [before : Windows \cup {NoTraffic},
                                            after : Windows \cup {NoTraffic}]
      BY DEF StatsInv, StatsTypeOK
    <3> QED BY <1>1, <1>3, <3>1
  <2> QED BY <1>1, <2>1, <2>2, <2>3, <2>4 DEF StatsTypeOK
<1>7. RatioOfLast'
  <2> SUFFICES ASSUME NEW c \in Customers
               PROVE  /\ Window(c)' = NoTraffic
                      /\ periodic_byte_hit_ratio'[c] =
                           IF last'[c].all = 0 THEN 0 ELSE Percent(last'[c].hit, last'[c].all)
    BY DEF RatioOfLast
  <2>1. Window(c)' = NoTraffic
    BY <1>1 DEF Window, NoTraffic
  <2>2. CASE HasTraffic(c)
    <3>1. last'[c] = Window(c) /\ Window(c).all # 0
      BY <1>1, <1>3, <2>2 DEF HasTraffic
    <3> QED BY <1>1, <1>4, <2>1, <2>2, <3>1
  <2>3. CASE ~HasTraffic(c)
    BY <1>1, <1>4, <2>1, <2>3 DEF StatsInv, RatioOfLast
  <2> QED BY <2>2, <2>3
<1>8. ASSUME NEW c \in Customers, Protected(c) PROVE switch["floor_customer_loss"]
  BY <1>8 DEF Protected, StatsInv, ProtectionIsConfigured
<1>9. ProtectionIsConfigured'
  BY <1>1, <1>8 DEF ProtectionIsConfigured, vars
<1>10. StillFallen'
  <2> SUFFICES ASSUME NEW c \in Customers, Protected(c)
               PROVE  LET before == fell'[c].before
                          after == fell'[c].after
                      IN /\ NewRatio(c) <= Percent(after.hit, after.all)
                         /\ 100 * (before.hit * after.all - after.hit * before.all)
                              > after.all * before.all
    BY <1>1 DEF StillFallen
  <2>1. Fell(Diff(c)) \/ (skip_size_based_deletion[c] /\ ~Rose(Diff(c)))
    BY <1>8 DEF Protected
  <2>2. Diff(c) = NewRatio(c) - periodic_byte_hit_ratio[c]
        /\ NewRatio(c) \in Int /\ periodic_byte_hit_ratio[c] \in Int
    BY <1>3, <1>4 DEF Diff
  <2>3. NewRatio(c) <= periodic_byte_hit_ratio[c]
    BY <2>1, <2>2 DEF Fell, Rose
  \* Who was protected before has not risen since.
  <2>4. CASE skip_size_based_deletion[c]
    <3>1. fell'[c] = fell[c]
      BY <1>1, <2>4
    <3>2. /\ fell[c].after \in Windows \cup {NoTraffic}
          /\ fell[c].before \in Windows \cup {NoTraffic}
      BY DEF StatsInv, StatsTypeOK
    <3>3. /\ periodic_byte_hit_ratio[c] <= Percent(fell[c].after.hit, fell[c].after.all)
          /\ 100 * (fell[c].before.hit * fell[c].after.all
                      - fell[c].after.hit * fell[c].before.all)
               > fell[c].after.all * fell[c].before.all
      BY <2>4 DEF StatsInv, StillFallen
    <3>4. Percent(fell[c].after.hit, fell[c].after.all) \in Int
      <4>1. /\ fell[c].after.hit \in Nat /\ fell[c].after.all \in Nat
            /\ fell[c].after.hit <= fell[c].after.all
            /\ fell[c].before.hit \in Nat /\ fell[c].before.all \in Nat
        BY <3>2, WindowsAreTraffic
      <4>2. fell[c].after.all > 0
        <5> SUFFICES ASSUME fell[c].after.all = 0 PROVE FALSE
          BY <4>1
        <5>1. fell[c].after.hit = 0
          BY <4>1
        <5> QED BY <3>3, <4>1, <5>1
      <4>3. Percent(fell[c].after.hit, fell[c].after.all) \in 0..100
        BY <4>1, <4>2, PercentRounds, Zenon
      <4> QED BY <4>3
    <3> QED BY <2>2, <2>3, <3>1, <3>3, <3>4
  \* Who is protected now had traffic in both windows, and lost.
  <2>5. CASE ~skip_size_based_deletion[c]
    <3>1. fell'[c] = [before |-> last[c], after |-> Window(c)] /\ Fell(Diff(c))
      BY <1>1, <2>1, <2>5
    <3>2. HasTraffic(c) /\ NewRatio(c) = Percent(Window(c).hit, Window(c).all)
      BY <1>4, <2>2, <3>1 DEF Fell
    <3>3. /\ Window(c).hit \in Nat /\ Window(c).all \in Nat
          /\ Window(c).hit <= Window(c).all /\ Window(c).all > 0
          /\ last[c].hit \in Nat /\ last[c].all \in Nat /\ last[c].hit <= last[c].all
      BY <1>3, <3>2, WindowsAreTraffic DEF HasTraffic
    <3>4. periodic_byte_hit_ratio[c] # 0
      BY <1>4, <2>2, <3>1 DEF Fell
    <3>5. last[c].all > 0 /\ periodic_byte_hit_ratio[c] = Percent(last[c].hit, last[c].all)
      BY <3>3, <3>4 DEF StatsInv, RatioOfLast
    <3>6. Percent(Window(c).hit, Window(c).all) - Percent(last[c].hit, last[c].all) <= -2
      BY <2>2, <3>1, <3>2, <3>5 DEF Fell
    <3>7. 100 * (last[c].hit * Window(c).all - Window(c).hit * last[c].all)
            > Window(c).all * last[c].all
      BY <3>3, <3>5, <3>6, RealLoss
    <3> QED BY <2>2, <3>1, <3>2, <3>7
  <2> QED BY <2>4, <2>5
<1> QED BY <1>2, <1>6, <1>7, <1>9, <1>10 DEF StatsInv

LEMMA StatsStep == StatsInv /\ [StatsNext]_allVars => StatsInv'
<1> SUFFICES ASSUME StatsInv, [StatsNext]_allVars PROVE StatsInv'
  OBVIOUS
<1>1. CASE UNCHANGED allVars
  <2>1. UNCHANGED vars /\ UNCHANGED statsVars
    BY <1>1 DEF allVars
  <2>2. ParseInv'
    BY <2>1, ParseStep DEF StatsInv
  <2>3. StatsTypeOK' /\ RatioOfLast' /\ StillFallen'
    BY <2>1 DEF StatsInv, statsVars, StatsTypeOK, RatioOfLast, StillFallen, Window
  <2>4. ProtectionIsConfigured'
    BY <2>1 DEF StatsInv, statsVars, vars, ProtectionIsConfigured
  <2> QED BY <2>2, <2>3, <2>4 DEF StatsInv
<1> QED BY <1>1, ParsingStep, ServeStep, PeriodicStep DEF StatsNext

-------------------------------------------------------------------------------
(* The theorems *)

\* The strengthening holds in every reachable state.
THEOREM StatsInductive == StatsSpec => []StatsInv
BY StatsStarts, StatsStep, PTL DEF StatsSpec

\* A parsed configuration means what its file or command says as a whole, for
\* any number of lines in any order, and the statistics run under it.
THEOREM ConfiguredAsSaid == StatsSpec => []WellConfigured
<1>1. StatsInv => WellConfigured
  BY DEF StatsInv, ParseInv, WellConfigured
<1> QED BY <1>1, StatsInductive, PTL

\* Nobody is protected who has recovered or whom the configuration does not
\* protect, for every traffic of every customer.
THEOREM NoneRecovered == StatsSpec => []ProtectedHaveNotRecovered
<1>1. StatsInv => ProtectedHaveNotRecovered
  <2> SUFFICES ASSUME StatsInv, NEW c \in Customers, skip_size_based_deletion[c]
               PROVE  Says("floor_customer_loss", 1)
    BY DEF StatsInv, StillFallen, ProtectedHaveNotRecovered
  <2>1. state = "parsed" /\ switch["floor_customer_loss"]
    BY DEF StatsInv, ProtectionIsConfigured
  <2>2. "floor_customer_loss" \in Switches \ {"second_hit_caching_hd", "disable_kc"}
    BY CustomerAssumption
  <2> QED BY <2>1, <2>2 DEF StatsInv, ParseInv, ParsedAsAWhole
<1> QED BY <1>1, StatsInductive, PTL
===============================================================================
