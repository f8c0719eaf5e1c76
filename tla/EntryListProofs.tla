---------------------------- MODULE EntryListProofs ----------------------------
(***************************************************************************)
(* What detach, attach and the purge at the tail do to the list of entries *)
(* and to the sum of their bytes, for every list.                          *)
(***************************************************************************)
EXTENDS EntryList, Functions, SequenceTheorems, TLAPS

\* Attaching puts the key first and shifts the others by one.
LEMMA AttachElements ==
  ASSUME NEW S, NEW list \in Seq(S), NEW k \in S
  PROVE  /\ Attach(list, k) \in Seq(S)
         /\ Len(Attach(list, k)) = Len(list) + 1
         /\ Attach(list, k)[1] = k
         /\ \A i \in 1..Len(list) : Attach(list, k)[i+1] = list[i]
         /\ Range(Attach(list, k)) = Range(list) \cup {k}
<1> DEFINE a == Attach(list, k)
<1>1. <<k>> \in Seq(S) /\ Len(<<k>>) = 1 /\ <<k>>[1] = k
  OBVIOUS
<1>2. /\ a \in Seq(S)
      /\ Len(a) = 1 + Len(list)
      /\ \A i \in 1..1 + Len(list) :
           a[i] = IF i <= 1 THEN <<k>>[i] ELSE list[i-1]
  BY <1>1, ConcatProperties DEF Attach, Cons
<1>3. Len(list) \in Nat /\ DOMAIN list = 1..Len(list) /\ DOMAIN a = 1..Len(a)
  BY <1>2, LenProperties
<1>4. a[1] = k /\ \A i \in 1..Len(list) : a[i+1] = list[i]
  BY <1>1, <1>2, <1>3
<1>5. Range(a) = Range(list) \cup {k}
  <2>1. ASSUME NEW i \in DOMAIN a PROVE a[i] \in Range(list) \cup {k}
    <3>1. CASE i = 1
      BY <3>1, <1>4
    <3>2. CASE i # 1
      <4>1. i - 1 \in 1..Len(list) /\ a[i] = list[i-1]
        BY <3>2, <1>1, <1>2, <1>3
      <4> QED BY <4>1, <1>3 DEF Range
    <3> QED BY <3>1, <3>2
  <2>2. ASSUME NEW i \in DOMAIN list PROVE list[i] \in Range(a)
    <3>1. i + 1 \in DOMAIN a /\ a[i+1] = list[i]
      BY <1>2, <1>3, <1>4
    <3> QED BY <3>1 DEF Range
  <2>3. k \in Range(a)
    <3>1. 1 \in DOMAIN a
      BY <1>2, <1>3
    <3> QED BY <3>1, <1>4 DEF Range
  <2> QED BY <2>1, <2>2, <2>3 DEF Range
<1> QED BY <1>2, <1>3, <1>4, <1>5

\* Attaching adds one key.
LEMMA AttachRange ==
  ASSUME NEW S, NEW list \in Seq(S), NEW k \in S
  PROVE  /\ Range(Attach(list, k)) = Range(list) \cup {k}
         /\ Len(Attach(list, k)) = Len(list) + 1
BY AttachElements, SMT

LEMMA AttachHead ==
  ASSUME NEW S, NEW list \in Seq(S), NEW k \in S
  PROVE  Head(Attach(list, k)) = k
<1>1. Attach(list, k) \in Seq(S) /\ Len(Attach(list, k)) = Len(list) + 1
      /\ Attach(list, k)[1] = k
  BY AttachElements
<1>2. Attach(list, k) # <<>>
  BY <1>1, LenProperties
<1> QED BY <1>1, <1>2

\* A linked key has a position.
LEMMA PositionOfElement ==
  ASSUME NEW S, NEW list \in Seq(S), NEW k \in Range(list)
  PROVE  PositionOf(list, k) \in 1..Len(list) /\ list[PositionOf(list, k)] = k
<1>1. DOMAIN list = 1..Len(list)
  BY LenProperties
<1>2. \E i \in 1..Len(list) : list[i] = k
  BY <1>1 DEF Range
<1> QED BY <1>2 DEF PositionOf

\* Detaching closes the gap the node leaves.
LEMMA DetachElements ==
  ASSUME NEW S, NEW list \in Seq(S), NEW k \in Range(list)
  PROVE  /\ Detach(list, k) \in Seq(S)
         /\ Len(Detach(list, k)) = Len(list) - 1
         /\ \A i \in 1..Len(list) - 1 :
              Detach(list, k)[i] =
                IF i < PositionOf(list, k) THEN list[i] ELSE list[i+1]
<1> DEFINE p == PositionOf(list, k)
           n == Len(list)
           l == SubSeq(list, 1, p - 1)
           r == SubSeq(list, p + 1, n)
<1>1. n \in Nat /\ p \in 1..n /\ \A i \in 1..n : list[i] \in S
  BY PositionOfElement, LenProperties
<1> HIDE DEF p, n
<1>2. /\ l \in Seq(S) /\ Len(l) = p - 1
      /\ \A i \in 1..p-1 : l[i] = list[i]
  <2>1. \A i \in 1..p-1 : list[i] \in S
    BY <1>1
  <2>2. /\ l \in Seq(S) /\ Len(l) = IF 1 <= p-1 THEN p-1-1+1 ELSE 0
        /\ \A i \in 1..(p-1)-1+1 : l[i] = list[1+i-1]
    BY <2>1, <1>1, SubSeqProperties
  <2> QED BY <2>2, <1>1
<1>3. /\ r \in Seq(S) /\ Len(r) = n - p
      /\ \A i \in 1..n-p : r[i] = list[p+i]
  <2>1. \A i \in p+1..n : list[i] \in S
    BY <1>1
  <2>2. /\ r \in Seq(S) /\ Len(r) = IF p+1 <= n THEN n-(p+1)+1 ELSE 0
        /\ \A i \in 1..n-(p+1)+1 : r[i] = list[p+1+i-1]
    BY <2>1, <1>1, SubSeqProperties
  <2> HIDE DEF r
  <2>3. \A i \in 1..n-p : i \in 1..n-(p+1)+1 /\ p+1+i-1 = p+i
    BY <1>1
  <2>4. (IF p+1 <= n THEN n-(p+1)+1 ELSE 0) = n - p
    BY <1>1
  <2> QED BY <2>2, <2>3, <2>4
<1>4. Detach(list, k) = l \o r
  BY DEF Detach, RemoveAt, p, n
<1>5. /\ l \o r \in Seq(S)
      /\ Len(l \o r) = Len(l) + Len(r)
      /\ \A i \in 1..Len(l) + Len(r) :
           (l \o r)[i] = IF i <= Len(l) THEN l[i] ELSE r[i - Len(l)]
  BY <1>2, <1>3, ConcatProperties
<1>6. ASSUME NEW i \in 1..n-1
      PROVE  (l \o r)[i] = IF i < p THEN list[i] ELSE list[i+1]
  <2>1. CASE i < p
    BY <2>1, <1>1, <1>2, <1>3, <1>5
  <2>2. CASE ~(i < p)
    <3>1. i - (p-1) \in 1..n-p /\ (l \o r)[i] = r[i - (p-1)]
      BY <2>2, <1>1, <1>2, <1>3, <1>5
    <3>2. r[i - (p-1)] = list[i+1]
      BY <3>1, <1>1, <1>3
    <3> QED BY <3>1, <3>2, <2>2, <1>1
  <2> QED BY <2>1, <2>2
<1>7. /\ Detach(list, k) \in Seq(S)
      /\ Len(Detach(list, k)) = n - 1
      /\ \A i \in 1..n-1 :
           Detach(list, k)[i] = IF i < p THEN list[i] ELSE list[i+1]
  <2> HIDE DEF l, r
  <2>1. Len(Detach(list, k)) = n - 1
    BY <1>1, <1>2, <1>3, <1>4, <1>5
  <2> QED BY <2>1, <1>4, <1>5, <1>6
<1> QED BY <1>7 DEF n, p

\* Detaching from a list without repeats takes out that key and no other.
LEMMA DetachRange ==
  ASSUME NEW S, NEW list \in Seq(S), NEW k \in Range(list), Unrepeated(list)
  PROVE  /\ Range(Detach(list, k)) = Range(list) \ {k}
         /\ Unrepeated(Detach(list, k))
<1> DEFINE p == PositionOf(list, k)
           n == Len(list)
           d == Detach(list, k)
<1>1. /\ n \in Nat /\ p \in 1..n /\ list[p] = k
      /\ DOMAIN list = 1..n
  BY PositionOfElement, LenProperties
<1>2. /\ DOMAIN d = 1..n-1 /\ Len(d) = n - 1
      /\ \A i \in 1..n-1 : d[i] = IF i < p THEN list[i] ELSE list[i+1]
  BY DetachElements, LenProperties
<1>3. \A i, j \in 1..n : list[i] = list[j] => i = j
  BY DEF Unrepeated
<1> HIDE DEF p, n, d
<1>4. ASSUME NEW i \in 1..n-1 PROVE d[i] \in Range(list) \ {k}
  <2>1. PICK j \in 1..n : d[i] = list[j] /\ j # p
    <3>1. CASE i < p
      BY <3>1, <1>1, <1>2
    <3>2. CASE ~(i < p)
      BY <3>2, <1>1, <1>2
    <3> QED BY <3>1, <3>2
  <2>2. list[j] # k
    BY <2>1, <1>1, <1>3
  <2> QED BY <2>1, <2>2, <1>1 DEF Range
<1>5. ASSUME NEW x \in Range(list) \ {k} PROVE x \in Range(d)
  <2>1. PICK j \in 1..n : list[j] = x /\ j # p
    BY <1>1 DEF Range
  <2>2. CASE j < p
    <3>1. j \in 1..n-1 /\ d[j] = x
      BY <2>1, <2>2, <1>1, <1>2
    <3> QED BY <3>1, <1>2 DEF Range
  <2>3. CASE ~(j < p)
    <3>1. j - 1 \in 1..n-1 /\ ~(j - 1 < p)
      BY <2>1, <2>3, <1>1
    <3>2. d[j-1] = x
      BY <3>1, <2>1, <1>1, <1>2
    <3> QED BY <3>1, <3>2, <1>2 DEF Range
  <2> QED BY <2>2, <2>3
<1>6. Range(d) = Range(list) \ {k}
  BY <1>2, <1>4, <1>5 DEF Range
<1>7. ASSUME NEW i \in 1..n-1, NEW j \in 1..n-1, d[i] = d[j] PROVE i = j
  <2> DEFINE Shift(x) == IF x < p THEN x ELSE x + 1
  <2>1. Shift(i) \in 1..n /\ d[i] = list[Shift(i)]
    BY <1>1, <1>2
  <2>2. Shift(j) \in 1..n /\ d[j] = list[Shift(j)]
    BY <1>1, <1>2
  <2>3. Shift(i) = Shift(j)
    BY <2>1, <2>2, <1>3, <1>7
  <2> QED BY <2>3, <1>1
<1> QED BY <1>2, <1>6, <1>7 DEF Unrepeated, d

\* Detaching another key leaves the first where it is.
LEMMA DetachHead ==
  ASSUME NEW S, NEW list \in Seq(S), NEW k \in Range(list), k # Head(list)
  PROVE  Head(Detach(list, k)) = Head(list)
<1> DEFINE d == Detach(list, k)
           n == Len(list)
           p == PositionOf(list, k)
<1>1. n \in Nat /\ p \in 1..n /\ list[p] = k /\ DOMAIN list = 1..n
  BY PositionOfElement, LenProperties
<1>2. /\ d \in Seq(S) /\ Len(d) = n - 1
      /\ \A i \in 1..n-1 : d[i] = IF i < p THEN list[i] ELSE list[i+1]
  BY DetachElements
<1>3. Head(list) = list[1]
  BY <1>1
<1> HIDE DEF d, n, p
<1>4. p # 1 /\ 1 \in 1..n-1 /\ 1 < p
  BY <1>1, <1>3
<1>5. d[1] = list[1] /\ d # <<>>
  BY <1>2, <1>4
<1>6. Head(d) = d[1]
  BY <1>2, <1>5
<1> QED BY <1>3, <1>5, <1>6 DEF d

\* Attaching a key that is not linked repeats none.
LEMMA AttachUnrepeated ==
  ASSUME NEW S, NEW list \in Seq(S), NEW k \in S,
         Unrepeated(list), k \notin Range(list)
  PROVE  Unrepeated(Attach(list, k))
<1> DEFINE a == Attach(list, k)
           n == Len(list)
<1>1. /\ n \in Nat /\ DOMAIN list = 1..n
      /\ Len(a) = n + 1 /\ a[1] = k
      /\ \A i \in 1..n : a[i+1] = list[i]
  BY AttachElements, LenProperties
<1> HIDE DEF a, n
<1>2. \A i \in 2..n+1 : i - 1 \in 1..n /\ a[i] = list[i-1]
  BY <1>1
<1>3. \A i \in 2..n+1 : a[i] # k
  BY <1>1, <1>2 DEF Range
<1>4. \A i, j \in 1..n : list[i] = list[j] => i = j
  BY DEF Unrepeated, n
<1>5. ASSUME NEW i \in 1..n+1, NEW j \in 1..n+1, a[i] = a[j] PROVE i = j
  <2>1. CASE i = 1 \/ j = 1
    BY <2>1, <1>1, <1>3, <1>5
  <2>2. CASE i # 1 /\ j # 1
    <3>1. i \in 2..n+1 /\ j \in 2..n+1
      BY <2>2, <1>1
    <3>2. i - 1 = j - 1
      BY <3>1, <1>2, <1>4, <1>5
    <3> QED BY <3>2
  <2> QED BY <2>1, <2>2
<1> QED BY <1>1, <1>5 DEF Unrepeated, a

\* The purge at the tail is the detach of the last key.
LEMMA FrontIsDetach ==
  ASSUME NEW S, NEW list \in Seq(S), list # <<>>, Unrepeated(list)
  PROVE  /\ Last(list) \in Range(list)
         /\ PositionOf(list, Last(list)) = Len(list)
         /\ Front(list) = Detach(list, Last(list))
<1> DEFINE n == Len(list)
           k == Last(list)
           p == PositionOf(list, k)
<1>1. n \in Nat /\ n # 0 /\ DOMAIN list = 1..n
  BY LenProperties, EmptySeq
<1>2. k = list[n] /\ k \in Range(list)
  BY <1>1 DEF Last, Range
<1>3. p = n
  <2>1. p \in 1..n /\ list[p] = k
    BY <1>2, PositionOfElement
  <2>2. \A i, j \in 1..n : list[i] = list[j] => i = j
    BY DEF Unrepeated
  <2>3. n \in 1..n
    BY <1>1
  <2> HIDE DEF p, n, k
  <2> QED BY <2>1, <2>2, <2>3, <1>2
<1>4. Front(list) \in Seq(S)
      /\ Len(Front(list)) = n - 1
      /\ \A i \in 1..n-1 : Front(list)[i] = list[i]
  <2>1. \A i \in 1..n-1 : list[i] \in S
    BY <1>1, ElementOfSeq
  <2>2. /\ SubSeq(list, 1, n-1) \in Seq(S)
        /\ Len(SubSeq(list, 1, n-1)) = IF 1 <= n-1 THEN n-1-1+1 ELSE 0
        /\ \A i \in 1..(n-1)-1+1 : SubSeq(list, 1, n-1)[i] = list[1+i-1]
    BY <2>1, <1>1, SubSeqProperties
  <2> QED BY <2>2, <1>1 DEF Front
<1>5. /\ Detach(list, k) \in Seq(S)
      /\ Len(Detach(list, k)) = n - 1
      /\ \A i \in 1..n-1 :
           Detach(list, k)[i] = IF i < p THEN list[i] ELSE list[i+1]
  BY <1>2, DetachElements
<1>6. \A i \in 1..n-1 : Detach(list, k)[i] = list[i]
  <2> HIDE DEF p, k
  <2> QED BY <1>1, <1>3, <1>5
<1>7. Front(list) = Detach(list, k)
  BY <1>4, <1>5, <1>6, SeqEqual
<1> QED BY <1>2, <1>3, <1>7

\* A purge or a detach takes its bytes out of the sum.
LEMMA DetachSum ==
  ASSUME NEW S, NEW list \in Seq(S), NEW k \in Range(list), Unrepeated(list),
         NEW weight, NEW rest, NEW total \in Nat,
         \A x \in Range(list) : weight[x] \in Nat,
         \A x \in Range(list) \ {k} : rest[x] = weight[x],
         SumsTo(list, weight, total)
  PROVE  /\ weight[k] <= total
         /\ SumsTo(Detach(list, k), rest, total - weight[k])
<1> DEFINE p == PositionOf(list, k)
           n == Len(list)
           d == Detach(list, k)
           w == weight[k]
<1>1. /\ n \in Nat /\ p \in 1..n /\ list[p] = k
      /\ DOMAIN list = 1..n
  BY PositionOfElement, LenProperties
<1>2. /\ Len(d) = n - 1 /\ DOMAIN d = 1..n-1
      /\ \A i \in 1..n-1 : d[i] = IF i < p THEN list[i] ELSE list[i+1]
  BY DetachElements, LenProperties
<1>3. \A i \in 1..n-1 : d[i] \in Range(list) \ {k}
  <2>1. Range(d) = Range(list) \ {k}
    BY DetachRange
  <2>2. \A i \in 1..n-1 : d[i] \in Range(d)
    BY <1>2 DEF Range
  <2> QED BY <2>1, <2>2
<1>4. PICK acc \in [0..n -> 0..total] :
        /\ acc[0] = 0
        /\ \A i \in 1..n : acc[i] = acc[i-1] + weight[list[i]]
        /\ \A i, j \in 0..n : i <= j => acc[i] <= acc[j]
        /\ acc[n] = total
  BY DEF SumsTo
<1> HIDE DEF p, n, d, w
<1>5. w \in Nat /\ acc[p] = acc[p-1] + w
  BY <1>1, <1>4 DEF w
<1>6. \A i \in 0..n : acc[i] \in 0..total
  BY <1>4
<1>7. \A i \in 0..n : /\ i < p => acc[i] <= total - w
                      /\ ~(i < p) => acc[i] >= w
  <2>1. p \in 0..n /\ p-1 \in 0..n /\ n \in 0..n
    BY <1>1
  <2>2. acc[p] <= total
    BY <2>1, <1>4
  <2>3. acc[p-1] \in Nat /\ acc[p-1] + w <= total
    BY <2>1, <2>2, <1>5, <1>6
  <2>4. ASSUME NEW i \in 0..n, i < p PROVE acc[i] <= total - w
    <3>1. i <= p-1
      BY <2>4, <1>1
    <3>2. acc[i] <= acc[p-1]
      BY <3>1, <2>1, <1>4
    <3> QED BY <3>2, <2>3, <1>5, <1>6
  <2>5. ASSUME NEW i \in 0..n, ~(i < p) PROVE acc[i] >= w
    <3>1. p <= i
      BY <2>5, <1>1
    <3>2. acc[p] <= acc[i]
      BY <3>1, <2>1, <1>4
    <3> QED BY <3>2, <2>3, <1>5, <1>6
  <2> QED BY <2>4, <2>5
<1>8. w <= total
  <2>1. 0 \in 0..n /\ 0 < p
    BY <1>1
  <2> QED BY <2>1, <1>4, <1>5, <1>7
<1> DEFINE new == [i \in 0..n-1 |-> IF i < p THEN acc[i] ELSE acc[i+1] - w]
<1>9. new \in [0..n-1 -> 0..total - w]
  <2>1. ASSUME NEW i \in 0..n-1 PROVE new[i] \in 0..total - w
    <3>1. i \in 0..n /\ i+1 \in 0..n
      BY <1>1
    <3>2. CASE i < p
      BY <3>1, <3>2, <1>5, <1>6, <1>7, <1>8
    <3>3. CASE ~(i < p)
      <4>1. ~(i+1 < p)
        BY <3>3, <1>1
      <4>2. acc[i+1] >= w /\ acc[i+1] \in 0..total
        BY <4>1, <3>1, <1>6, <1>7
      <4> QED BY <4>2, <3>3, <1>5
    <3> QED BY <3>2, <3>3
  <2> QED BY <2>1
<1>10. new[0] = 0
  BY <1>1, <1>4
<1>11. ASSUME NEW i \in 1..n-1 PROVE new[i] = new[i-1] + rest[d[i]]
  <2>1. /\ i \in 1..n /\ i+1 \in 1..n /\ i-1 \in 0..n-1
        /\ i \in 0..n-1 /\ i \in 0..n /\ i-1 \in 0..n
    BY <1>1
  <2>2. rest[d[i]] = weight[d[i]]
    BY <1>3
  <2>3. CASE i < p
    <3>1. d[i] = list[i] /\ i-1 < p
      BY <2>3, <1>1, <1>2
    <3>2. acc[i] = acc[i-1] + weight[list[i]]
      BY <2>1, <1>4
    <3> QED BY <2>1, <2>2, <2>3, <3>1, <3>2
  <2>4. CASE ~(i < p)
    <3>1. d[i] = list[i+1] /\ new[i] = acc[i+1] - w
      BY <2>1, <2>4, <1>2
    <3>2. acc[i+1] = acc[i] + weight[list[i+1]]
      BY <2>1, <1>4
    <3>3. acc[i] - w = new[i-1]
      <4>1. CASE i = p
        <5>1. i-1 < p /\ new[i-1] = acc[i-1]
          BY <4>1, <2>1, <1>1
        <5> QED BY <4>1, <5>1, <2>1, <1>5, <1>6
      <4>2. CASE i # p
        <5>1. ~(i-1 < p) /\ (i-1)+1 = i
          BY <4>2, <2>4, <1>1
        <5> QED BY <5>1, <2>1
      <4> QED BY <4>1, <4>2
    <3>4. acc[i] \in Int /\ acc[i+1] \in Int
      BY <2>1, <1>6
    <3>5. weight[list[i+1]] \in Nat
      <4>1. list[i+1] \in Range(list)
        BY <2>1, <1>1 DEF Range
      <4> QED BY <4>1
    <3>6. rest[d[i]] = weight[list[i+1]]
      BY <2>2, <3>1
    <3> HIDE DEF new
    <3>7. acc[i+1] - w = (acc[i] - w) + weight[list[i+1]]
      BY <3>2, <3>4, <3>5, <1>5
    <3> QED BY <3>1, <3>3, <3>6, <3>7
  <2> QED BY <2>3, <2>4
<1>12. ASSUME NEW i \in 0..n-1, NEW j \in 0..n-1, i <= j
       PROVE  new[i] <= new[j]
  <2>1. i \in 0..n /\ j \in 0..n /\ i+1 \in 0..n /\ j+1 \in 0..n
    BY <1>1
  <2>2. CASE j < p
    <3>1. acc[i] <= acc[j] /\ i < p
      BY <2>1, <2>2, <1>4, <1>12, <1>1
    <3> QED BY <3>1, <2>2
  <2>3. CASE ~(i < p)
    <3>1. acc[i+1] <= acc[j+1] /\ ~(j < p)
      BY <2>1, <2>3, <1>4, <1>12, <1>1
    <3>2. acc[i+1] \in Int /\ acc[j+1] \in Int
      BY <2>1, <1>6
    <3> QED BY <3>1, <3>2, <2>3, <1>5
  <2>4. CASE i < p /\ ~(j < p)
    <3>1. /\ p-1 \in 0..n /\ p \in 0..n
          /\ i <= p-1 /\ p <= j+1
      BY <2>4, <1>1
    <3>2. acc[i] <= acc[p-1] /\ acc[p] <= acc[j+1]
      BY <3>1, <2>1, <1>4
    <3>3. acc[i] \in Int /\ acc[p-1] \in Int /\ acc[p] \in Int /\ acc[j+1] \in Int
      BY <3>1, <2>1, <1>6
    <3> QED BY <3>2, <3>3, <2>4, <1>5
  <2> QED BY <2>2, <2>3, <2>4
<1>13. new[n-1] = total - w
  <2>1. n-1 \in 0..n-1 /\ n \in 0..n
    BY <1>1
  <2>2. CASE n-1 < p
    <3>1. p = n /\ n-1 \in 0..n
      BY <2>2, <1>1
    <3>2. total = acc[n-1] + w /\ acc[n-1] \in Nat
      BY <3>1, <1>4, <1>5, <1>6
    <3>3. new[n-1] = acc[n-1]
      BY <2>1, <2>2
    <3> QED BY <3>2, <3>3, <1>5
  <2>3. CASE ~(n-1 < p)
    BY <2>1, <2>3, <1>4, <1>1
  <2> QED BY <2>2, <2>3
<1>14. SumsTo(d, rest, total - w)
  <2> HIDE DEF new
  <2>1. new \in [0..Len(d) -> 0..total - w]
    BY <1>2, <1>9
  <2>2. \A i \in 1..Len(d) : new[i] = new[i-1] + rest[d[i]]
    BY <1>2, <1>11
  <2>3. \A i, j \in 0..Len(d) : i <= j => new[i] <= new[j]
    BY <1>2, <1>12
  <2>4. new[Len(d)] = total - w
    BY <1>2, <1>13
  <2> QED BY <2>1, <2>2, <2>3, <2>4, <1>10 DEF SumsTo
<1> QED BY <1>8, <1>14 DEF w, d

\* Attaching puts its bytes into the sum.
LEMMA AttachSum ==
  ASSUME NEW S, NEW list \in Seq(S), NEW k \in S, k \notin Range(list),
         NEW weight, NEW more, NEW total \in Nat, more[k] \in Nat,
         \A x \in Range(list) : weight[x] \in Nat,
         \A x \in Range(list) : more[x] = weight[x],
         SumsTo(list, weight, total)
  PROVE  SumsTo(Attach(list, k), more, total + more[k])
<1> DEFINE n == Len(list)
           a == Attach(list, k)
           w == more[k]
<1>1. /\ n \in Nat /\ DOMAIN list = 1..n
      /\ Len(a) = n + 1 /\ a[1] = k
      /\ \A i \in 1..n : a[i+1] = list[i]
  BY AttachElements, LenProperties
<1>2. PICK acc \in [0..n -> 0..total] :
        /\ acc[0] = 0
        /\ \A i \in 1..n : acc[i] = acc[i-1] + weight[list[i]]
        /\ \A i, j \in 0..n : i <= j => acc[i] <= acc[j]
        /\ acc[n] = total
  BY DEF SumsTo
<1>3. w \in Nat /\ w = more[k]
  OBVIOUS
<1> HIDE DEF n, a, w
<1>4. \A i \in 0..n : acc[i] \in 0..total
  BY <1>2
<1> DEFINE new == [i \in 0..n+1 |-> IF i = 0 THEN 0 ELSE acc[i-1] + w]
<1>5. \A i \in 0..n+1 : new[i] \in 0..total + w
  <2>1. ASSUME NEW i \in 0..n+1, i # 0 PROVE new[i] \in 0..total + w
    <3>1. acc[i-1] \in 0..total
      BY <2>1, <1>1, <1>4
    <3> QED BY <3>1, <2>1, <1>3
  <2> QED BY <2>1, <1>3
<1>6. ASSUME NEW i \in 1..n+1 PROVE new[i] = new[i-1] + more[a[i]]
  <2>1. CASE i = 1
    <3>1. new[1] = acc[0] + w /\ new[0] = 0
      BY <1>1
    <3> QED BY <2>1, <3>1, <1>1, <1>2, <1>3
  <2>2. CASE i # 1
    <3>1. i-1 \in 1..n /\ (i-1)+1 = i /\ i-1 # 0 /\ i # 0 /\ i-1 \in 0..n+1
      BY <2>2, <1>1
    <3>2. a[i] = list[i-1] /\ list[i-1] \in Range(list)
      BY <3>1, <1>1 DEF Range
    <3>3. more[a[i]] = weight[list[i-1]]
      BY <3>2
    <3>4. acc[i-1] = acc[i-2] + weight[list[i-1]]
      <4>1. (i-1)-1 = i-2
        BY <3>1
      <4> QED BY <4>1, <3>1, <1>2
    <3>5. new[i] = acc[i-1] + w /\ new[i-1] = acc[i-2] + w
      <4>1. (i-1)-1 = i-2
        BY <3>1
      <4> QED BY <4>1, <3>1
    <3>6. acc[i-1] \in Int /\ acc[i-2] \in Int
      BY <3>1, <1>4, <2>2, <1>1
    <3> HIDE DEF new
    <3>7. acc[i-1] + w = (acc[i-2] + w) + weight[list[i-1]]
      <4> DEFINE x == acc[i-2]
                 y == weight[list[i-1]]
      <4>1. x \in Int /\ y \in Int /\ w \in Int /\ acc[i-1] = x + y
        BY <3>2, <3>4, <3>6, <1>3
      <4> HIDE DEF x, y
      <4>2. (x + y) + w = (x + w) + y
        BY <4>1
      <4> QED BY <4>1, <4>2 DEF x, y
    <3> QED BY <3>3, <3>5, <3>7
  <2> QED BY <2>1, <2>2
<1>7. ASSUME NEW i \in 0..n+1, NEW j \in 0..n+1, i <= j PROVE new[i] <= new[j]
  <2>1. CASE i = 0
    BY <2>1, <1>5, <1>1
  <2>2. CASE i # 0
    <3>1. i-1 \in 0..n /\ j-1 \in 0..n /\ i-1 <= j-1 /\ j # 0
      BY <2>2, <1>1, <1>7
    <3>2. acc[i-1] <= acc[j-1] /\ acc[i-1] \in Int /\ acc[j-1] \in Int
      BY <3>1, <1>2, <1>4
    <3> QED BY <3>1, <3>2, <2>2, <1>3
  <2> QED BY <2>1, <2>2
<1>8. new[n+1] = total + w /\ new[0] = 0
  BY <1>1, <1>2
<1>9. SumsTo(a, more, total + w)
  <2>1. new \in [0..n+1 -> 0..total + w]
    BY <1>5
  <2> HIDE DEF new
  <2>2. new \in [0..Len(a) -> 0..total + w]
    BY <1>1, <2>1
  <2>3. \A i \in 1..Len(a) : new[i] = new[i-1] + more[a[i]]
    BY <1>1, <1>6
  <2>4. \A i, j \in 0..Len(a) : i <= j => new[i] <= new[j]
    BY <1>1, <1>7
  <2>5. new[Len(a)] = total + w
    BY <1>1, <1>8
  <2> QED BY <2>2, <2>3, <2>4, <2>5, <1>8 DEF SumsTo
<1> QED BY <1>9 DEF a, w

\* The sum depends on the weights of the linked keys alone.
LEMMA SumOfSame ==
  ASSUME NEW S, NEW list \in Seq(S), NEW weight, NEW rest, NEW total \in Nat,
         \A x \in Range(list) : rest[x] = weight[x],
         SumsTo(list, weight, total)
  PROVE  SumsTo(list, rest, total)
<1>1. \A i \in 1..Len(list) : rest[list[i]] = weight[list[i]]
  BY LenProperties DEF Range
<1> QED BY <1>1 DEF SumsTo

\* A list without entries holds no bytes.
LEMMA EmptySum ==
  ASSUME NEW weight, NEW total \in Nat
  PROVE  SumsTo(<<>>, weight, total) <=> total = 0
<1>1. Len(<<>>) = 0
  OBVIOUS
<1>2. ASSUME total = 0 PROVE SumsTo(<<>>, weight, total)
  <2> DEFINE acc == [i \in 0..0 |-> 0]
  <2>1. acc \in [0..Len(<<>>) -> 0..total] /\ acc[0] = 0
    BY <1>1, <1>2
  <2>2. \A i \in 0..Len(<<>>) : acc[i] = 0
    BY <1>1
  <2> HIDE DEF acc
  <2> QED BY <1>1, <1>2, <2>1, <2>2 DEF SumsTo
<1>3. SumsTo(<<>>, weight, total) => total = 0
  BY <1>1 DEF SumsTo
<1> QED BY <1>2, <1>3

-------------------------------------------------------------------------------
(* Lists in the order of a rank, the highest first *)

Descending(list, rank) ==
  \A i, j \in 1..Len(list) : i <= j => rank[list[i]] >= rank[list[j]]

\* The order depends on the ranks of the linked keys alone.
LEMMA DescendingSame ==
  ASSUME NEW S, NEW list \in Seq(S), NEW rank, NEW new,
         \A x \in Range(list) : new[x] = rank[x],
         Descending(list, rank)
  PROVE  Descending(list, new)
<1>1. \A i \in 1..Len(list) : new[list[i]] = rank[list[i]]
  BY LenProperties DEF Range
<1> QED BY <1>1 DEF Descending

\* A key that ranks as high as any goes before all others.
LEMMA DescendingAttach ==
  ASSUME NEW S, NEW list \in Seq(S), NEW k \in S, NEW rank,
         \A x \in Range(list) \cup {k} : rank[x] \in Int /\ rank[x] <= rank[k],
         Descending(list, rank)
  PROVE  Descending(Attach(list, k), rank)
<1> DEFINE a == Attach(list, k)
           n == Len(list)
<1>1. /\ n \in Nat /\ DOMAIN list = 1..n
      /\ Len(a) = n + 1 /\ a[1] = k
      /\ \A i \in 1..n : a[i+1] = list[i]
  BY AttachElements, LenProperties
<1> HIDE DEF a, n
<1>2. \A i \in 2..n+1 : i - 1 \in 1..n /\ a[i] = list[i-1]
  BY <1>1
<1>3. \A i \in 1..n+1 : a[i] \in Range(list) \cup {k}
  <2>1. a \in Seq(S) /\ Range(a) = Range(list) \cup {k}
    BY AttachElements DEF a
  <2>2. DOMAIN a = 1..n+1
    BY <1>1, <2>1, LenProperties
  <2> QED BY <2>1, <2>2 DEF Range
<1>4. \A i \in 1..n+1 : rank[a[i]] \in Int /\ rank[a[i]] <= rank[k]
  BY <1>3
<1>5. \A i, j \in 1..n : i <= j => rank[list[i]] >= rank[list[j]]
  BY DEF Descending, n
<1>6. ASSUME NEW i \in 1..n+1, NEW j \in 1..n+1, i <= j
      PROVE  rank[a[i]] >= rank[a[j]]
  <2>1. CASE i = 1
    BY <2>1, <1>1, <1>4
  <2>2. CASE i # 1
    <3>1. i \in 2..n+1 /\ j \in 2..n+1 /\ i - 1 <= j - 1
      BY <2>2, <1>1, <1>6
    <3> QED BY <3>1, <1>2, <1>5
  <2> QED BY <2>1, <2>2
<1> QED BY <1>1, <1>6 DEF Descending, a

\* Taking an entry out leaves the others in their order.
LEMMA DescendingDetach ==
  ASSUME NEW S, NEW list \in Seq(S), NEW k \in Range(list), NEW rank,
         Descending(list, rank)
  PROVE  Descending(Detach(list, k), rank)
<1> DEFINE d == Detach(list, k)
           n == Len(list)
           p == PositionOf(list, k)
           Shift(i) == IF i < p THEN i ELSE i + 1
<1>1. n \in Nat /\ p \in 1..n
  BY PositionOfElement, LenProperties
<1>2. /\ Len(d) = n - 1
      /\ \A i \in 1..n-1 : d[i] = IF i < p THEN list[i] ELSE list[i+1]
  BY DetachElements
<1>3. \A i, j \in 1..n : i <= j => rank[list[i]] >= rank[list[j]]
  BY DEF Descending
<1> HIDE DEF d, n, p
<1>4. ASSUME NEW i \in 1..n-1, NEW j \in 1..n-1, i <= j
      PROVE  rank[d[i]] >= rank[d[j]]
  <2>1. Shift(i) \in 1..n /\ Shift(j) \in 1..n /\ Shift(i) <= Shift(j)
    BY <1>1, <1>4
  <2>2. d[i] = list[Shift(i)] /\ d[j] = list[Shift(j)]
    BY <1>2
  <2> HIDE DEF Shift
  <2> QED BY <2>1, <2>2, <1>3
<1> QED BY <1>2, <1>4 DEF Descending, d
==============================================================================
