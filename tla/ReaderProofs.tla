---------------------------- MODULE ReaderProofs ----------------------------
(***************************************************************************)
(* The reader finds in every file, of whatever characters and length, and  *)
(* with buffers of every size, the lines, cells and words it means.        *)
(***************************************************************************)
EXTENDS ReaderMeaning, NumberLemmas, FiniteSetTheorems, SequenceTheorems

-----------------------------------------------------------------------------
(* Places in a text.                                                       *)

(* A loop over characters stops at the first of those it looks for, or at  *)
(* the end, and passes over none of them.                                  *)
LEMMA FindStops ==
    ASSUME NEW s, Len(s) \in Nat, NEW i \in Nat, i <= Len(s) + 1, i > 0, NEW chars
    PROVE  /\ Find(s, i, chars) \in i..(Len(s) + 1)
           /\ Find(s, i, chars) <= Len(s) => s[Find(s, i, chars)] \in chars
           /\ \A j \in i..(Find(s, i, chars) - 1) : s[j] \notin chars
  <1> DEFINE found == {j \in i..Len(s) : s[j] \in chars}
  <1>1. CASE found = {}
    <2>1. Find(s, i, chars) = Len(s) + 1
      BY <1>1 DEF Find
    <2> QED BY <2>1, <1>1
  <1>2. CASE found # {}
    <2>1. found \in SUBSET Nat
      OBVIOUS
    <2>2. \E m \in found : \A n \in found : m <= n
      BY <2>1, <1>2, LeastNumber
    <2>3. Find(s, i, chars) = CHOOSE m \in found : \A n \in found : m <= n
      BY <1>2 DEF Find
    <2> DEFINE f == Find(s, i, chars)
    <2>4. f \in found /\ \A n \in found : f <= n
      <3> HIDE DEF found
      <3> QED BY <2>2, <2>3
    <2> QED BY <2>4
  <1> QED BY <1>1, <1>2

(* It stops nowhere else. *)
LEMMA FindIs ==
    ASSUME NEW s, Len(s) \in Nat, NEW i \in Nat, i > 0, NEW chars,
           NEW f \in i..(Len(s) + 1),
           f <= Len(s) => s[f] \in chars,
           \A j \in i..(f - 1) : s[j] \notin chars
    PROVE  Find(s, i, chars) = f
  <1>1. i <= Len(s) + 1
    OBVIOUS
  <1>2. /\ Find(s, i, chars) \in i..(Len(s) + 1)
        /\ Find(s, i, chars) <= Len(s) => s[Find(s, i, chars)] \in chars
        /\ \A j \in i..(Find(s, i, chars) - 1) : s[j] \notin chars
    BY <1>1, FindStops
  <1> QED BY <1>2

-----------------------------------------------------------------------------
(* The rank of a place in a set of places.                                 *)

Below(S, i) == Cardinality({j \in S : j < i})

(* Counting the places before i: a number, none more than there are.       *)
LEMMA BelowType ==
    ASSUME NEW S \in SUBSET Nat, IsFiniteSet(S), NEW i \in Nat
    PROVE  Below(S, i) \in Nat /\ Cardinality(S) \in Nat /\ Below(S, i) <= Cardinality(S)
  BY FS_Subset, FS_CardinalityType DEF Below

(* Where S has no place between, the count is the same. *)
LEMMA BelowSame ==
    ASSUME NEW S \in SUBSET Nat, NEW i \in Nat, NEW k \in Nat, i <= k,
           \A j \in i..(k - 1) : j \notin S
    PROVE  Below(S, i) = Below(S, k)
  <1>1. \A j \in S : j < i <=> j < k
    OBVIOUS
  <1>2. {j \in S : j < i} = {j \in S : j < k}
    BY <1>1, Zenon
  <1> QED BY <1>2 DEF Below

(* A place of S adds one. *)
LEMMA BelowNext ==
    ASSUME NEW S \in SUBSET Nat, IsFiniteSet(S), NEW i \in S
    PROVE  /\ Below(S, i + 1) = Below(S, i) + 1
           /\ Cardinality({j \in S : j <= i}) = Below(S, i) + 1
  <1> DEFINE before == {j \in S : j < i}
  <1>1. IsFiniteSet(before) /\ i \notin before
    BY FS_Subset
  <1>2. Cardinality(before \cup {i}) = Cardinality(before) + 1
    BY <1>1, FS_AddElement
  <1>3. \A j \in S : (j < i + 1 <=> j < i \/ j = i) /\ (j <= i <=> j < i \/ j = i)
    OBVIOUS
  <1>4. before \cup {i} = {j \in S : j < i + 1} /\ before \cup {i} = {j \in S : j <= i}
    BY <1>3, Zenon
  <1> QED BY <1>2, <1>4 DEF Below

(* None behind: they are all counted. *)
LEMMA BelowEnd ==
    ASSUME NEW S \in SUBSET Nat, NEW i \in Nat, \A j \in S : j < i
    PROVE  Below(S, i) = Cardinality(S)
  <1>1. {j \in S : j < i} = S
    OBVIOUS
  <1> QED BY <1>1 DEF Below

(* One behind: not all of them are. *)
LEMMA BelowMore ==
    ASSUME NEW S \in SUBSET Nat, IsFiniteSet(S), NEW i \in Nat, NEW k \in S, i <= k
    PROVE  Below(S, i) < Cardinality(S)
  <1> DEFINE before == {j \in S : j < i}
  <1>1. before \in SUBSET S /\ k \notin before
    OBVIOUS
  <1>2. IsFiniteSet(before) /\ Cardinality(before) <= Cardinality(S)
        /\ (Cardinality(before) = Cardinality(S) => before = S)
    BY <1>1, FS_Subset
  <1>3. Cardinality(before) \in Nat /\ Cardinality(S) \in Nat
    BY <1>2, FS_CardinalityType
  <1> QED BY <1>1, <1>2, <1>3 DEF Below

(* The place whose rank is k is the k-th. *)
LEMMA NthIs ==
    ASSUME NEW S \in SUBSET Nat, IsFiniteSet(S), NEW i \in S, NEW k,
           Below(S, i) + 1 = k
    PROVE  Nth(S, k) = i
  <1>1. Cardinality({j \in S : j <= i}) = k
    BY BelowNext
  <1>2. \A n \in S : Cardinality({j \in S : j <= n}) = k => n = i
    <2> SUFFICES ASSUME NEW n \in S, Cardinality({j \in S : j <= n}) = k, n # i
                 PROVE  FALSE
      OBVIOUS
    <2>1. Below(S, n) + 1 = k
      BY BelowNext
    <2>2. ASSUME NEW a \in S, NEW b \in S, a < b
          PROVE  Below(S, a) < Below(S, b)
      <3> DEFINE T == {j \in S : j < b}
      <3>1. T \in SUBSET Nat /\ IsFiniteSet(T) /\ a \in T
        BY <2>2, FS_Subset
      <3>2. Below(T, a) < Cardinality(T)
        <4> HIDE DEF T
        <4> QED BY <3>1, BelowMore
      <3>3. {j \in T : j < a} = {j \in S : j < a}
        <4>1. \A j \in S : j < a => j < b
          BY <2>2
        <4> QED BY <4>1, Zenon
      <3> QED BY <3>2, <3>3 DEF Below
    <2>3. Below(S, n) < Below(S, i) \/ Below(S, i) < Below(S, n)
      BY <2>2
    <2>4. Below(S, n) \in Nat /\ Below(S, i) \in Nat
      BY BelowType
    <2> QED BY <2>1, <2>3, <2>4
  <1> QED BY <1>1, <1>2 DEF Nth

-----------------------------------------------------------------------------
(* Parts of a text.                                                        *)

(* A part from a to b has the characters from a to b. *)
LEMMA PartOf ==
    ASSUME NEW A, NEW s \in Seq(A), NEW a \in Nat, a >= 1, NEW b \in Nat, b <= Len(s), b >= a - 1
    PROVE  /\ SubSeq(s, a, b) \in Seq(A)
           /\ Len(SubSeq(s, a, b)) = b - a + 1
           /\ \A i \in 1..(b - a + 1) : SubSeq(s, a, b)[i] = s[a + i - 1]
  <1>1. \A i \in a..b : s[i] \in A
    BY ElementOfSeq
  <1> QED BY <1>1, SubSeqProperties

(* A part of a part is a part. *)
LEMMA PartOfPart ==
    ASSUME NEW A, NEW s \in Seq(A), NEW a \in Nat, a >= 1, NEW b \in Nat, b <= Len(s), b >= a - 1,
           NEW c \in Nat, c >= 1, NEW d \in Nat, d <= b - a + 1, d >= c - 1
    PROVE  SubSeq(SubSeq(s, a, b), c, d) = SubSeq(s, a + c - 1, a + d - 1)
  <1> DEFINE t == SubSeq(s, a, b)
             u == SubSeq(t, c, d)
             v == SubSeq(s, a + c - 1, a + d - 1)
  <1>1. t \in Seq(A) /\ Len(t) = b - a + 1 /\ \A i \in 1..(b - a + 1) : t[i] = s[a + i - 1]
    BY PartOf
  <1>2. u \in Seq(A) /\ Len(u) = d - c + 1 /\ \A i \in 1..(d - c + 1) : u[i] = t[c + i - 1]
    <2> HIDE DEF t
    <2> QED BY <1>1, PartOf
  <1>3. Len(s) \in Nat
    BY LenProperties
  <1>4. v \in Seq(A) /\ Len(v) = (a + d - 1) - (a + c - 1) + 1
        /\ \A i \in 1..((a + d - 1) - (a + c - 1) + 1) : v[i] = s[(a + c - 1) + i - 1]
    <2>1. a + c - 1 \in Nat /\ a + c - 1 >= 1 /\ a + d - 1 \in Nat /\ a + d - 1 <= Len(s)
          /\ a + d - 1 >= (a + c - 1) - 1
      BY <1>3
    <2> QED BY <2>1, PartOf
  <1>5. Len(u) = Len(v)
    BY <1>2, <1>4
  <1>6. \A i \in 1..Len(u) : u[i] = v[i]
    <2> SUFFICES ASSUME NEW i \in 1..Len(u) PROVE u[i] = v[i]
      OBVIOUS
    <2>1. u[i] = t[c + i - 1] /\ c + i - 1 \in 1..(b - a + 1)
      <3> HIDE DEF u
      <3> QED BY <1>2
    <2>2. t[c + i - 1] = s[a + (c + i - 1) - 1]
      <3> HIDE DEF t
      <3> QED BY <2>1, <1>1
    <2>3. v[i] = s[(a + c - 1) + i - 1]
      <3> HIDE DEF u, v
      <3> QED BY <1>4, <1>2
    <2>4. a + (c + i - 1) - 1 = (a + c - 1) + i - 1
      <3> HIDE DEF u
      <3> QED BY <1>2
    <2> QED BY <2>1, <2>2, <2>3, <2>4
  <1> HIDE DEF u, v
  <1>7. u = v
    BY <1>2, <1>4, <1>5, <1>6, SeqEqual
  <1> QED BY <1>7 DEF u, v

(* Texts that agree from a to b have the same part there. *)
LEMMA SamePart ==
    ASSUME NEW A, NEW s \in Seq(A), NEW t \in Seq(A), NEW a \in Nat, a >= 1, NEW b \in Nat,
           b >= a - 1, b <= Len(s), b <= Len(t), \A i \in a..b : s[i] = t[i]
    PROVE  SubSeq(s, a, b) = SubSeq(t, a, b)
  <1> DEFINE u == SubSeq(s, a, b)
             v == SubSeq(t, a, b)
  <1>1. u \in Seq(A) /\ Len(u) = b - a + 1 /\ \A i \in 1..(b - a + 1) : u[i] = s[a + i - 1]
    BY PartOf
  <1>2. v \in Seq(A) /\ Len(v) = b - a + 1 /\ \A i \in 1..(b - a + 1) : v[i] = t[a + i - 1]
    BY PartOf
  <1>3. \A i \in 1..(b - a + 1) : a + i - 1 \in a..b
    OBVIOUS
  <1> HIDE DEF u, v
  <1>4. \A i \in 1..Len(u) : u[i] = v[i]
    BY <1>1, <1>2, <1>3
  <1>5. u = v
    BY <1>1, <1>2, <1>4, SeqEqual
  <1> QED BY <1>5 DEF u, v

(* What is kept of a text where n characters are the most there is room for. *)
LEMMA CutKeeps ==
    ASSUME NEW A, NEW s \in Seq(A), NEW n \in Nat
    PROVE  /\ Cut(s, n) \in Seq(A)
           /\ Len(Cut(s, n)) = IF Len(s) < n THEN Len(s) ELSE n
           /\ Len(s) <= n => Cut(s, n) = s
  <1>0. Len(s) \in Nat
    BY LenProperties
  <1> DEFINE m == IF Len(s) < n THEN Len(s) ELSE n
  <1>1. m \in Nat /\ m <= Len(s)
    BY <1>0
  <1>2. SubSeq(s, 1, m) \in Seq(A) /\ Len(SubSeq(s, 1, m)) = m - 1 + 1
    <2> HIDE DEF m
    <2>1. 1 \in Nat /\ 1 >= 1 /\ m >= 1 - 1
      BY <1>1
    <2> QED BY <1>1, <2>1, PartOf
  <1>3. Len(s) <= n => m = Len(s)
    BY <1>0
  <1>4. SubSeq(s, 1, Len(s)) = s
    BY SubSeqFull
  <1>5. Cut(s, n) = SubSeq(s, 1, m)
    BY DEF Cut
  <1>6. Len(Cut(s, n)) = m
    BY <1>1, <1>2, <1>5
  <1> QED BY <1>2, <1>3, <1>4, <1>5, <1>6

-----------------------------------------------------------------------------
(* Lines.                                                                  *)

(* The line that begins where the next fgetc reads. *)
LineHere == SubSeq(file, at, Find(file, at, {NL}) - 1)

(* A file is a text of its characters. *)
FileOK == file \in Seq(Char) /\ at \in 1..(Len(file) + 1) /\ line \in Nat

(* It goes up to the next newline, or to the end of the file. *)
LEMMA LineHereType ==
    ASSUME FileOK
    PROVE  LET end == Find(file, at, {NL}) IN
           /\ Len(file) \in Nat
           /\ end \in at..(Len(file) + 1)
           /\ end <= Len(file) => file[end] = NL
           /\ \A j \in at..(end - 1) : file[j] # NL
           /\ LineHere \in Seq(Char) /\ Len(LineHere) = end - at
           /\ \A i \in 1..(end - at) : LineHere[i] = file[at + i - 1] /\ LineHere[i] # NL
  <1> DEFINE end == Find(file, at, {NL})
  <1>1. Len(file) \in Nat /\ at \in Nat /\ at > 0 /\ at <= Len(file) + 1
    BY LenProperties DEF FileOK
  <1>2. /\ end \in at..(Len(file) + 1)
        /\ end <= Len(file) => file[end] \in {NL}
        /\ \A j \in at..(end - 1) : file[j] \notin {NL}
    BY <1>1, FindStops
  <1> HIDE DEF end
  <1>3. end - 1 \in Nat /\ end - 1 <= Len(file) /\ end - 1 >= at - 1 /\ at >= 1
    BY <1>1, <1>2
  <1>4. /\ SubSeq(file, at, end - 1) \in Seq(Char)
        /\ Len(SubSeq(file, at, end - 1)) = (end - 1) - at + 1
        /\ \A i \in 1..((end - 1) - at + 1) : SubSeq(file, at, end - 1)[i] = file[at + i - 1]
    BY <1>1, <1>3, PartOf DEF FileOK
  <1>5. LineHere = SubSeq(file, at, end - 1)
    BY DEF LineHere, end
  <1>6. (end - 1) - at + 1 = end - at
    BY <1>1, <1>2
  <1>7. \A i \in 1..(end - at) : at + i - 1 \in at..(end - 1)
    BY <1>1, <1>2
  <1>8. LineHere \in Seq(Char) /\ Len(LineHere) = end - at
        /\ \A i \in 1..(end - at) : LineHere[i] = file[at + i - 1] /\ LineHere[i] # NL
    BY <1>2, <1>4, <1>5, <1>6, <1>7
  <1> QED BY <1>1, <1>2, <1>8 DEF end

(* Where the line begins, its kind can be told from its first characters. *)
LEMMA FirstOfLine ==
    ASSUME FileOK
    PROVE  /\ CharAt(file, at, EOF) = EOF <=> at = Len(file) + 1
           /\ at <= Len(file) => CharAt(file, at, EOF) = file[at]
           /\ at <= Len(file) => (LineHere = << >> <=> file[at] = NL)
           /\ LineHere # << >> => LineHere[1] = file[at] /\ at <= Len(file)
           /\ at <= Len(file) /\ file[at] = "#" =>
                  (CharAt(LineHere, 2, EOF) = ":" <=> CharAt(file, at + 1, EOF) = ":")
  <1> DEFINE end == Find(file, at, {NL})
  <1>0. /\ Len(file) \in Nat
        /\ end \in at..(Len(file) + 1)
        /\ end <= Len(file) => file[end] = NL
        /\ \A j \in at..(end - 1) : file[j] # NL
        /\ LineHere \in Seq(Char) /\ Len(LineHere) = end - at
        /\ \A i \in 1..(end - at) : LineHere[i] = file[at + i - 1] /\ LineHere[i] # NL
    BY LineHereType
  <1> HIDE DEF end
  <1>1. at \in Nat /\ at > 0 /\ at <= Len(file) + 1
    BY <1>0 DEF FileOK
  <1>2. at <= Len(file) => file[at] \in Char
    BY <1>0, <1>1, ElementOfSeq DEF FileOK
  <1>3. /\ CharAt(file, at, EOF) = EOF <=> at = Len(file) + 1
        /\ at <= Len(file) => CharAt(file, at, EOF) = file[at]
    BY <1>0, <1>1, <1>2, CharAssumption DEF CharAt
  <1>4. LineHere = << >> <=> end = at
    BY <1>0, <1>1, EmptySeq
  <1>5. at <= Len(file) => (LineHere = << >> <=> file[at] = NL)
    BY <1>0, <1>1, <1>4
  <1>6. LineHere # << >> => LineHere[1] = file[at] /\ at <= Len(file)
    BY <1>0, <1>1, <1>4
  <1>7. ASSUME at <= Len(file), file[at] = "#"
        PROVE  CharAt(LineHere, 2, EOF) = ":" <=> CharAt(file, at + 1, EOF) = ":"
    <2>1. file[at] # NL /\ end > at
      BY <1>0, <1>1, <1>7 DEF NL
    <2>2. CASE end > at + 1
      <3>1. 2 <= Len(LineHere) /\ LineHere[2] = file[at + 1] /\ at + 1 <= Len(file)
        BY <1>0, <1>1, <2>2
      <3> QED BY <3>1 DEF CharAt
    <2>3. CASE end = at + 1
      <3>1. Len(LineHere) = 1 /\ (at + 1 <= Len(file) => file[at + 1] = NL)
        BY <1>0, <1>1, <2>3
      <3> QED BY <3>1 DEF CharAt, EOF, NL
    <2> QED BY <1>0, <1>1, <2>1, <2>2, <2>3
  <1> QED BY <1>3, <1>5, <1>6, <1>7

(* The kind of the line that begins here, as ReadLine tells it. *)
KindHere ==
    LET char == CharAt(file, at, EOF) IN
    CASE char = EOF -> "NULL"
      [] char = NL  -> "EMPTY"
      [] char = "#" -> IF CharAt(file, at + 1, EOF) = ":" THEN "COMMAND" ELSE "COMMENT"
      [] OTHER      -> "ROW"

(* It is the kind that is meant. *)
LEMMA KindIsMeant ==
    ASSUME FileOK
    PROVE  KindHere = IF at = Len(file) + 1 THEN "NULL" ELSE MeantType(LineHere)
  <1>0. at <= Len(file) + 1 /\ at \in Nat /\ Len(file) \in Nat
    BY LineHereType DEF FileOK
  <1>1. CASE at = Len(file) + 1
    BY <1>1, FirstOfLine DEF KindHere, EOF, NL
  <1>2. CASE at <= Len(file)
    <2> DEFINE char == CharAt(file, at, EOF)
    <2>1. char = file[at] /\ char # EOF /\ at # Len(file) + 1
      BY <1>0, <1>2, FirstOfLine
    <2>2. CASE char = NL
      <3>1. LineHere = << >>
        BY <1>2, <2>1, <2>2, FirstOfLine
      <3> QED BY <2>1, <2>2, <3>1 DEF KindHere, MeantType, NL
    <2>3. CASE char = "#"
      <3>1. char # NL
        BY <2>3 DEF NL
      <3>2. LineHere # << >> /\ LineHere[1] = "#"
        BY <1>2, <2>1, <2>3, <3>1, FirstOfLine
      <3>3. CharAt(LineHere, 2, EOF) = ":" <=> CharAt(file, at + 1, EOF) = ":"
        BY <1>2, <2>1, <2>3, FirstOfLine
      <3> QED BY <2>1, <2>3, <3>1, <3>2, <3>3 DEF KindHere, MeantType
    <2>4. CASE char # NL /\ char # "#"
      <3>1. LineHere # << >> /\ LineHere[1] # "#"
        BY <1>2, <2>1, <2>4, FirstOfLine
      <3> QED BY <2>1, <2>4, <3>1 DEF KindHere, MeantType
    <2> QED BY <2>2, <2>3, <2>4
  <1> QED BY <1>0, <1>1, <1>2

(* From the first character that may go to the buffer to the newline: the  *)
(* text that is meant.                                                     *)
LEMMA RestIsMeant ==
    ASSUME FileOK, at <= Len(file), NEW kind, kind = MeantType(LineHere)
    PROVE  LET rest == RestFrom(kind)
               end  == Find(file, at, {NL})
           IN  /\ kind \in {"ROW", "COMMAND"} \cup {"EMPTY", "COMMENT"}
               /\ kind = "EMPTY" => LineHere = << >> /\ end = at
               /\ kind # "EMPTY" => LineHere # << >>
               /\ rest \in Nat
               /\ Find(file, rest, {NL}) = end
               /\ SubSeq(file, rest, end - 1) = MeantText(LineHere)
               /\ MeantText(LineHere) \in Seq(Char)
               /\ Len(MeantText(LineHere)) <= Len(LineHere)
               /\ \A i \in 1..Len(MeantText(LineHere)) : MeantText(LineHere)[i] # NL
  <1> DEFINE end == Find(file, at, {NL})
             rest == RestFrom(kind)
             t == LineHere
  <1>0. /\ Len(file) \in Nat
        /\ end \in at..(Len(file) + 1)
        /\ end <= Len(file) => file[end] = NL
        /\ \A j \in at..(end - 1) : file[j] # NL
        /\ t \in Seq(Char) /\ Len(t) = end - at
        /\ \A i \in 1..(end - at) : t[i] = file[at + i - 1] /\ t[i] # NL
    BY LineHereType
  <1>1. at \in Nat /\ at > 0 /\ file \in Seq(Char)
    BY <1>0 DEF FileOK
  <1> HIDE DEF end
  <1>2. t = << >> <=> end = at
    BY <1>0, <1>1, EmptySeq
  <1>3. ASSUME NEW r \in at..end, NEW k \in Nat, r = at + k
        PROVE  /\ Find(file, r, {NL}) = end
               /\ SubSeq(file, r, end - 1) = SubSeq(t, k + 1, Len(t))
               /\ SubSeq(file, r, end - 1) \in Seq(Char)
               /\ Len(SubSeq(file, r, end - 1)) = Len(t) - k
               /\ \A i \in 1..(Len(t) - k) : SubSeq(file, r, end - 1)[i] # NL
    <2>1. r \in Nat /\ r > 0 /\ end \in r..(Len(file) + 1)
      BY <1>0, <1>1
    <2>2. \A j \in r..(end - 1) : file[j] \notin {NL}
      BY <1>0, <1>1
    <2>3. Find(file, r, {NL}) = end
      BY <1>0, <2>1, <2>2, FindIs
    <2>4. t = SubSeq(file, at, end - 1)
      BY DEF LineHere, end
    <2>5. SubSeq(t, k + 1, Len(t)) = SubSeq(file, at + (k + 1) - 1, at + Len(t) - 1)
      <3>1. /\ at >= 1 /\ end - 1 \in Nat /\ end - 1 <= Len(file) /\ end - 1 >= at - 1
            /\ k + 1 \in Nat /\ k + 1 >= 1 /\ Len(t) \in Nat
            /\ Len(t) <= (end - 1) - at + 1 /\ Len(t) >= (k + 1) - 1
        BY <1>0, <1>1, <1>3
      <3> QED BY <1>1, <2>4, <3>1, PartOfPart
    <2>6. at + (k + 1) - 1 = r /\ at + Len(t) - 1 = end - 1
      BY <1>0, <1>1, <1>3
    <2>7. /\ SubSeq(file, r, end - 1) \in Seq(Char)
          /\ Len(SubSeq(file, r, end - 1)) = (end - 1) - r + 1
          /\ \A i \in 1..((end - 1) - r + 1) : SubSeq(file, r, end - 1)[i] = file[r + i - 1]
      <3>1. r >= 1 /\ end - 1 \in Nat /\ end - 1 <= Len(file) /\ end - 1 >= r - 1
        BY <1>0, <1>1, <1>3
      <3> QED BY <1>1, <2>1, <3>1, PartOf
    <2>8. (end - 1) - r + 1 = Len(t) - k
      BY <1>0, <1>1, <1>3
    <2>9. \A i \in 1..(Len(t) - k) : r + i - 1 \in at..(end - 1)
      BY <1>0, <1>1, <1>3
    <2> QED BY <1>0, <2>3, <2>5, <2>6, <2>7, <2>8, <2>9
  <1>4. CASE t = << >>
    <2>1. kind = "EMPTY" /\ MeantText(t) = t /\ rest = at /\ end = at
      BY <1>1, <1>2, <1>4 DEF MeantType, MeantText, RestFrom
    <2>2. Find(file, at, {NL}) = end /\ SubSeq(file, at, end - 1) = << >>
      BY <1>0, <1>1, <2>1, SubSeqEmpty DEF end
    <2>3. Len(t) = 0 /\ kind # "ROW" /\ kind # "COMMAND"
      BY <1>4, <2>1
    <2>4. SubSeq(file, rest, end - 1) = MeantText(t) /\ Find(file, rest, {NL}) = end
      BY <1>4, <2>1, <2>2
    <2>5. MeantText(t) \in Seq(Char) /\ Len(MeantText(t)) <= Len(t)
          /\ \A i \in 1..Len(MeantText(t)) : MeantText(t)[i] # NL
      BY <1>0, <2>1, <2>3
    <2> QED BY <1>1, <1>4, <2>1, <2>4, <2>5 DEF end
  <1>5. CASE t # << >> /\ t[1] # "#"
    <2>1. kind = "ROW" /\ MeantText(t) = t /\ rest = at
      BY <1>5 DEF MeantType, MeantText, RestFrom
    <2>2. at \in at..end /\ 0 \in Nat /\ at = at + 0
      BY <1>0, <1>1
    <2>3. Find(file, at, {NL}) = end /\ SubSeq(file, at, end - 1) = SubSeq(t, 0 + 1, Len(t))
      BY <1>3, <2>2
    <2>4. SubSeq(t, 1, Len(t)) = t
      BY <1>0, SubSeqFull
    <2>5. SubSeq(file, rest, end - 1) = MeantText(t) /\ Find(file, rest, {NL}) = end
      <3>1. 0 + 1 = 1
        OBVIOUS
      <3>2. SubSeq(file, at, end - 1) = t
        BY <2>3, <2>4, <3>1
      <3> QED BY <2>1, <2>3, <3>2
    <2>6. MeantText(t) \in Seq(Char) /\ Len(MeantText(t)) <= Len(t)
          /\ \A i \in 1..Len(MeantText(t)) : MeantText(t)[i] # NL
      BY <1>0, <1>1, <2>1
    <2> QED BY <1>1, <1>5, <2>1, <2>5, <2>6 DEF end
  <1>6. CASE t # << >> /\ t[1] = "#" /\ CharAt(t, 2, EOF) = ":"
    <2>1. kind = "COMMAND" /\ MeantText(t) = SubSeq(t, 3, Len(t)) /\ rest = at + 2
      BY <1>6 DEF MeantType, MeantText, RestFrom
    <2>2. Len(t) >= 2
      BY <1>0, <1>1, <1>6 DEF CharAt, EOF
    <2>3. at + 2 \in at..end /\ 2 \in Nat
      BY <1>0, <1>1, <2>2
    <2>4. /\ Find(file, at + 2, {NL}) = end
          /\ SubSeq(file, at + 2, end - 1) = SubSeq(t, 2 + 1, Len(t))
          /\ SubSeq(file, at + 2, end - 1) \in Seq(Char)
          /\ Len(SubSeq(file, at + 2, end - 1)) = Len(t) - 2
          /\ \A i \in 1..(Len(t) - 2) : SubSeq(file, at + 2, end - 1)[i] # NL
      BY <1>3, <2>3
    <2>5. 2 + 1 = 3 /\ Len(t) - 2 <= Len(t) /\ at + 2 \in Nat
      BY <1>0, <1>1
    <2> QED BY <1>6, <2>1, <2>4, <2>5 DEF end
  <1>7. CASE t # << >> /\ t[1] = "#" /\ CharAt(t, 2, EOF) # ":"
    <2>1. kind = "COMMENT" /\ MeantText(t) = Tail(t) /\ rest = at + 1
      BY <1>7 DEF MeantType, MeantText, RestFrom
    <2>2. at + 1 \in at..end /\ 1 \in Nat
      BY <1>0, <1>1, <1>2, <1>7
    <2>3. /\ Find(file, at + 1, {NL}) = end
          /\ SubSeq(file, at + 1, end - 1) = SubSeq(t, 1 + 1, Len(t))
          /\ SubSeq(file, at + 1, end - 1) \in Seq(Char)
          /\ Len(SubSeq(file, at + 1, end - 1)) = Len(t) - 1
          /\ \A i \in 1..(Len(t) - 1) : SubSeq(file, at + 1, end - 1)[i] # NL
      BY <1>3, <2>2
    <2>4. Tail(t) = SubSeq(t, 2, Len(t))
      BY <1>0, <1>7, TailIsSubSeq
    <2>5. 1 + 1 = 2 /\ Len(t) - 1 <= Len(t) /\ at + 1 \in Nat
      BY <1>0, <1>1
    <2> QED BY <1>7, <2>1, <2>3, <2>4, <2>5 DEF end
  <1> QED BY <1>4, <1>5, <1>6, <1>7

(* ReadLine at the end of the file, at a line that leaves no room for its  *)
(* newline, and at any other line.                                         *)
LEMMA LineRead ==
    ASSUME FileOK, ReadLine
    PROVE  LET end == Find(file, at, {NL}) IN
           \/ /\ at = Len(file) + 1
              /\ type' = "NULL" /\ buf' = << >> /\ cur' = 1 /\ read' = << >> /\ pc' = "EOF"
              /\ UNCHANGED <<file, at, line>>
           \/ /\ at <= Len(file) /\ Len(MeantText(LineHere)) >= Sz - 2
              /\ pc' = "ABORTED" /\ UNCHANGED <<file, at, line, type, buf, cur, read>>
           \/ /\ at <= Len(file) /\ Len(MeantText(LineHere)) < Sz - 2
              /\ type' = MeantType(LineHere)
              /\ buf' = IF LineHere = << >> THEN << >> ELSE Append(MeantText(LineHere), NL)
              /\ at' = IF end > Len(file) THEN end ELSE end + 1
              /\ line' = line + 1 /\ cur' = 1 /\ read' = << >> /\ UNCHANGED file
              /\ pc' = IF type' \in {"ROW", "COMMAND"} THEN type' ELSE "LINE"
  <1> DEFINE kind == KindHere
             rest == RestFrom(kind)
             end  == Find(file, rest, {NL})
             text == CASE kind \in {"NULL", "EMPTY"} -> << >>
                       [] OTHER -> Ended(Cut(SubSeq(file, rest, end - 1), Sz - 2))
             t    == MeantText(LineHere)
  <1>0. Len(file) \in Nat /\ at \in Nat /\ at <= Len(file) + 1
    BY LineHereType DEF FileOK
  <1>1. IF Len(text) > Sz - 2
        THEN pc' = "ABORTED" /\ UNCHANGED <<file, at, line, type, buf, cur, read>>
        ELSE /\ type' = kind /\ buf' = text
             /\ at' = IF kind = "NULL" THEN at ELSE IF end > Len(file) THEN end ELSE end + 1
             /\ line' = IF kind = "NULL" THEN line ELSE line + 1
             /\ cur' = 1 /\ read' = << >>
             /\ pc' = CASE kind = "NULL"    -> "EOF"
                        [] kind = "ROW"     -> "ROW"
                        [] kind = "COMMAND" -> "COMMAND"
                        [] OTHER            -> "LINE"
             /\ UNCHANGED file
    BY DEF ReadLine, KindHere
  <1>2. Sz \in Nat /\ Sz > 2
    BY BufferAssumption
  <1>3. CASE at = Len(file) + 1
    <2>1. kind = "NULL"
      BY <1>3, KindIsMeant
    <2> HIDE DEF kind
    <2>2. text = << >> /\ Len(text) = 0
      BY <2>1
    <2> HIDE DEF text
    <2>3. ~(Len(text) > Sz - 2)
      BY <1>2, <2>2
    <2> QED BY <1>1, <1>3, <2>1, <2>2, <2>3
  <1>4. CASE at <= Len(file)
    <2>1. kind = MeantType(LineHere)
      BY <1>0, <1>4, KindIsMeant
    <2> HIDE DEF kind
    <2>2. /\ kind \in {"ROW", "COMMAND"} \cup {"EMPTY", "COMMENT"}
          /\ kind = "EMPTY" => LineHere = << >>
          /\ kind # "EMPTY" => LineHere # << >>
          /\ end = Find(file, at, {NL})
          /\ SubSeq(file, rest, end - 1) = t
          /\ t \in Seq(Char)
      BY <1>4, <2>1, RestIsMeant
    <2>3. Len(t) \in Nat
      BY <2>2, LenProperties
    <2>4. CASE kind = "EMPTY"
      <3>1. text = << >> /\ Len(text) = 0
        BY <2>4
      <3>2. t = << >>
        BY <2>1, <2>2, <2>4 DEF MeantText
      <3> HIDE DEF text, end, t
      <3>3. ~(Len(text) > Sz - 2) /\ Len(t) < Sz - 2
        BY <1>2, <3>1, <3>2
      <3> QED BY <1>1, <1>4, <2>1, <2>2, <2>4, <3>1, <3>3 DEF t
    <2>5. CASE kind # "EMPTY"
      <3>1. text = Append(Cut(t, Sz - 2), NL)
        BY <2>2, <2>5 DEF Ended
      <3>2. /\ Cut(t, Sz - 2) \in Seq(Char)
            /\ Len(Cut(t, Sz - 2)) = IF Len(t) < Sz - 2 THEN Len(t) ELSE Sz - 2
            /\ Len(t) <= Sz - 2 => Cut(t, Sz - 2) = t
        <4>1. Sz - 2 \in Nat
          BY <1>2
        <4> HIDE DEF t
        <4> QED BY <2>2, <4>1, CutKeeps
      <3> HIDE DEF text, end, t
      <3>3. Cut(t, Sz - 2) \in Seq(Char \cup {NL}) /\ NL \in Char \cup {NL}
        BY <3>2, SeqMonotonic
      <3>4. Len(text) = Len(Cut(t, Sz - 2)) + 1
        BY <3>1, <3>3, AppendProperties
      <3>5. Len(text) > Sz - 2 <=> Len(t) >= Sz - 2
        BY <1>2, <2>3, <3>2, <3>4
      <3>6. CASE Len(t) >= Sz - 2
        BY <1>1, <1>4, <3>5, <3>6 DEF t
      <3>7. CASE Len(t) < Sz - 2
        <4>1. text = Append(t, NL)
          BY <1>2, <2>3, <3>1, <3>2, <3>7
        <4>2. ~(Len(text) > Sz - 2)
          BY <1>2, <2>3, <3>5, <3>7
        <4> QED BY <1>1, <1>4, <2>1, <2>2, <2>5, <3>7, <4>1, <4>2 DEF t
      <3> QED BY <1>2, <2>3, <3>6, <3>7
    <2> QED BY <2>4, <2>5
  <1> QED BY <1>0, <1>3, <1>4

(* Newlines are finitely many places in the file. *)
LEMMA NewlinesType ==
    ASSUME FileOK
    PROVE  Newlines \in SUBSET Nat /\ IsFiniteSet(Newlines) /\ Newlines \in SUBSET (1..Len(file))
           /\ Cardinality(Newlines) \in Nat
  <1>1. Len(file) \in Nat
    BY LenProperties DEF FileOK
  <1>2. IsFiniteSet(1..Len(file))
    BY <1>1, FS_Interval
  <1>3. Newlines \in SUBSET (1..Len(file))
    BY DEF Newlines
  <1>4. IsFiniteSet(Newlines)
    BY <1>2, <1>3, FS_Subset
  <1>5. Newlines \in SUBSET Nat
    BY <1>3
  <1> QED BY <1>3, <1>4, <1>5, FS_CardinalityType

(* As many newlines before this line as lines were read, and one of them   *)
(* just before it.                                                         *)
AtLine == at <= Len(file) => line = Below(Newlines, at) /\ (at = 1 \/ at - 1 \in Newlines)

(* The line that begins here is the next one. *)
LEMMA LineHereIsNext ==
    ASSUME FileOK, AtLine, at <= Len(file)
    PROVE  LET end == Find(file, at, {NL}) IN
           /\ LineText(line + 1) = LineHere
           /\ end <= Len(file) => /\ end \in Newlines
                                  /\ Below(Newlines, end + 1) = line + 1
           /\ end >= Len(file) => line + 1 = LineCount
           /\ line + 1 <= LineCount
  <1> DEFINE end == Find(file, at, {NL})
  <1>0. /\ Len(file) \in Nat
        /\ end \in at..(Len(file) + 1)
        /\ end <= Len(file) => file[end] = NL
        /\ \A j \in at..(end - 1) : file[j] # NL
        /\ at \in Nat /\ at > 0 /\ line \in Nat
    <2>1. at \in 1..(Len(file) + 1) /\ line \in Nat
      BY DEF FileOK
    <2>2. /\ Len(file) \in Nat /\ end \in at..(Len(file) + 1)
          /\ end <= Len(file) => file[end] = NL
          /\ \A j \in at..(end - 1) : file[j] # NL
      BY LineHereType
    <2> HIDE DEF end
    <2> QED BY <2>1, <2>2
  <1>1. /\ Newlines \in SUBSET Nat /\ IsFiniteSet(Newlines) /\ Newlines \in SUBSET (1..Len(file))
        /\ Cardinality(Newlines) \in Nat
    BY NewlinesType
  <1>2. line = Below(Newlines, at) /\ (at = 1 \/ at - 1 \in Newlines)
    BY DEF AtLine
  <1> HIDE DEF end
  <1>3. \A j \in at..(end - 1) : j \notin Newlines
    BY <1>0 DEF Newlines
  <1>4. Below(Newlines, end) = line
    <2>1. end \in Nat /\ at <= end
      BY <1>0
    <2> QED BY <1>0, <1>1, <1>2, <1>3, <2>1, BelowSame
  <1>5. IF line + 1 = 1 THEN at = 1 ELSE Nth(Newlines, (line + 1) - 1) + 1 = at
    <2>1. CASE at = 1
      <3>1. {j \in Newlines : j < 1} = {}
        <4>1. \A j \in Newlines : ~(j < 1)
          BY <1>0, <1>1
        <4> QED BY <4>1, Zenon
      <3>2. Below(Newlines, at) = 0
        BY <2>1, <3>1, FS_EmptySet DEF Below
      <3> QED BY <1>2, <2>1, <3>2
    <2>2. CASE at - 1 \in Newlines
      <3>1. Below(Newlines, (at - 1) + 1) = Below(Newlines, at - 1) + 1
        BY <1>1, <2>2, BelowNext
      <3>2. (at - 1) + 1 = at /\ at - 1 \in Nat
        BY <1>0, <1>1, <2>2
      <3>3. Below(Newlines, at - 1) \in Nat /\ Below(Newlines, at - 1) + 1 = line
        BY <1>1, <1>2, <3>1, <3>2, BelowType
      <3>4. Nth(Newlines, line) = at - 1
        BY <1>1, <2>2, <3>3, NthIs
      <3>5. line + 1 # 1 /\ (line + 1) - 1 = line
        BY <1>0, <3>3
      <3> QED BY <3>2, <3>4, <3>5
    <2> QED BY <1>2, <2>1, <2>2
  <1>6. CASE end <= Len(file)
    <2>1. end \in Newlines
      BY <1>0, <1>6 DEF Newlines
    <2>2. Below(Newlines, end + 1) = line + 1
      BY <1>1, <1>4, <2>1, BelowNext
    <2>3. line < Cardinality(Newlines)
      <3>1. end <= end /\ end \in Nat
        BY <1>0
      <3> QED BY <1>1, <1>4, <2>1, <3>1, BelowMore
    <2>4. Nth(Newlines, line + 1) = end
      BY <1>1, <1>4, <2>1, NthIs
    <2>5. ~(line + 1 > Cardinality(Newlines))
      BY <1>0, <1>1, <2>3
    <2>6. LineText(line + 1) = SubSeq(file, at, end - 1)
      BY <1>5, <2>4, <2>5 DEF LineText
    <2>7. ASSUME end >= Len(file) PROVE line + 1 = LineCount
      <3>1. end = Len(file)
        BY <1>0, <1>6, <2>7
      <3>2. \A j \in Newlines : j < end + 1
        BY <1>0, <1>1, <3>1
      <3>3. Below(Newlines, end + 1) = Cardinality(Newlines)
        <4>1. end + 1 \in Nat
          BY <1>0
        <4> QED BY <1>1, <3>2, <4>1, BelowEnd
      <3> QED BY <1>0, <1>1, <2>1, <2>2, <3>1, <3>3 DEF LineCount
    <2>8. line + 1 <= LineCount
      BY <1>0, <1>1, <2>3 DEF LineCount
    <2> QED BY <2>1, <2>2, <2>6, <2>7, <2>8 DEF LineHere, end
  <1>7. CASE end = Len(file) + 1
    <2>1. \A j \in Newlines : j < end
      BY <1>0, <1>1, <1>7
    <2>2. line = Cardinality(Newlines)
      <3>1. end \in Nat
        BY <1>0
      <3> QED BY <1>1, <1>4, <2>1, <3>1, BelowEnd
    <2>3. Len(file) \notin Newlines /\ file # << >>
      <3>1. Len(file) \in at..(end - 1)
        BY <1>0, <1>7
      <3>2. Len(file) # 0
        BY <1>0
      <3> QED BY <1>3, <3>1, <3>2
    <2>4. line + 1 = LineCount
      BY <2>2, <2>3 DEF LineCount
    <2>5. line + 1 > Cardinality(Newlines) /\ end - 1 = Len(file)
      BY <1>0, <1>1, <1>7, <2>2
    <2>6. LineText(line + 1) = SubSeq(file, at, end - 1)
      BY <1>5, <2>5 DEF LineText
    <2>7. ~(end <= Len(file)) /\ line + 1 <= LineCount
      BY <1>0, <1>7, <2>4
    <2> QED BY <2>4, <2>6, <2>7 DEF LineHere, end
  <1> QED BY <1>0, <1>6, <1>7 DEF end

(* What the buffer has of a row or a command: the text that is meant, and  *)
(* a newline which is the only one.                                        *)
BufferIs(t) ==
    /\ line > 0 /\ pc # "EOF" /\ LineText(line) # << >>
    /\ t = MeantText(LineText(line)) /\ t \in Seq(Char)
    /\ \A i \in 1..Len(t) : t[i] # NL
    /\ buf = Append(t, NL)
BufferInv == type \in {"ROW", "COMMAND"} => BufferIs(MeantText(LineText(line)))

(* The invariant of ReadLine. *)
LinesInv ==
    /\ FileOK /\ AtLine
    /\ at = Len(file) + 1 => line = LineCount
    /\ LinesAsMeant /\ BufferInv

(* A step of NextCell or NextCmdWord reads nothing from the file. *)
InLine ==
    /\ UNCHANGED <<file, at, line, type, buf>>
    /\ pc \in {"ROW", "COMMAND"} /\ pc' \in {pc, "LINE"}

(* Before the first line none has been read. *)
LEMMA LinesStart == Init => LinesInv
  <1> SUFFICES ASSUME Init PROVE LinesInv
    OBVIOUS
  <1>1. PICK n \in 0..MaxLen : file \in [1..n -> Char]
    BY DEF Init
  <1>2. n \in Nat
    BY BufferAssumption
  <1>3. file \in Seq(Char) /\ Len(file) = n
    BY <1>1, <1>2
  <1>4. FileOK
    BY <1>2, <1>3 DEF Init, FileOK
  <1>5. at = 1 /\ line = 0 /\ type = "NULL" /\ pc = "LINE"
    BY DEF Init
  <1>6. /\ Newlines \in SUBSET Nat /\ IsFiniteSet(Newlines) /\ Newlines \in SUBSET (1..Len(file))
        /\ Cardinality(Newlines) \in Nat
    BY <1>4, NewlinesType
  <1>7. AtLine
    <2>1. \A j \in Newlines : ~(j < 1)
      BY <1>6
    <2>2. {j \in Newlines : j < 1} = {}
      BY <2>1, Zenon
    <2>3. Below(Newlines, at) = 0
      BY <1>5, <2>2, FS_EmptySet DEF Below
    <2> QED BY <1>5, <2>3 DEF AtLine
  <1>8. at = Len(file) + 1 => line = LineCount
    <2> SUFFICES ASSUME Len(file) = 0 PROVE LineCount = 0
      BY <1>2, <1>3, <1>5
    <2>1. file = << >> /\ Newlines = {}
      BY <1>3, <1>6, EmptySeq
    <2> QED BY <2>1, FS_EmptySet DEF LineCount
  <1>9. line <= LineCount
    BY <1>5, <1>6 DEF LineCount
  <1> QED BY <1>4, <1>5, <1>7, <1>8, <1>9 DEF LinesInv, LinesAsMeant, BufferInv

(* ReadLine keeps it: it reads the next line, or gives up at it. *)
LEMMA LinesRead ==
    ASSUME LinesInv, ReadLine
    PROVE  LinesInv'
  <1> DEFINE end == Find(file, at, {NL})
  <1>0. FileOK /\ AtLine /\ LinesAsMeant
    BY DEF LinesInv
  <1>1. /\ Len(file) \in Nat
        /\ end \in at..(Len(file) + 1)
        /\ end <= Len(file) => file[end] = NL
    BY <1>0, LineHereType
  <1>2. at \in 1..(Len(file) + 1) /\ line \in Nat /\ file \in Seq(Char) /\ pc = "LINE"
    BY <1>0 DEF FileOK, ReadLine
  <1>3. CASE /\ at = Len(file) + 1
             /\ type' = "NULL" /\ buf' = << >> /\ cur' = 1 /\ read' = << >> /\ pc' = "EOF"
             /\ UNCHANGED <<file, at, line>>
    <2>1. line = LineCount
      BY <1>3 DEF LinesInv
    <2>2. FileOK' /\ AtLine'
      BY <1>0, <1>3 DEF FileOK, AtLine, Newlines, Below
    <2>3. LineCount' = LineCount
      BY <1>3 DEF LineCount, Newlines
    <2>4. LinesAsMeant'
      BY <1>0, <1>3, <2>1, <2>3 DEF LinesAsMeant
    <2>5. BufferInv'
      BY <1>3 DEF BufferInv
    <2> QED BY <1>3, <2>1, <2>2, <2>3, <2>4, <2>5 DEF LinesInv
  <1>4. CASE at <= Len(file)
    <2>0. /\ LineText(line + 1) = LineHere
          /\ end <= Len(file) => /\ end \in Newlines
                                 /\ Below(Newlines, end + 1) = line + 1
          /\ end >= Len(file) => line + 1 = LineCount
          /\ line + 1 <= LineCount
      BY <1>0, <1>4, LineHereIsNext
    <2> HIDE DEF end
    <2>1. CASE /\ Len(MeantText(LineHere)) >= Sz - 2
               /\ pc' = "ABORTED" /\ UNCHANGED <<file, at, line, type, buf, cur, read>>
      <3>1. FileOK' /\ AtLine' /\ (at' = Len(file') + 1 => line' = LineCount')
        BY <1>0, <2>1 DEF LinesInv, FileOK, AtLine, Newlines, Below, LineCount
      <3>2. LineCount' = LineCount /\ LineText(line)' = LineText(line)
            /\ LineText(line + 1)' = LineText(line + 1)
        BY <2>1 DEF LineCount, LineText, Newlines
      <3>3. LinesAsMeant'
        BY <1>0, <1>2, <2>0, <2>1, <3>2 DEF LinesAsMeant
      <3>4. BufferInv'
        BY <1>2, <2>1, <3>2 DEF LinesInv, BufferInv, BufferIs
      <3> QED BY <3>1, <3>3, <3>4 DEF LinesInv
    <2>2. CASE /\ Len(MeantText(LineHere)) < Sz - 2
               /\ type' = MeantType(LineHere)
               /\ buf' = IF LineHere = << >> THEN << >> ELSE Append(MeantText(LineHere), NL)
               /\ at' = IF end > Len(file) THEN end ELSE end + 1
               /\ line' = line + 1 /\ cur' = 1 /\ read' = << >> /\ UNCHANGED file
               /\ pc' = IF type' \in {"ROW", "COMMAND"} THEN type' ELSE "LINE"
      <3>1. FileOK'
        BY <1>1, <1>2, <2>2 DEF FileOK
      <3>2. Newlines' = Newlines /\ LineCount' = LineCount /\ LineText(line)' = LineHere
        BY <2>0, <2>2 DEF LineCount, LineText, Newlines
      <3>3. AtLine'
        <4> SUFFICES ASSUME at' <= Len(file')
                     PROVE  line' = Below(Newlines', at') /\ (at' = 1 \/ at' - 1 \in Newlines')
          BY DEF AtLine, Below
        <4>1. end <= Len(file) /\ at' = end + 1
          BY <1>1, <2>2
        <4>2. at' - 1 = end
          BY <1>1, <1>2, <4>1
        <4> QED BY <2>0, <2>2, <3>2, <4>1, <4>2
      <3>4. at' = Len(file') + 1 => line' = LineCount'
        <4> SUFFICES ASSUME at' = Len(file) + 1 PROVE line + 1 = LineCount
          BY <2>2, <3>2
        <4>1. end >= Len(file)
          BY <1>1, <1>2, <2>2
        <4> QED BY <2>0, <4>1
      <3>5. pc' # "EOF" /\ pc' # "ABORTED"
        BY <2>2
      <3>6. LinesAsMeant'
        BY <2>0, <2>2, <3>2, <3>5 DEF LinesAsMeant
      <3>7. ASSUME type' \in {"ROW", "COMMAND"}
            PROVE  /\ LineHere # << >> /\ MeantText(LineHere) \in Seq(Char)
                   /\ \A i \in 1..Len(MeantText(LineHere)) : MeantText(LineHere)[i] # NL
        BY <1>0, <1>4, <2>2, <3>7, RestIsMeant
      <3>8. BufferInv'
        BY <1>2, <2>2, <3>2, <3>5, <3>7 DEF BufferInv, BufferIs
      <3> QED BY <3>1, <3>3, <3>4, <3>6, <3>8 DEF LinesInv
    <2> QED BY <1>0, <1>2, <1>4, <2>1, <2>2, LineRead DEF end
  <1> QED BY <1>0, <1>1, <1>2, <1>3, <1>4, LineRead

(* What goes on inside of a line does not disturb it. *)
LEMMA LinesStay ==
    ASSUME LinesInv, InLine \/ UNCHANGED vars
    PROVE  LinesInv'
  <1>1. UNCHANGED <<file, at, line, type, buf>>
        /\ (pc' = pc \/ (pc \in {"ROW", "COMMAND"} /\ pc' = "LINE"))
    BY DEF InLine, vars
  <1>2. FileOK' /\ AtLine' /\ (at' = Len(file') + 1 => line' = LineCount')
    BY <1>1 DEF LinesInv, FileOK, AtLine, Newlines, Below, LineCount
  <1>3. LineCount' = LineCount /\ LineText(line)' = LineText(line)
        /\ LineText(line + 1)' = LineText(line + 1)
    BY <1>1 DEF LineCount, LineText, Newlines
  <1>4. LinesAsMeant'
    BY <1>1, <1>3 DEF LinesInv, LinesAsMeant
  <1>5. BufferInv'
    BY <1>1, <1>3 DEF LinesInv, BufferInv, BufferIs
  <1> QED BY <1>2, <1>4, <1>5 DEF LinesInv

-----------------------------------------------------------------------------
(* What the characters of a row make of each other.                        *)

Places == {"START", "PLAIN", "QUOTED", "CLOSED", "DONE"}

(* Each character is in one of these places. *)
LEMMA AfterType == \A p \in Places : \A char : After(p, char) \in Places
  BY DEF After, Places

(* The recursion that says where each character is has a solution. *)
LEMMA WhereIs ==
    ASSUME NEW A, NEW t \in Seq(A)
    PROVE  /\ Where(t)[1] = "START"
           /\ \A i \in 1..Len(t) : Where(t)[i + 1] = After(Where(t)[i], t[i])
           /\ \A i \in 1..(Len(t) + 1) : Where(t)[i] \in Places
  <1> DEFINE Upto(k, w) == /\ w \in [1..k -> Places] /\ w[1] = "START"
                           /\ \A i \in 1..(k - 1) : w[i + 1] = After(w[i], t[i])
             open == {k \in Nat : k > 0 /\ ~\E w : Upto(k, w)}
  <1>0. Len(t) \in Nat
    BY LenProperties
  <1>1. open = {}
    <2> SUFFICES ASSUME open # {} PROVE FALSE
      OBVIOUS
    <2>1. PICK m \in open : \A n \in open : m <= n
      <3>1. open \in SUBSET Nat
        OBVIOUS
      <3> HIDE DEF open
      <3> QED BY <3>1, LeastNumber
    <2>2. m \in Nat /\ m > 0 /\ ~\E w : Upto(m, w)
      OBVIOUS
    <2>3. CASE m = 1
      <3>1. Upto(1, [i \in 1..1 |-> "START"])
        BY DEF Places
      <3> QED BY <2>2, <2>3, <3>1
    <2>4. CASE m > 1
      <3>1. m - 1 \in Nat /\ m - 1 > 0 /\ m - 1 \notin open
        <4>1. m - 1 \in Nat /\ m - 1 > 0 /\ ~(m <= m - 1)
          BY <2>2, <2>4
        <4> HIDE DEF open
        <4> QED BY <2>1, <4>1
      <3>2. PICK w : Upto(m - 1, w)
        BY <3>1
      <3> DEFINE v == [i \in 1..m |-> IF i = m THEN After(w[m - 1], t[m - 1]) ELSE w[i]]
      <3>3. w[m - 1] \in Places /\ w \in [1..(m - 1) -> Places]
        BY <3>1, <3>2
      <3>4. v \in [1..m -> Places]
        <4>1. After(w[m - 1], t[m - 1]) \in Places
          BY <3>3, AfterType
        <4>2. \A i \in 1..m : i # m => w[i] \in Places
          BY <2>2, <3>3
        <4> QED BY <4>1, <4>2
      <3>5. v[1] = "START"
        BY <2>2, <2>4, <3>2
      <3>6. ASSUME NEW i \in 1..(m - 1) PROVE v[i + 1] = After(v[i], t[i])
        <4>1. CASE i = m - 1
          BY <2>2, <4>1
        <4>2. CASE i # m - 1
          <5>1. i \in 1..((m - 1) - 1) /\ i + 1 # m /\ i # m /\ i + 1 \in 1..m /\ i \in 1..m
            BY <2>2, <4>2
          <5>2. v[i + 1] = w[i + 1] /\ v[i] = w[i]
            BY <5>1
          <5> QED BY <3>2, <5>1, <5>2
        <4> QED BY <4>1, <4>2
      <3>7. Upto(m, v)
        <4> HIDE DEF v
        <4> QED BY <3>4, <3>5, <3>6
      <3> QED BY <2>2, <3>7
    <2> QED BY <2>2, <2>3, <2>4
  <1>2. PICK w : Upto(Len(t) + 1, w)
    <2>1. Len(t) + 1 \in Nat /\ Len(t) + 1 > 0
      BY <1>0
    <2> QED BY <1>1, <2>1
  <1> DEFINE Solves(v) == v = [i \in 1..(Len(t) + 1) |->
                                  IF i = 1 THEN "START" ELSE After(v[i - 1], t[i - 1])]
  <1>3. Solves(w)
    <2>1. \A i \in 1..(Len(t) + 1) : w[i] = IF i = 1 THEN "START" ELSE After(w[i - 1], t[i - 1])
      <3> SUFFICES ASSUME NEW i \in 1..(Len(t) + 1), i # 1
                   PROVE  w[i] = After(w[i - 1], t[i - 1])
        BY <1>2
      <3>1. i - 1 \in 1..((Len(t) + 1) - 1) /\ (i - 1) + 1 = i
        BY <1>0
      <3> QED BY <1>2, <3>1
    <2>2. w \in [1..(Len(t) + 1) -> Places]
      BY <1>2
    <2> HIDE DEF Upto
    <2> QED BY <2>1, <2>2
  <1>4. Where(t) = CHOOSE v : Solves(v)
    BY DEF Where
  <1>5. Solves(Where(t))
    <2> HIDE DEF Solves
    <2> QED BY <1>3, <1>4
  <1> DEFINE u == Where(t)
  <1>6. u = [i \in 1..(Len(t) + 1) |-> IF i = 1 THEN "START" ELSE After(u[i - 1], t[i - 1])]
    BY <1>5
  <1> HIDE DEF u, Upto, open, Solves
  <1>7. u[1] = "START"
    <2>1. 1 \in 1..(Len(t) + 1)
      BY <1>0
    <2> QED BY <1>6, <2>1
  <1>8. ASSUME NEW i \in 1..Len(t) PROVE u[i + 1] = After(u[i], t[i])
    <2>1. i + 1 \in 1..(Len(t) + 1) /\ i + 1 # 1 /\ (i + 1) - 1 = i
      BY <1>0
    <2> QED BY <1>6, <2>1
  <1>9. \A i \in 1..(Len(t) + 1) : u[i] \in Places
    <2> DEFINE bad == {i \in 1..(Len(t) + 1) : u[i] \notin Places}
    <2> SUFFICES ASSUME bad # {} PROVE FALSE
      OBVIOUS
    <2>1. PICK m \in bad : \A n \in bad : m <= n
      <3>1. bad \in SUBSET Nat
        OBVIOUS
      <3> HIDE DEF bad
      <3> QED BY <3>1, LeastNumber
    <2>2. m # 1 /\ m \in 1..(Len(t) + 1)
      BY <1>7 DEF Places
    <2>3. m - 1 \in 1..Len(t) /\ m - 1 \notin bad /\ (m - 1) + 1 = m
      BY <1>0, <2>1, <2>2
    <2>4. u[m - 1] \in Places
      BY <1>0, <2>3
    <2>5. u[m] = After(u[m - 1], t[m - 1])
      BY <1>8, <2>3
    <2> QED BY <2>1, <2>4, <2>5, AfterType
  <1> QED BY <1>7, <1>8, <1>9 DEF u

(* A place that nothing between a and b ends lasts from a to b. *)
LEMMA Lasts ==
    ASSUME NEW w, NEW a \in Nat, NEW b \in Nat, NEW p, a <= b, w[a] = p,
           \A j \in a..(b - 1) : w[j] = p => w[j + 1] = p
    PROVE  \A j \in a..b : w[j] = p
  <1> DEFINE bad == {j \in a..b : w[j] # p}
  <1> SUFFICES ASSUME bad # {} PROVE FALSE
    OBVIOUS
  <1>1. PICK m \in bad : \A n \in bad : m <= n
    <2>1. bad \in SUBSET Nat
      OBVIOUS
    <2> HIDE DEF bad
    <2> QED BY <2>1, LeastNumber
  <1>2. m # a /\ m \in a..b
    OBVIOUS
  <1>3. m - 1 \in a..(b - 1) /\ m - 1 \notin bad /\ (m - 1) + 1 = m
    BY <1>1, <1>2
  <1>4. w[m - 1] = p
    BY <1>3
  <1> QED BY <1>1, <1>3, <1>4

(* Behind a NUL that ends the row nothing comes. *)
LEMMA DoneLasts ==
    ASSUME NEW A, NEW t \in Seq(A), NEW i \in 1..(Len(t) + 1), NEW j \in i..(Len(t) + 1),
           Where(t)[i] = "DONE"
    PROVE  Where(t)[j] = "DONE"
  <1>0. Len(t) \in Nat
    BY LenProperties
  <1> DEFINE w == Where(t)
  <1>1. \A k \in 1..Len(t) : w[k + 1] = After(w[k], t[k])
    BY WhereIs
  <1> HIDE DEF w
  <1>2. \A k \in i..(j - 1) : w[k] = "DONE" => w[k + 1] = "DONE"
    BY <1>0, <1>1 DEF After
  <1>3. w[i] = "DONE"
    BY DEF w
  <1>4. i \in Nat /\ j \in Nat /\ i <= j
    BY <1>0
  <1>5. \A k \in i..j : w[k] = "DONE"
    BY <1>2, <1>3, <1>4, Lasts
  <1> QED BY <1>4, <1>5 DEF w

(* The buffer of a text: its characters and a newline. *)
LEMMA BufferOf ==
    ASSUME NEW A, NEW t \in Seq(A), NEW b, b = Append(t, NL)
    PROVE  /\ Len(t) \in Nat /\ Len(b) = Len(t) + 1
           /\ b \in Seq(A \cup {NL})
           /\ \A j \in 1..Len(t) : b[j] = t[j]
           /\ b[Len(t) + 1] = NL
  <1>1. t \in Seq(A \cup {NL}) /\ NL \in A \cup {NL}
    BY SeqMonotonic
  <1> QED BY <1>1, AppendProperties, LenProperties

(* From the beginning of a plain cell on, its characters are plain, up to  *)
(* a tab, a NUL or the end of the row.                                     *)
LEMMA PlainRuns ==
    ASSUME NEW A, NEW t \in Seq(A), \A i \in 1..Len(t) : t[i] # NL,
           NEW b, Len(b) = Len(t) + 1, \A j \in 1..Len(t) : b[j] = t[j], b[Len(t) + 1] = NL,
           NEW c \in 1..(Len(t) + 1), Where(t)[c] = "START",
           c <= Len(t) => t[c] \notin {QUOTE, NUL},
           NEW e \in c..(Len(b) + 1), e <= Len(b) => b[e] \in {TAB, NL, NUL},
           \A j \in c..(e - 1) : b[j] \notin {TAB, NL, NUL}
    PROVE  /\ e \in c..(Len(t) + 1)
           /\ e <= Len(t) => t[e] \in {TAB, NUL}
           /\ \A j \in c..(e - 1) : t[j] \notin {TAB, NUL}
           /\ e > c => Where(t)[e] = "PLAIN"
  <1> DEFINE w == Where(t)
  <1>0. /\ Len(t) \in Nat /\ Len(b) = Len(t) + 1
        /\ \A j \in 1..Len(t) : b[j] = t[j]
        /\ b[Len(t) + 1] = NL
        /\ c \in Nat /\ 1 <= c /\ c <= Len(t) + 1
    <2>1. /\ Len(t) \in Nat /\ Len(b) = Len(t) + 1
          /\ \A j \in 1..Len(t) : b[j] = t[j]
          /\ b[Len(t) + 1] = NL
      BY LenProperties
    <2> QED BY <2>1
  <1>1. \A k \in 1..Len(t) : w[k + 1] = After(w[k], t[k])
    BY WhereIs
  <1>2. w[c] = "START"
    OBVIOUS
  <1> HIDE DEF w
  <1>3. /\ e \in c..(Len(b) + 1)
        /\ e <= Len(b) => b[e] \in {TAB, NL, NUL}
        /\ \A j \in c..(e - 1) : b[j] \notin {TAB, NL, NUL}
    OBVIOUS
  <1>4. e <= Len(t) + 1
    <2> SUFFICES ASSUME e > Len(t) + 1 PROVE FALSE
      BY <1>0, <1>3
    <2>1. Len(t) + 1 \in c..(e - 1)
      BY <1>0, <1>3
    <2> QED BY <1>0, <1>3, <2>1
  <1>5. e \in Nat /\ e \in c..(Len(t) + 1)
    BY <1>0, <1>3, <1>4
  <1>6. ASSUME NEW j \in c..(e - 1)
        PROVE  j \in 1..Len(t) /\ t[j] \notin {TAB, NUL} /\ t[j] # NL
    <2>1. j \in 1..Len(t)
      BY <1>0, <1>5
    <2>2. b[j] \notin {TAB, NL, NUL} /\ b[j] = t[j]
      BY <1>0, <1>3, <2>1
    <2> QED BY <2>1, <2>2
  <1>7. e <= Len(t) => t[e] \in {TAB, NUL}
    BY <1>0, <1>3, <1>5
  <1>8. ASSUME e > c PROVE w[e] = "PLAIN"
    <2>1. c \in c..(e - 1) /\ c <= Len(t)
      BY <1>0, <1>5, <1>8
    <2>2. w[c + 1] = "PLAIN"
      <3>1. w[c + 1] = After("START", t[c]) /\ t[c] \notin {TAB, NUL, QUOTE}
        BY <1>0, <1>1, <1>2, <1>6, <2>1
      <3> QED BY <3>1 DEF After
    <2>3. ASSUME NEW j \in (c + 1)..(e - 1), w[j] = "PLAIN" PROVE w[j + 1] = "PLAIN"
      <3>1. j \in c..(e - 1)
        BY <1>0, <1>5
      <3>2. w[j + 1] = After("PLAIN", t[j]) /\ t[j] \notin {TAB, NUL}
        BY <1>1, <1>6, <2>3, <3>1
      <3> QED BY <3>2 DEF After
    <2>4. c + 1 \in Nat /\ c + 1 <= e /\ e \in Nat
      BY <1>0, <1>5, <1>8
    <2>5. \A j \in (c + 1)..e : w[j] = "PLAIN"
      BY ONLY <2>2, <2>3, <2>4, Lasts
    <2> QED BY ONLY <2>4, <2>5
  <1> QED BY <1>0, <1>5, <1>6, <1>7, <1>8 DEF w

(* From the quote on, the characters are quoted, up to the next quote or a *)
(* NUL, and then passed over, up to a tab or the end of the row.           *)
LEMMA QuotedRuns ==
    ASSUME NEW A, NEW t \in Seq(A), \A i \in 1..Len(t) : t[i] # NL,
           NEW b, Len(b) = Len(t) + 1, \A j \in 1..Len(t) : b[j] = t[j], b[Len(t) + 1] = NL,
           NEW c \in 1..Len(t), Where(t)[c] = "START", t[c] = QUOTE,
           NEW close \in (c + 1)..(Len(b) + 1), close <= Len(b) => b[close] \in {QUOTE, NL, NUL},
           \A j \in (c + 1)..(close - 1) : b[j] \notin {QUOTE, NL, NUL},
           NEW from \in {close, close + 1}, from = close + 1 <=> CharAt(b, close, NUL) = QUOTE,
           NEW e \in from..(Len(b) + 1), e <= Len(b) => b[e] \in {TAB, NL},
           \A j \in from..(e - 1) : b[j] \notin {TAB, NL}
    PROVE  /\ close \in (c + 1)..(Len(t) + 1) /\ e \in close..(Len(t) + 1)
           /\ e <= Len(t) => t[e] = TAB /\ Where(t)[e] = "CLOSED"
           /\ e = Len(t) + 1 => Where(t)[e] \in {"QUOTED", "CLOSED"}
           /\ \A j \in c..(e - 1) : ~(t[j] = TAB /\ Where(t)[j] # "QUOTED")
           /\ \A i \in (c + 1)..(e - 1) : Where(t)[i + 1] = "QUOTED" <=> i < close
  <1> DEFINE w == Where(t)
  <1>0. /\ Len(t) \in Nat /\ Len(b) = Len(t) + 1
        /\ \A j \in 1..Len(t) : b[j] = t[j]
        /\ b[Len(t) + 1] = NL
        /\ c \in Nat /\ 1 <= c /\ c <= Len(t)
    <2>1. /\ Len(t) \in Nat /\ Len(b) = Len(t) + 1
          /\ \A j \in 1..Len(t) : b[j] = t[j]
          /\ b[Len(t) + 1] = NL
      BY LenProperties
    <2> QED BY <2>1
  <1>1. \A k \in 1..Len(t) : w[k + 1] = After(w[k], t[k])
    BY WhereIs
  <1>2. w[c] = "START"
    OBVIOUS
  <1> HIDE DEF w
  <1>3. /\ close \in (c + 1)..(Len(b) + 1)
        /\ close <= Len(b) => b[close] \in {QUOTE, NL, NUL}
        /\ \A j \in (c + 1)..(close - 1) : b[j] \notin {QUOTE, NL, NUL}
    OBVIOUS
  <1>4. close <= Len(t) + 1
    <2> SUFFICES ASSUME close > Len(t) + 1 PROVE FALSE
      BY <1>0, <1>3
    <2>1. Len(t) + 1 \in (c + 1)..(close - 1)
      BY <1>0, <1>3
    <2> QED BY <1>0, <1>3, <2>1
  <1>5. close \in Nat /\ close \in (c + 1)..(Len(t) + 1)
    BY <1>0, <1>3, <1>4
  <1>6. ASSUME NEW j \in (c + 1)..(close - 1)
        PROVE  j \in 1..Len(t) /\ t[j] \notin {QUOTE, NUL}
    <2>1. j \in 1..Len(t)
      BY <1>0, <1>5
    <2>2. b[j] \notin {QUOTE, NL, NUL} /\ b[j] = t[j]
      BY <1>0, <1>3, <2>1
    <2> QED BY <2>1, <2>2
  <1>7. \A j \in (c + 1)..close : w[j] = "QUOTED"
    <2>1. w[c + 1] = "QUOTED"
      <3>1. w[c + 1] = After("START", QUOTE)
        BY <1>0, <1>1, <1>2
      <3> QED BY <3>1 DEF After, QUOTE, NUL, TAB
    <2>2. ASSUME NEW j \in (c + 1)..(close - 1), w[j] = "QUOTED" PROVE w[j + 1] = "QUOTED"
      <3>1. w[j + 1] = After("QUOTED", t[j]) /\ t[j] \notin {QUOTE, NUL}
        BY <1>1, <1>6, <2>2
      <3> QED BY <3>1 DEF After
    <2>3. c + 1 \in Nat /\ c + 1 <= close /\ close \in Nat
      BY <1>0, <1>5
    <2> QED BY ONLY <2>1, <2>2, <2>3, Lasts
  <1>8. CASE close = Len(t) + 1
    <2>1. CharAt(b, close, NUL) = NL
      BY <1>0, <1>8 DEF CharAt
    <2>2. from = close
      BY <2>1 DEF NL, QUOTE
    <2>3. e = close
      <3>1. e \in close..(Len(b) + 1) /\ \A j \in close..(e - 1) : b[j] \notin {TAB, NL}
        BY <2>2
      <3>2. ASSUME e # close PROVE FALSE
        <4>1. close \in close..(e - 1) /\ b[close] = NL
          BY ONLY <1>0, <1>5, <1>8, <3>1, <3>2
        <4> QED BY <3>1, <4>1
      <3> QED BY <3>2
    <2>4. e \in close..(Len(t) + 1) /\ e = Len(t) + 1 /\ w[e] = "QUOTED"
      <3>1. close \in (c + 1)..close
        BY <1>0, <1>5
      <3> QED BY ONLY <1>0, <1>5, <1>7, <1>8, <2>3, <3>1
    <2>5. \A j \in c..(e - 1) : ~(t[j] = TAB /\ w[j] # "QUOTED")
      <3>1. t[c] # TAB
        BY DEF QUOTE, TAB
      <3>2. \A j \in c..(e - 1) : j = c \/ j \in (c + 1)..close
        BY <1>0, <1>5, <2>3
      <3> QED BY <1>0, <1>7, <3>1, <3>2
    <2>6. \A i \in (c + 1)..(e - 1) : w[i + 1] = "QUOTED" <=> i < close
      <3>1. \A i \in (c + 1)..(e - 1) : i + 1 \in (c + 1)..close /\ i < close
        BY <1>0, <1>5, <2>3
      <3> QED BY <1>0, <1>7, <3>1
    <2>7. ~(e <= Len(t))
      BY <1>0, <2>4
    <2> QED BY <1>0, <1>5, <2>4, <2>5, <2>6, <2>7 DEF w
  <1>9. CASE close <= Len(t)
    <2>1. t[close] \in {QUOTE, NUL} /\ CharAt(b, close, NUL) = t[close]
      <3>1. b[close] = t[close] /\ t[close] # NL /\ close <= Len(b)
        BY <1>0, <1>5, <1>9
      <3> QED BY <1>0, <1>3, <3>1 DEF CharAt
    <2>2. w[close + 1] = "CLOSED"
      <3>1. w[close] = "QUOTED" /\ close \in 1..Len(t)
        <4>1. close \in (c + 1)..close /\ close \in 1..Len(t)
          BY <1>0, <1>5, <1>9
        <4> QED BY <1>7, <4>1
      <3>2. w[close + 1] = After("QUOTED", t[close])
        BY <1>1, <3>1
      <3> QED BY <2>1, <3>2 DEF After
    <2>3. from \in {close, close + 1} /\ (from = close => t[close] = NUL)
      <3>1. CASE t[close] = QUOTE
        BY <1>5, <2>1, <3>1
      <3>2. CASE t[close] # QUOTE
        BY <2>1, <3>2
      <3> QED BY <3>1, <3>2
    <2>4. /\ e \in from..(Len(b) + 1)
          /\ e <= Len(b) => b[e] \in {TAB, NL}
          /\ \A j \in from..(e - 1) : b[j] \notin {TAB, NL}
      OBVIOUS
    <2>5. e <= Len(t) + 1
      <3> SUFFICES ASSUME e > Len(t) + 1 PROVE FALSE
        BY <1>0, <1>5, <2>3, <2>4
      <3>1. Len(t) + 1 \in from..(e - 1)
        BY <1>0, <1>5, <1>9, <2>3, <2>4
      <3> QED BY <1>0, <2>4, <3>1
    <2>6. e # close
      <3> SUFFICES ASSUME e = close PROVE FALSE
        OBVIOUS
      <3>1. from = close /\ t[close] = NUL
        BY <1>0, <1>5, <2>3, <2>4
      <3>2. b[close] = NUL
        BY <1>0, <1>5, <1>9, <3>1
      <3>3. e <= Len(b)
        BY <1>0, <1>5, <1>9
      <3>4. b[close] \in {TAB, NL}
        BY <2>4, <3>3
      <3> QED BY <3>2, <3>4 DEF NUL, TAB, NL
    <2>7. e \in Nat /\ e \in (close + 1)..(Len(t) + 1)
      BY <1>0, <1>5, <2>3, <2>4, <2>5, <2>6
    <2>8. ASSUME NEW j \in (close + 1)..(e - 1) PROVE j \in 1..Len(t) /\ t[j] # TAB
      <3>1. j \in 1..Len(t) /\ j \in from..(e - 1)
        BY <1>0, <1>5, <2>3, <2>7
      <3>2. b[j] \notin {TAB, NL} /\ b[j] = t[j]
        BY <1>0, <2>4, <3>1
      <3> QED BY <3>1, <3>2
    <2>9. \A j \in (close + 1)..e : w[j] = "CLOSED"
      <3>1. \A j \in (close + 1)..(e - 1) : w[j] = "CLOSED" => w[j + 1] = "CLOSED"
        <4> SUFFICES ASSUME NEW j \in (close + 1)..(e - 1), w[j] = "CLOSED"
                     PROVE  w[j + 1] = "CLOSED"
          OBVIOUS
        <4>1. w[j + 1] = After("CLOSED", t[j]) /\ t[j] # TAB
          BY <1>1, <2>8
        <4> QED BY <4>1 DEF After
      <3>2. close + 1 \in Nat /\ close + 1 <= e /\ e \in Nat
        BY <1>0, <1>5, <2>7
      <3> QED BY ONLY <2>2, <3>1, <3>2, Lasts
    <2>10. w[e] = "CLOSED" /\ (e <= Len(t) => t[e] = TAB)
      <3>1. e \in (close + 1)..e
        BY <1>0, <1>5, <2>7
      <3>2. e <= Len(t) => b[e] = t[e] /\ t[e] # NL /\ e <= Len(b)
        BY <1>0, <1>5, <2>7
      <3> QED BY <2>4, <2>9, <3>1, <3>2
    <2>11. \A j \in c..(e - 1) : ~(t[j] = TAB /\ w[j] # "QUOTED")
      <3>1. t[c] # TAB /\ t[close] # TAB
        BY <2>1 DEF QUOTE, TAB, NUL
      <3>2. \A j \in c..(e - 1) : j = c \/ j = close \/ j \in (c + 1)..close
                                 \/ j \in (close + 1)..(e - 1)
        BY <1>0, <1>5, <2>7
      <3> QED BY <1>0, <1>7, <2>8, <3>1, <3>2
    <2>12. \A i \in (c + 1)..(e - 1) : w[i + 1] = "QUOTED" <=> i < close
      <3> SUFFICES ASSUME NEW i \in (c + 1)..(e - 1) PROVE w[i + 1] = "QUOTED" <=> i < close
        OBVIOUS
      <3>1. CASE i < close
        <4>1. i + 1 \in (c + 1)..close
          BY <1>0, <1>5, <3>1
        <4> QED BY <1>0, <1>7, <3>1, <4>1
      <3>2. CASE ~(i < close)
        <4>1. i + 1 \in (close + 1)..e
          BY <1>0, <1>5, <2>7, <3>2
        <4> QED BY <2>9, <3>2, <4>1
      <3> QED BY <3>1, <3>2
    <2>13. e \in close..(Len(t) + 1)
      BY <1>0, <1>5, <2>7
    <2>14. e = Len(t) + 1 => w[e] \in {"QUOTED", "CLOSED"}
      BY <2>10
    <2> QED BY <1>5, <2>10, <2>11, <2>12, <2>13, <2>14 DEF w
  <1>10. close = Len(t) + 1 \/ close <= Len(t)
    BY ONLY <1>0, <1>5
  <1> QED BY <1>8, <1>9, <1>10
-----------------------------------------------------------------------------
(* The cells a row means, piece by piece.                                  *)

RowDone(t) == {i \in 1..Len(t) : Where(t)[i + 1] = "DONE"}
RowEnd(t)  == IF RowDone(t) = {} THEN Len(t) + 1 ELSE Least(RowDone(t))
RowTabs(t) == {i \in 1..(RowEnd(t) - 1) : t[i] = TAB /\ Where(t)[i] # "QUOTED"}
RowFirst(t, k) == IF k = 1 THEN 1 ELSE Nth(RowTabs(t), k - 1) + 1
RowLast(t, k) ==
    IF k > Cardinality(RowTabs(t)) THEN RowEnd(t) - 1 ELSE Nth(RowTabs(t), k) - 1
RowCount(t) ==
    Cardinality(RowTabs(t))
    + IF RowDone(t) # {} /\ Where(t)[RowEnd(t)] = "START" THEN 0 ELSE 1

(* The cell from a to b. *)
CellOf(t, a, b) ==
    LET quoted == {i \in (a + 1)..b : Where(t)[i + 1] = "QUOTED"}
        mark   == IF a > b THEN "" ELSE t[a]
    IN  CASE mark = QUOTE -> [type |-> "STRING",
                text |-> Cut(SubSeq(t, a + 1, a + Cardinality(quoted)), CellSz - 1)]
          [] mark = "=" -> [type |-> "EXPR", text |-> Cut(SubSeq(t, a + 1, b), CellSz - 1)]
          [] OTHER -> [type |-> "PRETYPED", text |-> Cut(SubSeq(t, a, b), CellSz - 1)]

(* These are the pieces. *)
LEMMA RowCells ==
    ASSUME NEW t
    PROVE  MeantCells(t) = [k \in 1..RowCount(t) |-> CellOf(t, RowFirst(t, k), RowLast(t, k))]
  BY DEF MeantCells, RowDone, RowEnd, RowTabs, RowFirst, RowLast, RowCount, CellOf

(* The row ends behind every character that is read as part of it. *)
LEMMA RowEndAfter ==
    ASSUME NEW A, NEW t \in Seq(A), NEW c \in 1..(Len(t) + 1), Where(t)[c] # "DONE"
    PROVE  /\ RowEnd(t) \in c..(Len(t) + 1)
           /\ RowDone(t) # {} => RowEnd(t) \in RowDone(t)
           /\ RowDone(t) = {} => RowEnd(t) = Len(t) + 1
  <1>0. Len(t) \in Nat
    BY LenProperties
  <1>1. \A i \in RowDone(t) : i >= c /\ i <= Len(t) /\ i \in Nat
    <2> SUFFICES ASSUME NEW i \in RowDone(t), i < c PROVE FALSE
      BY <1>0 DEF RowDone
    <2>1. i + 1 \in 1..(Len(t) + 1) /\ c \in (i + 1)..(Len(t) + 1) /\ Where(t)[i + 1] = "DONE"
      BY <1>0 DEF RowDone
    <2> QED BY <2>1, DoneLasts
  <1>2. CASE RowDone(t) = {}
    BY <1>0, <1>2 DEF RowEnd
  <1>3. CASE RowDone(t) # {}
    <2>1. RowDone(t) \in SUBSET Nat
      BY <1>1
    <2>2. \E m \in RowDone(t) : \A n \in RowDone(t) : m <= n
      BY <1>3, <2>1, LeastNumber
    <2>3. Least(RowDone(t)) \in RowDone(t)
      BY <2>2 DEF Least
    <2> QED BY <1>0, <1>1, <1>3, <2>3 DEF RowEnd
  <1> QED BY <1>2, <1>3

(* It ends where a NUL in a plain text, or in place of a cell, is. *)
LEMMA RowEndIs ==
    ASSUME NEW A, NEW t \in Seq(A), NEW e \in 1..Len(t), t[e] = NUL,
           Where(t)[e] \in {"START", "PLAIN"}
    PROVE  RowEnd(t) = e /\ RowDone(t) # {}
  <1>0. Len(t) \in Nat /\ e \in 1..(Len(t) + 1)
    BY LenProperties
  <1>1. Where(t)[e + 1] = "DONE"
    <2>1. Where(t)[e + 1] = After(Where(t)[e], t[e])
      BY WhereIs
    <2> QED BY <2>1 DEF After
  <1>2. e \in RowDone(t)
    BY <1>1 DEF RowDone
  <1>3. RowEnd(t) \in e..(Len(t) + 1) /\ RowEnd(t) \in RowDone(t)
    BY <1>0, <1>2, RowEndAfter
  <1>4. ASSUME RowEnd(t) > e PROVE FALSE
    <2>1. \A n \in RowDone(t) : RowEnd(t) <= n
      <3>1. RowDone(t) \in SUBSET Nat
        BY DEF RowDone
      <3>2. \E m \in RowDone(t) : \A n \in RowDone(t) : m <= n
        BY <1>2, <3>1, LeastNumber
      <3>3. \A n \in RowDone(t) : Least(RowDone(t)) <= n
        BY <3>2 DEF Least
      <3> QED BY <1>2, <3>3 DEF RowEnd
    <2> QED BY <1>0, <1>2, <1>3, <1>4, <2>1
  <1> QED BY <1>0, <1>2, <1>3, <1>4

(* With no such NUL it ends where the text does. *)
LEMMA RowEndLast ==
    ASSUME NEW A, NEW t \in Seq(A), Where(t)[Len(t) + 1] # "DONE"
    PROVE  RowEnd(t) = Len(t) + 1 /\ RowDone(t) = {}
  <1>0. Len(t) \in Nat /\ Len(t) + 1 \in 1..(Len(t) + 1)
    BY LenProperties
  <1>1. RowDone(t) = {}
    <2> SUFFICES ASSUME NEW i \in RowDone(t) PROVE FALSE
      OBVIOUS
    <2>1. i + 1 \in 1..(Len(t) + 1) /\ Len(t) + 1 \in (i + 1)..(Len(t) + 1)
          /\ Where(t)[i + 1] = "DONE"
      BY <1>0 DEF RowDone
    <2> QED BY <2>1, DoneLasts
  <1> QED BY <1>1 DEF RowEnd

(* The tabs that part the cells are finitely many places before the end. *)
LEMMA RowTabsType ==
    ASSUME NEW A, NEW t \in Seq(A), RowEnd(t) \in Nat
    PROVE  /\ RowTabs(t) \in SUBSET Nat /\ IsFiniteSet(RowTabs(t))
           /\ Cardinality(RowTabs(t)) \in Nat
           /\ \A j \in RowTabs(t) : j > 0 /\ j < RowEnd(t)
  <1>1. RowTabs(t) \in SUBSET (1..(RowEnd(t) - 1))
    BY Zenon DEF RowTabs
  <1>0. IsFiniteSet(1..(RowEnd(t) - 1))
    <2>1. 1 \in Int /\ RowEnd(t) - 1 \in Int
      OBVIOUS
    <2> QED BY ONLY <2>1, FS_Interval
  <1>2. IsFiniteSet(RowTabs(t))
    BY <1>0, <1>1, FS_Subset
  <1> QED BY <1>1, <1>2, FS_CardinalityType

(* The place n cells of the row t have been read up to: the beginning of a *)
(* cell, or a NUL in its place that ends the row.                          *)
AtCell(t, c, n) ==
    /\ c \in 1..(Len(t) + 1) /\ Where(t)[c] = "START" /\ n \in Nat
    /\ n = Below(RowTabs(t), c)
    /\ c = 1 \/ c - 1 \in RowTabs(t)

(* A row begins with a cell, and none before it. *)
LEMMA AtCellStart ==
    ASSUME NEW A, NEW t \in Seq(A)
    PROVE  AtCell(t, 1, 0)
  <1>0. Len(t) \in Nat /\ 1 \in 1..(Len(t) + 1) /\ Where(t)[1] = "START"
    BY LenProperties, WhereIs
  <1>1. RowEnd(t) \in Nat
    BY <1>0, RowEndAfter
  <1>2. \A j \in RowTabs(t) : ~(j < 1)
    BY <1>1, RowTabsType
  <1>3. {j \in RowTabs(t) : j < 1} = {}
    BY <1>2
  <1>4. Below(RowTabs(t), 1) = 0
    BY <1>3, FS_EmptySet DEF Below
  <1> QED BY <1>0, <1>4 DEF AtCell

(* The cell that begins there is the next one. *)
LEMMA FirstIs ==
    ASSUME NEW A, NEW t \in Seq(A), NEW c, NEW n, AtCell(t, c, n)
    PROVE  /\ RowFirst(t, n + 1) = c
           /\ RowEnd(t) \in c..(Len(t) + 1)
           /\ n <= Cardinality(RowTabs(t))
  <1>0. Len(t) \in Nat /\ c \in Nat /\ c >= 1 /\ c \in 1..(Len(t) + 1) /\ n \in Nat
        /\ Where(t)[c] # "DONE"
    BY LenProperties DEF AtCell
  <1>1. RowEnd(t) \in c..(Len(t) + 1) /\ RowEnd(t) \in Nat
    BY <1>0, RowEndAfter
  <1> DEFINE tabs == RowTabs(t)
  <1>2. tabs \in SUBSET Nat /\ IsFiniteSet(tabs) /\ Cardinality(tabs) \in Nat
        /\ \A j \in tabs : j > 0
    BY <1>1, RowTabsType
  <1>3. n = Below(tabs, c) /\ (c = 1 \/ c - 1 \in tabs)
    BY DEF AtCell
  <1> HIDE DEF tabs
  <1>4. n <= Cardinality(tabs)
    BY <1>0, <1>2, <1>3, BelowType
  <1>5. CASE c = 1
    <2>1. \A j \in tabs : ~(j < 1)
      BY <1>2
    <2>2. {j \in tabs : j < 1} = {}
      BY <2>1
    <2>3. n = 0
      BY <1>3, <1>5, <2>2, FS_EmptySet DEF Below
    <2> QED BY <1>1, <1>4, <1>5, <2>3 DEF RowFirst, tabs
  <1>6. CASE c # 1
    <2>1. c - 1 \in tabs /\ c - 1 \in Nat /\ (c - 1) + 1 = c
      BY <1>0, <1>3, <1>6
    <2>2. Below(tabs, c) = Below(tabs, c - 1) + 1
      BY <1>2, <2>1, BelowNext
    <2>3. n = Below(tabs, c - 1) + 1 /\ n + 1 # 1 /\ (n + 1) - 1 = n
      <3>1. Below(tabs, c - 1) \in Nat
        BY <1>2, <2>1, BelowType
      <3> QED BY <1>3, <2>2, <3>1
    <2>4. Nth(tabs, n) = c - 1
      BY <1>2, <2>1, <2>3, NthIs
    <2> QED BY <1>1, <1>4, <2>1, <2>3, <2>4 DEF RowFirst, tabs
  <1> QED BY <1>5, <1>6

(* Up to the next tab outside quotes it goes; another cell begins there. *)
LEMMA CellToTab ==
    ASSUME NEW A, NEW t \in Seq(A), NEW c, NEW n, AtCell(t, c, n),
           NEW e \in c..Len(t), t[e] = TAB, Where(t)[e] \notin {"QUOTED", "DONE"},
           \A j \in c..(e - 1) : ~(t[j] = TAB /\ Where(t)[j] # "QUOTED")
    PROVE  /\ AtCell(t, e + 1, n + 1)
           /\ n + 1 <= RowCount(t)
           /\ RowFirst(t, n + 1) = c /\ RowLast(t, n + 1) = e - 1
  <1>0. Len(t) \in Nat /\ c \in Nat /\ c >= 1 /\ e \in Nat /\ e >= c /\ e <= Len(t) /\ n \in Nat
        /\ c <= Len(t) + 1
    <2>1. Len(t) \in Nat /\ c \in 1..(Len(t) + 1) /\ n \in Nat
      BY LenProperties DEF AtCell
    <2> QED BY <2>1
  <1>1. Where(t)[e + 1] = "START"
    <2>1. e \in 1..Len(t) /\ e \in 1..(Len(t) + 1)
      BY <1>0
    <2>2. Where(t)[e + 1] = After(Where(t)[e], TAB) /\ Where(t)[e] \in Places
      BY <2>1, WhereIs
    <2>3. TAB # NUL
      BY DEF TAB, NUL
    <2> QED BY <2>2, <2>3 DEF After, Places
  <1>2. RowEnd(t) \in (e + 1)..(Len(t) + 1) /\ RowEnd(t) \in Nat
    <2>1. e + 1 \in 1..(Len(t) + 1)
      BY <1>0
    <2>2. RowEnd(t) \in (e + 1)..(Len(t) + 1)
      BY <1>1, <2>1, RowEndAfter
    <2> QED BY <1>0, <2>2
  <1> DEFINE tabs == RowTabs(t)
  <1>3. tabs \in SUBSET Nat /\ IsFiniteSet(tabs) /\ Cardinality(tabs) \in Nat
    BY <1>2, RowTabsType
  <1>4. e \in tabs
    <2>1. e \in 1..(RowEnd(t) - 1)
      BY <1>0, <1>2
    <2> QED BY <2>1 DEF RowTabs
  <1>5. \A j \in c..(e - 1) : j \notin tabs
    BY DEF RowTabs
  <1>6. n = Below(tabs, c)
    BY DEF AtCell
  <1>7. RowFirst(t, n + 1) = c
    BY FirstIs
  <1> HIDE DEF tabs
  <1>8. Below(tabs, e) = n
    BY <1>0, <1>3, <1>5, <1>6, BelowSame
  <1>9. Below(tabs, e + 1) = n + 1
    BY <1>3, <1>4, <1>8, BelowNext
  <1>10. n + 1 <= Cardinality(tabs)
    <2>1. e + 1 \in Nat
      BY <1>0
    <2> QED BY <1>3, <1>9, <2>1, BelowType
  <1>11. Nth(tabs, n + 1) = e
    BY <1>3, <1>4, <1>8, NthIs
  <1>12. RowLast(t, n + 1) = e - 1
    BY <1>0, <1>3, <1>10, <1>11 DEF RowLast, tabs
  <1>13. n + 1 <= RowCount(t)
    BY <1>0, <1>3, <1>10 DEF RowCount, tabs
  <1>14. AtCell(t, e + 1, n + 1)
    <2>1. e + 1 \in 1..(Len(t) + 1) /\ n + 1 \in Nat /\ (e + 1) - 1 = e
      BY <1>0
    <2> QED BY <1>1, <1>4, <1>9, <2>1 DEF AtCell, tabs
  <1> QED BY <1>7, <1>12, <1>13, <1>14

(* With no such tab it is the last one, and goes up to the end of the row. *)
LEMMA CellToEnd ==
    ASSUME NEW A, NEW t \in Seq(A), NEW c, NEW n, AtCell(t, c, n),
           NEW e, e = RowEnd(t), RowDone(t) = {} \/ Where(t)[e] # "START",
           \A j \in c..(e - 1) : ~(t[j] = TAB /\ Where(t)[j] # "QUOTED")
    PROVE  /\ n + 1 = RowCount(t)
           /\ RowFirst(t, n + 1) = c /\ RowLast(t, n + 1) = e - 1
  <1>1. RowFirst(t, n + 1) = c /\ e \in c..(Len(t) + 1)
    BY FirstIs
  <1>2. Len(t) \in Nat /\ c \in Nat /\ c >= 1 /\ n \in Nat /\ e \in Nat /\ e >= c
    <2>1. Len(t) \in Nat /\ c \in 1..(Len(t) + 1) /\ n \in Nat
      BY LenProperties DEF AtCell
    <2> QED BY <1>1, <2>1
  <1> DEFINE tabs == RowTabs(t)
  <1>3. tabs \in SUBSET Nat /\ IsFiniteSet(tabs) /\ Cardinality(tabs) \in Nat
        /\ \A j \in tabs : j < e
    BY <1>2, RowTabsType
  <1>4. \A j \in c..(e - 1) : j \notin tabs
    BY DEF RowTabs
  <1>5. n = Below(tabs, c)
    BY DEF AtCell
  <1> HIDE DEF tabs
  <1>6. \A j \in tabs : j < c
    <2> SUFFICES ASSUME NEW j \in tabs, ~(j < c) PROVE FALSE
      OBVIOUS
    <2>1. j \in c..(e - 1)
      BY <1>2, <1>3
    <2> QED BY <1>4, <2>1
  <1>7. Cardinality(tabs) = n
    BY <1>2, <1>3, <1>5, <1>6, BelowEnd
  <1>8. RowLast(t, n + 1) = e - 1
    BY <1>2, <1>7 DEF RowLast, tabs
  <1>9. RowCount(t) = n + 1
    BY <1>2, <1>7 DEF RowCount, tabs
  <1> QED BY <1>1, <1>8, <1>9

(* Where a NUL is in place of a cell all of them have been read. *)
LEMMA RowIsRead ==
    ASSUME NEW A, NEW t \in Seq(A), NEW c, NEW n, AtCell(t, c, n), c <= Len(t), t[c] = NUL
    PROVE  n = RowCount(t)
  <1>0. Len(t) \in Nat /\ c \in 1..Len(t) /\ c \in Nat /\ n \in Nat /\ Where(t)[c] = "START"
    <2>1. Len(t) \in Nat /\ c \in 1..(Len(t) + 1) /\ n \in Nat /\ Where(t)[c] = "START"
      BY LenProperties DEF AtCell
    <2> QED BY <2>1
  <1>1. RowEnd(t) = c /\ RowDone(t) # {}
    BY <1>0, RowEndIs
  <1> DEFINE tabs == RowTabs(t)
  <1>2. tabs \in SUBSET Nat /\ IsFiniteSet(tabs) /\ Cardinality(tabs) \in Nat
        /\ \A j \in tabs : j < c
    BY <1>0, <1>1, RowTabsType
  <1>3. n = Below(tabs, c)
    BY DEF AtCell
  <1> HIDE DEF tabs
  <1>4. Cardinality(tabs) = n
    BY <1>0, <1>2, <1>3, BelowEnd
  <1> QED BY <1>0, <1>1, <1>4 DEF RowCount, tabs
-----------------------------------------------------------------------------
(* What NextCell does is read the next of the cells.                       *)

(* Where the lexer may be with n cells of the row t read: at a cell, behind *)
(* the newline, or at the NUL that ends the row.                           *)
RowAt(t, c, n) ==
    \/ AtCell(t, c, n)
    \/ c = Len(t) + 2 /\ n = RowCount(t)
    \/ c \in 1..Len(t) /\ t[c] = NUL /\ n = RowCount(t)

(* A cell that is not quoted is the next one. *)
LEMMA PlainIsNext ==
    ASSUME NEW A, NEW t \in Seq(A), \A i \in 1..Len(t) : t[i] # NL, NEW b, b = Append(t, NL),
           NEW c, NEW n, AtCell(t, c, n), c <= Len(t) => t[c] \notin {QUOTE, NUL}
    PROVE  LET expr == b[c] = "="
               from == IF expr THEN c + 1 ELSE c
               end  == Find(b, from, {TAB, NL, NUL})
               cell == [type |-> IF expr THEN "EXPR" ELSE "PRETYPED",
                        text |-> Cut(SubSeq(b, from, end - 1), CellSz - 1)]
               next == IF CharAt(b, end, NUL) = NUL THEN end ELSE end + 1
           IN  /\ n + 1 <= RowCount(t)
               /\ cell = CellOf(t, RowFirst(t, n + 1), RowLast(t, n + 1))
               /\ RowAt(t, next, n + 1)
  <1> DEFINE expr == b[c] = "="
             from == IF expr THEN c + 1 ELSE c
             e == Find(b, from, {TAB, NL, NUL})
             cell == [type |-> IF expr THEN "EXPR" ELSE "PRETYPED",
                      text |-> Cut(SubSeq(b, from, e - 1), CellSz - 1)]
             next == IF CharAt(b, e, NUL) = NUL THEN e ELSE e + 1
             w == Where(t)
  <1> HIDE DEF expr, from, e, cell, next, w
  <1>0. /\ Len(t) \in Nat /\ Len(b) = Len(t) + 1
        /\ b \in Seq(A \cup {NL}) /\ t \in Seq(A \cup {NL})
        /\ \A j \in 1..Len(t) : b[j] = t[j]
        /\ b[Len(t) + 1] = NL
    <2>1. t \in Seq(A \cup {NL})
      BY SeqMonotonic
    <2> QED BY <2>1, BufferOf
  <1>1. c \in 1..(Len(t) + 1) /\ w[c] = "START" /\ n \in Nat
    BY DEF AtCell, w
  <1>2. c \in Nat /\ c >= 1 /\ c <= Len(t) + 1
    BY ONLY <1>0, <1>1
  <1>3. /\ e \in c..(Len(b) + 1)
        /\ e <= Len(b) => b[e] \in {TAB, NL, NUL}
        /\ \A j \in c..(e - 1) : b[j] \notin {TAB, NL, NUL}
    <2>1. from \in Nat /\ from > 0 /\ from <= Len(b) + 1
      BY <1>0, <1>2 DEF from
    <2>2. /\ e \in from..(Len(b) + 1)
          /\ e <= Len(b) => b[e] \in {TAB, NL, NUL}
          /\ \A j \in from..(e - 1) : b[j] \notin {TAB, NL, NUL}
      <3>1. Len(b) \in Nat /\ e = Find(b, from, {TAB, NL, NUL})
        BY <1>0 DEF e
      <3> QED BY ONLY <2>1, <3>1, FindStops
    <2>3. CASE expr
      <3>1. from = c + 1 /\ b[c] = "="
        BY <2>3 DEF from, expr
      <3>2. b[c] \notin {TAB, NL, NUL}
        BY <3>1 DEF TAB, NL, NUL
      <3>3. \A j \in c..(e - 1) : j = c \/ j \in from..(e - 1)
        BY ONLY <1>0, <1>2, <2>1, <2>2, <3>1
      <3>4. e \in c..(Len(b) + 1)
        BY ONLY <1>0, <1>2, <2>1, <2>2, <3>1
      <3> QED BY <2>2, <3>2, <3>3, <3>4
    <2>4. CASE ~expr
      BY <2>2, <2>4 DEF from
    <2> QED BY <2>3, <2>4
  <1>4. /\ e \in c..(Len(t) + 1)
        /\ e <= Len(t) => t[e] \in {TAB, NUL}
        /\ \A j \in c..(e - 1) : t[j] \notin {TAB, NUL}
        /\ e > c => w[e] = "PLAIN"
    <2>1. c \in 1..(Len(t) + 1) /\ Where(t)[c] = "START"
      BY <1>1 DEF w
    <2>2. /\ e \in c..(Len(t) + 1)
          /\ e <= Len(t) => t[e] \in {TAB, NUL}
          /\ \A j \in c..(e - 1) : t[j] \notin {TAB, NUL}
          /\ e > c => Where(t)[e] = "PLAIN"
      <3>1. /\ t \in Seq(A) /\ \A i \in 1..Len(t) : t[i] # NL
            /\ Len(b) = Len(t) + 1 /\ (\A j \in 1..Len(t) : b[j] = t[j]) /\ b[Len(t) + 1] = NL
            /\ c <= Len(t) => t[c] \notin {QUOTE, NUL}
        BY <1>0
      <3> QED BY ONLY <1>3, <2>1, <3>1, PlainRuns
    <2> QED BY <2>2 DEF w
  <1>5. e \in Nat /\ e >= c /\ e <= Len(t) + 1
    BY ONLY <1>0, <1>2, <1>4
  <1>6. w[e] \in {"START", "PLAIN"}
    <2>1. e = c \/ e > c
      BY ONLY <1>2, <1>5
    <2> QED BY <1>1, <1>4, <2>1
  <1>7. \A j \in c..(e - 1) : ~(t[j] = TAB /\ Where(t)[j] # "QUOTED")
    BY <1>4
  (* The text of it. *)
  <1>8. cell = CellOf(t, c, e - 1)
    <2>1. CASE c > e - 1
      <3>1. e = c
        BY ONLY <1>2, <1>5, <2>1
      <3>2. ~expr
        <4>1. b[c] \in {TAB, NUL, NL}
          <5>1. CASE c <= Len(t)
            <6>1. b[c] = t[c]
              BY ONLY <1>0, <1>2, <5>1
            <6> QED BY <1>4, <3>1, <5>1, <6>1
          <5>2. CASE c = Len(t) + 1
            BY <1>0, <5>2
          <5> QED BY ONLY <1>0, <1>2, <5>1, <5>2
        <4> QED BY <4>1 DEF expr, TAB, NUL, NL
      <3>3. SubSeq(b, c, c - 1) = SubSeq(t, c, c - 1)
        <4>1. /\ c \in Nat /\ c >= 1 /\ c - 1 \in Nat /\ c - 1 >= c - 1
              /\ c - 1 <= Len(b) /\ c - 1 <= Len(t)
              /\ \A i \in c..(c - 1) : b[i] = t[i]
          BY ONLY <1>0, <1>2
        <4> QED BY ONLY <1>0, <4>1, SamePart
      <3>4. from = c /\ cell = [type |-> "PRETYPED", text |-> Cut(SubSeq(b, c, c - 1), CellSz - 1)]
        BY <3>1, <3>2 DEF from, cell
      <3>5. CellOf(t, c, c - 1)
              = [type |-> "PRETYPED", text |-> Cut(SubSeq(t, c, c - 1), CellSz - 1)]
        <4>1. c > c - 1
          BY ONLY <1>2
        <4> QED BY <4>1 DEF CellOf, QUOTE
      <3> QED BY <3>1, <3>3, <3>4, <3>5
    <2>2. CASE ~(c > e - 1)
      <3>1. c \in 1..Len(t) /\ c \in c..(e - 1) /\ c <= Len(t) /\ e - 1 <= Len(t) /\ e - 1 \in Nat
        BY ONLY <1>0, <1>2, <1>5, <2>2
      <3>2. b[c] = t[c] /\ t[c] # QUOTE
        BY <1>0, <3>1
      <3>3. \A f \in {c, c + 1} : SubSeq(b, f, e - 1) = SubSeq(t, f, e - 1)
        <4> SUFFICES ASSUME NEW f \in {c, c + 1}
                     PROVE  SubSeq(b, f, e - 1) = SubSeq(t, f, e - 1)
          OBVIOUS
        <4>1. /\ f \in Nat /\ f >= 1 /\ e - 1 \in Nat /\ e - 1 >= f - 1
              /\ e - 1 <= Len(b) /\ e - 1 <= Len(t)
          BY ONLY <1>0, <1>2, <1>5, <3>1, f \in {c, c + 1}
        <4>2. \A i \in f..(e - 1) : b[i] = t[i]
          <5>1. \A i \in f..(e - 1) : i \in 1..Len(t)
            BY ONLY <1>0, <4>1
          <5> QED BY ONLY <1>0, <5>1
        <4> QED BY ONLY <1>0, <4>1, <4>2, SamePart
      <3>4. CASE expr
        <4>1. t[c] = "=" /\ from = c + 1
          BY <3>2, <3>4 DEF expr, from
        <4>2. cell = [type |-> "EXPR", text |-> Cut(SubSeq(b, c + 1, e - 1), CellSz - 1)]
          BY <3>4, <4>1 DEF cell
        <4>3. CellOf(t, c, e - 1)
                = [type |-> "EXPR", text |-> Cut(SubSeq(t, c + 1, e - 1), CellSz - 1)]
          BY <2>2, <4>1 DEF CellOf, QUOTE
        <4> QED BY <3>3, <4>2, <4>3
      <3>5. CASE ~expr
        <4>1. t[c] # "=" /\ from = c
          BY <3>2, <3>5 DEF expr, from
        <4>2. cell = [type |-> "PRETYPED", text |-> Cut(SubSeq(b, c, e - 1), CellSz - 1)]
          BY <3>5, <4>1 DEF cell
        <4>3. CellOf(t, c, e - 1)
                = [type |-> "PRETYPED", text |-> Cut(SubSeq(t, c, e - 1), CellSz - 1)]
          BY <2>2, <3>2, <4>1 DEF CellOf
        <4> QED BY <3>3, <4>2, <4>3
      <3> QED BY <3>4, <3>5
    <2> QED BY <2>1, <2>2
  (* Where it ends. *)
  <1>9. CASE e = Len(t) + 1
    <2>1. RowEnd(t) = e /\ RowDone(t) = {}
      <3>1. Where(t)[Len(t) + 1] # "DONE"
        BY <1>6, <1>9 DEF w
      <3> QED BY <1>9, <3>1, RowEndLast
    <2>2. n + 1 = RowCount(t) /\ RowFirst(t, n + 1) = c /\ RowLast(t, n + 1) = e - 1
      BY <1>7, <2>1, CellToEnd
    <2>3. next = Len(t) + 2
      <3>1. CharAt(b, e, NUL) = NL
        BY <1>0, <1>9 DEF CharAt
      <3>2. next = e + 1
        BY <3>1 DEF next, NL, NUL
      <3> QED BY ONLY <1>0, <1>9, <3>2
    <2>4. n + 1 <= RowCount(t)
      BY ONLY <1>1, <2>2
    <2> QED BY <1>8, <2>2, <2>3, <2>4 DEF RowAt, cell, e, from, expr, next
  <1>10. CASE e <= Len(t) /\ t[e] = TAB
    <2>1. e \in c..Len(t) /\ Where(t)[e] \notin {"QUOTED", "DONE"}
      <3>1. e \in c..Len(t)
        BY ONLY <1>0, <1>2, <1>5, <1>10
      <3> QED BY <1>6, <3>1 DEF w
    <2>2. /\ AtCell(t, e + 1, n + 1) /\ n + 1 <= RowCount(t)
          /\ RowFirst(t, n + 1) = c /\ RowLast(t, n + 1) = e - 1
      BY <1>7, <1>10, <2>1, CellToTab
    <2>3. next = e + 1
      <3>1. CharAt(b, e, NUL) = TAB
        <4>1. e \in 1..Len(t) /\ e <= Len(b)
          BY ONLY <1>0, <1>2, <1>5, <1>10
        <4> QED BY <1>0, <1>10, <4>1 DEF CharAt
      <3> QED BY <3>1 DEF next, TAB, NUL
    <2> QED BY <1>8, <2>2, <2>3 DEF RowAt, cell, e, from, expr, next
  <1>11. CASE e <= Len(t) /\ t[e] = NUL
    <2>1. e # c /\ e > c
      <3>1. e # c
        BY <1>11
      <3> QED BY ONLY <1>2, <1>5, <3>1
    <2>2. w[e] = "PLAIN"
      BY <1>4, <2>1
    <2>3. e \in 1..Len(t)
      BY ONLY <1>0, <1>2, <1>5, <1>11
    <2>4. RowEnd(t) = e /\ Where(t)[e] # "START"
      BY <1>11, <2>2, <2>3, RowEndIs DEF w
    <2>5. n + 1 = RowCount(t) /\ RowFirst(t, n + 1) = c /\ RowLast(t, n + 1) = e - 1
      BY <1>7, <2>4, CellToEnd
    <2>6. next = e
      <3>1. CharAt(b, e, NUL) = NUL
        <4>1. e <= Len(b)
          BY ONLY <1>0, <1>11, <1>5
        <4> QED BY <1>0, <1>11, <2>3, <4>1 DEF CharAt
      <3> QED BY <3>1 DEF next
    <2>7. n + 1 <= RowCount(t)
      BY ONLY <1>1, <2>5
    <2> QED BY <1>8, <1>11, <2>3, <2>5, <2>6, <2>7 DEF RowAt, cell, e, from, expr, next
  <1>12. e = Len(t) + 1 \/ e <= Len(t)
    BY ONLY <1>0, <1>5
  <1> QED BY <1>4, <1>9, <1>10, <1>11, <1>12
(* A quoted cell is the next one, whatever follows its closing quote. *)
LEMMA QuotedIsNext ==
    ASSUME NEW A, NEW t \in Seq(A), \A i \in 1..Len(t) : t[i] # NL, NEW b, b = Append(t, NL),
           NEW c, NEW n, AtCell(t, c, n), c <= Len(t), t[c] = QUOTE
    PROVE  LET close == Find(b, c + 1, {QUOTE, NL, NUL})
               from  == IF CharAt(b, close, NUL) = QUOTE THEN close + 1 ELSE close
               end   == Find(b, from, {TAB, NL})
               cell  == [type |-> "STRING",
                         text |-> Cut(SubSeq(b, c + 1, close - 1), CellSz - 1)]
           IN  /\ n + 1 <= RowCount(t)
               /\ cell = CellOf(t, RowFirst(t, n + 1), RowLast(t, n + 1))
               /\ RowAt(t, end + 1, n + 1)
  <1> DEFINE close == Find(b, c + 1, {QUOTE, NL, NUL})
             from  == IF CharAt(b, close, NUL) = QUOTE THEN close + 1 ELSE close
             e     == Find(b, from, {TAB, NL})
             cell  == [type |-> "STRING",
                       text |-> Cut(SubSeq(b, c + 1, close - 1), CellSz - 1)]
             w == Where(t)
  <1> HIDE DEF close, from, e, cell, w
  <1>0. /\ Len(t) \in Nat /\ Len(b) = Len(t) + 1
        /\ b \in Seq(A \cup {NL}) /\ t \in Seq(A \cup {NL})
        /\ \A j \in 1..Len(t) : b[j] = t[j]
        /\ b[Len(t) + 1] = NL
    <2>1. t \in Seq(A \cup {NL})
      BY SeqMonotonic
    <2> QED BY <2>1, BufferOf
  <1>1. c \in 1..(Len(t) + 1) /\ w[c] = "START" /\ n \in Nat /\ c <= Len(t)
    BY DEF AtCell, w
  <1>2. c \in Nat /\ c >= 1 /\ c <= Len(t) /\ c \in 1..Len(t)
    BY ONLY <1>0, <1>1
  <1>3. /\ close \in (c + 1)..(Len(b) + 1)
        /\ close <= Len(b) => b[close] \in {QUOTE, NL, NUL}
        /\ \A j \in (c + 1)..(close - 1) : b[j] \notin {QUOTE, NL, NUL}
    <2>1. Len(b) \in Nat /\ c + 1 \in Nat /\ c + 1 > 0 /\ c + 1 <= Len(b) + 1
      BY ONLY <1>0, <1>2
    <2>2. close = Find(b, c + 1, {QUOTE, NL, NUL})
      BY DEF close
    <2> QED BY ONLY <2>1, <2>2, FindStops
  <1>4. /\ from \in Nat /\ from > 0 /\ from <= Len(b) + 1
        /\ from \in {close, close + 1} /\ (from = close + 1 <=> CharAt(b, close, NUL) = QUOTE)
    <2>1. close \in Nat /\ close > 0 /\ close <= Len(b) + 1
      BY ONLY <1>0, <1>2, <1>3
    <2>2. CharAt(b, close, NUL) = QUOTE => close <= Len(b)
      <3>1. NUL # QUOTE
        BY DEF NUL, QUOTE
      <3> QED BY <3>1 DEF CharAt
    <2>3. from = IF CharAt(b, close, NUL) = QUOTE THEN close + 1 ELSE close
      BY DEF from
    <2>4. Len(b) \in Nat
      BY ONLY <1>0
    <2> QED BY ONLY <2>1, <2>2, <2>3, <2>4
  <1>5. /\ e \in from..(Len(b) + 1)
        /\ e <= Len(b) => b[e] \in {TAB, NL}
        /\ \A j \in from..(e - 1) : b[j] \notin {TAB, NL}
    <2>1. Len(b) \in Nat /\ e = Find(b, from, {TAB, NL})
      BY <1>0 DEF e
    <2> QED BY ONLY <1>4, <2>1, FindStops
  <1>6. /\ close \in (c + 1)..(Len(t) + 1) /\ e \in close..(Len(t) + 1)
        /\ e <= Len(t) => t[e] = TAB /\ Where(t)[e] = "CLOSED"
        /\ e = Len(t) + 1 => Where(t)[e] \in {"QUOTED", "CLOSED"}
        /\ \A j \in c..(e - 1) : ~(t[j] = TAB /\ Where(t)[j] # "QUOTED")
        /\ \A i \in (c + 1)..(e - 1) : Where(t)[i + 1] = "QUOTED" <=> i < close
    <2>1. /\ t \in Seq(A) /\ \A i \in 1..Len(t) : t[i] # NL
          /\ Len(b) = Len(t) + 1 /\ (\A j \in 1..Len(t) : b[j] = t[j]) /\ b[Len(t) + 1] = NL
          /\ c \in 1..Len(t) /\ Where(t)[c] = "START" /\ t[c] = QUOTE
      BY <1>0, <1>1, <1>2 DEF w
    <2> QED BY ONLY <1>3, <1>4, <1>5, <2>1, QuotedRuns
  <1>7. /\ close \in Nat /\ close > c /\ e \in Nat /\ e >= close /\ e <= Len(t) + 1
        /\ close <= Len(t) + 1
    BY ONLY <1>0, <1>2, <1>6
  (* The text of it. *)
  <1>8. cell = CellOf(t, c, e - 1)
    <2> DEFINE quoted == {i \in (c + 1)..(e - 1) : Where(t)[i + 1] = "QUOTED"}
    <2>1. ~(c > e - 1)
      BY ONLY <1>2, <1>7
    <2>2. quoted = (c + 1)..(close - 1)
      <3>1. \A i \in (c + 1)..(e - 1) : Where(t)[i + 1] = "QUOTED" <=> i \in (c + 1)..(close - 1)
        <4>1. \A i \in (c + 1)..(e - 1) : i < close <=> i \in (c + 1)..(close - 1)
          BY ONLY <1>2, <1>7
        <4> QED BY ONLY <1>6, <4>1
      <3>2. \A i \in (c + 1)..(close - 1) : i \in (c + 1)..(e - 1)
        BY ONLY <1>2, <1>7
      <3> QED BY <3>1, <3>2, Zenon
    <2>3. Cardinality(quoted) = close - 1 - c
      <3>1. c + 1 \in Int /\ close - 1 \in Int
        BY ONLY <1>2, <1>7
      <3>2. Cardinality((c + 1)..(close - 1)) = IF c + 1 > close - 1 THEN 0
                                                ELSE (close - 1) - (c + 1) + 1
        BY ONLY <3>1, FS_Interval
      <3>3. Cardinality((c + 1)..(close - 1)) = close - 1 - c
        BY ONLY <1>2, <1>7, <3>2
      <3> QED BY <2>2, <3>3
    <2>4. c + Cardinality(quoted) = close - 1
      <3> HIDE DEF quoted
      <3> QED BY ONLY <1>2, <1>7, <2>3
    <2>5. CellOf(t, c, e - 1)
            = [type |-> "STRING", text |-> Cut(SubSeq(t, c + 1, c + Cardinality(quoted)), CellSz - 1)]
      BY <2>1 DEF CellOf, QUOTE
    <2>6. SubSeq(b, c + 1, close - 1) = SubSeq(t, c + 1, close - 1)
      <3>1. /\ c + 1 \in Nat /\ c + 1 >= 1 /\ close - 1 \in Nat /\ close - 1 >= (c + 1) - 1
            /\ close - 1 <= Len(b) /\ close - 1 <= Len(t)
        BY ONLY <1>0, <1>2, <1>7
      <3>2. \A i \in (c + 1)..(close - 1) : b[i] = t[i]
        <4>1. \A i \in (c + 1)..(close - 1) : i \in 1..Len(t)
          BY ONLY <1>0, <1>2, <1>7
        <4> QED BY ONLY <1>0, <4>1
      <3> QED BY ONLY <1>0, <3>1, <3>2, SamePart
    <2> HIDE DEF quoted
    <2> QED BY <2>4, <2>5, <2>6 DEF cell
  (* Where it ends. *)
  <1>9. CASE e = Len(t) + 1
    <2>1. RowEnd(t) = e /\ RowDone(t) = {}
      <3>1. Where(t)[Len(t) + 1] # "DONE"
        BY <1>6, <1>9
      <3> QED BY <1>9, <3>1, RowEndLast
    <2>2. n + 1 = RowCount(t) /\ RowFirst(t, n + 1) = c /\ RowLast(t, n + 1) = e - 1
      BY <1>6, <2>1, CellToEnd
    <2>3. e + 1 = Len(t) + 2
      BY ONLY <1>0, <1>9
    <2>4. n + 1 <= RowCount(t)
      BY ONLY <1>1, <2>2
    <2> QED BY <1>8, <2>2, <2>3, <2>4 DEF RowAt, cell, e, from, close
  <1>10. CASE e <= Len(t)
    <2>1. e \in c..Len(t) /\ t[e] = TAB /\ Where(t)[e] \notin {"QUOTED", "DONE"}
      <3>1. e \in c..Len(t)
        BY ONLY <1>0, <1>2, <1>7, <1>10
      <3> QED BY <1>6, <1>10, <3>1
    <2>2. /\ AtCell(t, e + 1, n + 1) /\ n + 1 <= RowCount(t)
          /\ RowFirst(t, n + 1) = c /\ RowLast(t, n + 1) = e - 1
      BY <1>6, <2>1, CellToTab
    <2> QED BY <1>8, <2>2 DEF RowAt, cell, e, from, close
  <1>11. e = Len(t) + 1 \/ e <= Len(t)
    BY ONLY <1>0, <1>7
  <1> QED BY <1>9, <1>10, <1>11
-----------------------------------------------------------------------------
(* The words a command means, piece by piece, and that what NextCmdWord    *)
(* does is read the next of them.                                          *)

WordsText(t)  == SubSeq(t, 1, Find(t, 1, {NUL}) - 1)
Black(t)      == {i \in 1..Len(WordsText(t)) : WordsText(t)[i] \notin Spaces}
FirstBlack(t) == {i \in Black(t) : i - 1 \notin Black(t)}
LastBlack(t)  == {i \in Black(t) : i + 1 \notin Black(t)}

(* The k-th word, and the word that is cut from the buffer. *)
WordOf(t, k) ==
    [type |-> "WORD",
     text |-> Cut(SubSeq(WordsText(t), Nth(FirstBlack(t), k), Nth(LastBlack(t), k)), CellSz - 1)]
WordFrom(b, s, e) == [type |-> "WORD", text |-> Cut(SubSeq(b, s, e - 1), CellSz - 1)]

(* These are the pieces. *)
LEMMA CommandWords ==
    ASSUME NEW t
    PROVE  MeantWords(t) = [k \in 1..Cardinality(FirstBlack(t)) |-> WordOf(t, k)]
  BY DEF MeantWords, WordsText, Black, FirstBlack, LastBlack, WordOf

(* The text of the words: up to a NUL, if there is one. *)
LEMMA WordsTextIs ==
    ASSUME NEW A, NEW t \in Seq(A)
    PROVE  LET z == Len(WordsText(t)) IN
           /\ Len(t) \in Nat /\ z \in Nat /\ z <= Len(t) /\ WordsText(t) = SubSeq(t, 1, z)
           /\ z < Len(t) => t[z + 1] = NUL
           /\ \A i \in 1..z : t[i] # NUL /\ (i \in Black(t) <=> t[i] \notin Spaces)
           /\ Black(t) \in SUBSET (1..z)
  <1> DEFINE f == Find(t, 1, {NUL})
  <1>0. Len(t) \in Nat
    BY LenProperties
  <1>1. /\ f \in 1..(Len(t) + 1)
        /\ f <= Len(t) => t[f] \in {NUL}
        /\ \A j \in 1..(f - 1) : t[j] \notin {NUL}
    BY <1>0, FindStops
  <1> HIDE DEF f
  <1>2. f - 1 \in Nat /\ f - 1 <= Len(t) /\ f - 1 >= 1 - 1 /\ (f - 1) + 1 = f
    BY ONLY <1>0, <1>1
  <1>3. WordsText(t) = SubSeq(t, 1, f - 1)
    BY DEF WordsText, f
  <1>4. Len(SubSeq(t, 1, f - 1)) = f - 1
        /\ \A i \in 1..(f - 1) : SubSeq(t, 1, f - 1)[i] = t[i]
    <2>1. Len(SubSeq(t, 1, f - 1)) = (f - 1) - 1 + 1
          /\ \A i \in 1..((f - 1) - 1 + 1) : SubSeq(t, 1, f - 1)[i] = t[1 + i - 1]
      BY <1>2, PartOf
    <2>2. (f - 1) - 1 + 1 = f - 1 /\ \A i \in 1..(f - 1) : 1 + i - 1 = i
      BY ONLY <1>2
    <2> QED BY <2>1, <2>2
  <1>5. Len(WordsText(t)) = f - 1 /\ \A i \in 1..(f - 1) : WordsText(t)[i] = t[i]
    BY <1>3, <1>4
  <1>6. Black(t) = {i \in 1..(f - 1) : WordsText(t)[i] \notin Spaces}
    BY <1>5 DEF Black
  <1>7. \A i \in 1..(f - 1) : i \in Black(t) <=> t[i] \notin Spaces
    BY ONLY <1>5, <1>6
  <1>8. Black(t) \in SUBSET (1..(f - 1))
    BY ONLY <1>6
  <1>9. f - 1 < Len(t) => t[(f - 1) + 1] = NUL
    BY <1>0, <1>1, <1>2
  <1> QED BY <1>0, <1>1, <1>2, <1>3, <1>5, <1>7, <1>8, <1>9

(* The ends of words are finitely many places in the text. *)
LEMMA BlackType ==
    ASSUME NEW A, NEW t \in Seq(A)
    PROVE  /\ Black(t) \in SUBSET Nat
           /\ FirstBlack(t) \in SUBSET Nat /\ IsFiniteSet(FirstBlack(t))
           /\ Cardinality(FirstBlack(t)) \in Nat
           /\ LastBlack(t) \in SUBSET Nat /\ IsFiniteSet(LastBlack(t))
  <1>1. Black(t) \in SUBSET (1..Len(WordsText(t))) /\ Len(WordsText(t)) \in Nat
    BY WordsTextIs
  <1>2. IsFiniteSet(Black(t)) /\ Black(t) \in SUBSET Nat
    <2>1. IsFiniteSet(1..Len(WordsText(t)))
      <3>1. 1 \in Int /\ Len(WordsText(t)) \in Int
        BY <1>1
      <3> QED BY ONLY <3>1, FS_Interval
    <2> QED BY <1>1, <2>1, FS_Subset
  <1>3. FirstBlack(t) \in SUBSET Black(t) /\ LastBlack(t) \in SUBSET Black(t)
    BY DEF FirstBlack, LastBlack
  <1>4. IsFiniteSet(FirstBlack(t)) /\ IsFiniteSet(LastBlack(t))
    BY <1>2, <1>3, FS_Subset
  <1> QED BY <1>2, <1>3, <1>4, FS_CardinalityType

(* The place n words of the command t have been read up to. *)
WordAt(t, c, n) ==
    /\ c \in 1..(Len(WordsText(t)) + 1) /\ n \in Nat
    /\ n = Below(FirstBlack(t), c) /\ n = Below(LastBlack(t), c)
    /\ c - 1 \in Black(t) => c \notin Black(t)

(* A command begins with no word read. *)
LEMMA WordAtStart ==
    ASSUME NEW A, NEW t \in Seq(A)
    PROVE  WordAt(t, 1, 0)
  <1>1. /\ Len(WordsText(t)) \in Nat /\ Black(t) \in SUBSET (1..Len(WordsText(t)))
    BY WordsTextIs
  <1>2. 1 \in 1..(Len(WordsText(t)) + 1) /\ 1 - 1 = 0 /\ 0 \notin Black(t)
        /\ \A j \in Black(t) : ~(j < 1)
    BY ONLY <1>1
  <1>3. {j \in FirstBlack(t) : j < 1} = {} /\ {j \in LastBlack(t) : j < 1} = {}
    BY <1>2 DEF FirstBlack, LastBlack
  <1> QED BY <1>2, <1>3, FS_EmptySet DEF WordAt, Below

(* The first character from c on that is no space, or the end of the line. *)
LEMMA WordStartIs ==
    ASSUME NEW A, NEW t \in Seq(A), NEW b, b = Append(t, NL), NEW c, NEW n, WordAt(t, c, n),
           NEW chars, \A j \in 1..Len(b) : b[j] \in chars <=> b[j] \notin Spaces,
           NEW s, s = Find(b, c, chars)
    PROVE  LET z == Len(WordsText(t)) IN
           /\ s \in Nat /\ s >= c
           /\ CharAt(b, s, NUL) # NUL <=> s <= z
           /\ s <= z => s \in Black(t)
           /\ \A j \in c..(s - 1) : j \notin Black(t)
  <1> DEFINE z == Len(WordsText(t))
  <1>0. /\ Len(t) \in Nat /\ Len(b) = Len(t) + 1
        /\ \A j \in 1..Len(t) : b[j] = t[j]
        /\ b[Len(t) + 1] = NL
    BY BufferOf
  <1>1. /\ z \in Nat /\ z <= Len(t)
        /\ z < Len(t) => t[z + 1] = NUL
        /\ \A i \in 1..z : t[i] # NUL /\ (i \in Black(t) <=> t[i] \notin Spaces)
        /\ Black(t) \in SUBSET (1..z)
    BY WordsTextIs
  <1>2. c \in 1..(z + 1)
    BY DEF WordAt
  <1> HIDE DEF z
  <1>3. c \in Nat /\ c >= 1 /\ c <= z + 1 /\ c <= Len(b) + 1 /\ c > 0 /\ Len(b) \in Nat
    BY ONLY <1>0, <1>1, <1>2
  <1>4. /\ s \in c..(Len(b) + 1)
        /\ s <= Len(b) => b[s] \in chars
        /\ \A j \in c..(s - 1) : b[j] \notin chars
    <2>1. s = Find(b, c, chars)
      OBVIOUS
    <2> QED BY ONLY <1>3, <2>1, FindStops
  <1>5. s \in Nat /\ s >= c /\ s >= 1 /\ s <= Len(b) + 1
    BY ONLY <1>3, <1>4
  <1>6. ASSUME NEW j \in c..(s - 1) PROVE b[j] \in Spaces
    <2>1. j \in 1..Len(b) /\ b[j] \notin chars
      BY ONLY <1>3, <1>4, <1>5, j \in c..(s - 1)
    <2> QED BY <2>1
  <1>7. NL \in Spaces /\ NUL \notin Spaces /\ NL # NUL
    BY DEF Spaces, NL, NUL, TAB, SPACE
  <1>8. s <= Len(b) => b[s] \notin Spaces
    <2>1. s <= Len(b) => s \in 1..Len(b)
      BY ONLY <1>3, <1>5
    <2> QED BY <1>4, <2>1
  <1>9. \A j \in c..(s - 1) : j \notin Black(t)
    <2> SUFFICES ASSUME NEW j \in c..(s - 1), j \in Black(t) PROVE FALSE
      OBVIOUS
    <2>1. j \in 1..z /\ j \in 1..Len(t)
      BY ONLY <1>0, <1>1, j \in Black(t)
    <2>2. b[j] = t[j] /\ t[j] \notin Spaces
      BY <1>0, <1>1, <2>1
    <2> QED BY <1>6, <2>2
  <1>10. CASE s <= z
    <2>1. s \in 1..z /\ s \in 1..Len(t) /\ s <= Len(b)
      BY ONLY <1>0, <1>1, <1>5, <1>10
    <2>2. b[s] = t[s] /\ t[s] # NUL
      BY <1>0, <1>1, <2>1
    <2>3. s \in Black(t)
      BY <1>1, <1>8, <2>1, <2>2
    <2>4. CharAt(b, s, NUL) # NUL
      BY <2>1, <2>2 DEF CharAt
    <2> QED BY <1>5, <1>9, <1>10, <2>3, <2>4 DEF z
  <1>11. CASE ~(s <= z)
    <2>1. CharAt(b, s, NUL) = NUL
      <3>1. CASE z = Len(t)
        <4>1. s # Len(t) + 1
          <5>1. s = Len(t) + 1 => s <= Len(b) /\ b[s] = NL
            BY ONLY <1>0
          <5> QED BY <1>7, <1>8, <5>1
        <4>2. s > Len(b)
          BY ONLY <1>0, <1>1, <1>5, <1>11, <3>1, <4>1
        <4>3. ~(s <= Len(b))
          BY ONLY <1>3, <1>5, <4>2
        <4> QED BY <4>3 DEF CharAt
      <3>2. CASE z < Len(t)
        <4>1. z + 1 \in 1..Len(t) /\ z + 1 <= Len(b)
          BY ONLY <1>0, <1>1, <3>2
        <4>2. b[z + 1] = NUL
          BY <1>0, <1>1, <3>2, <4>1
        <4>3. z + 1 \notin c..(s - 1)
          BY <1>6, <1>7, <4>2
        <4>4. s = z + 1
          BY ONLY <1>1, <1>3, <1>5, <1>11, <4>3
        <4> QED BY <4>1, <4>2, <4>4 DEF CharAt
      <3> QED BY ONLY <1>0, <1>1, <3>1, <3>2
    <2> QED BY <1>5, <1>9, <1>11, <2>1 DEF z
  <1> QED BY <1>10, <1>11
(* From there on the word goes up to the next space, NUL or end of line. *)
LEMMA WordEndIs ==
    ASSUME NEW A, NEW t \in Seq(A), NEW b, b = Append(t, NL),
           NEW white, \A x : x \in white <=> x \in Spaces \/ x = NUL,
           NEW s \in Black(t), NEW e, e = Find(b, s, white)
    PROVE  /\ e \in Nat /\ e > s /\ e <= Len(WordsText(t)) + 1
           /\ \A j \in s..(e - 1) : j \in Black(t)
           /\ e \notin Black(t)
  <1> DEFINE z == Len(WordsText(t))
  <1>0. /\ Len(t) \in Nat /\ Len(b) = Len(t) + 1
        /\ \A j \in 1..Len(t) : b[j] = t[j]
        /\ b[Len(t) + 1] = NL
    BY BufferOf
  <1>1. /\ z \in Nat /\ z <= Len(t)
        /\ z < Len(t) => t[z + 1] = NUL
        /\ \A i \in 1..z : t[i] # NUL /\ (i \in Black(t) <=> t[i] \notin Spaces)
        /\ Black(t) \in SUBSET (1..z)
    BY WordsTextIs
  <1> HIDE DEF z
  <1>2. s \in 1..z /\ s \in Nat /\ s >= 1 /\ s <= z /\ s \in 1..Len(t)
    <2>1. s \in 1..z
      BY <1>1
    <2> QED BY ONLY <1>0, <1>1, <2>1
  <1>3. /\ e \in s..(Len(b) + 1)
        /\ e <= Len(b) => b[e] \in white
        /\ \A j \in s..(e - 1) : b[j] \notin white
    <2>1. Len(b) \in Nat /\ s \in Nat /\ s > 0 /\ s <= Len(b) + 1
      BY ONLY <1>0, <1>1, <1>2
    <2>2. e = Find(b, s, white)
      OBVIOUS
    <2> QED BY ONLY <2>1, <2>2, FindStops
  <1>4. e \in Nat /\ e >= s /\ e <= Len(b) + 1
    BY ONLY <1>0, <1>2, <1>3
  <1>5. b[s] \notin white
    <2>1. b[s] = t[s] /\ t[s] # NUL /\ t[s] \notin Spaces
      BY <1>0, <1>1, <1>2
    <2> QED BY <2>1
  <1>6. NL \in white /\ NUL \in white
    BY DEF Spaces, NL
  <1>7. b[z + 1] \in white /\ z + 1 <= Len(b)
    <2>1. CASE z = Len(t)
      BY <1>0, <1>6, <2>1
    <2>2. CASE z < Len(t)
      <3>1. z + 1 \in 1..Len(t) /\ z + 1 <= Len(b)
        BY ONLY <1>0, <1>1, <2>2
      <3> QED BY <1>0, <1>1, <1>6, <2>2, <3>1
    <2> QED BY ONLY <1>1, <1>0, <2>1, <2>2
  <1>8. e <= z + 1
    <2>1. z + 1 \notin s..(e - 1)
      BY <1>3, <1>7
    <2> QED BY ONLY <1>1, <1>2, <1>4, <2>1
  <1>9. e > s
    <2>1. e <= Len(b) /\ e # s
      <3>1. e <= Len(b)
        BY ONLY <1>0, <1>1, <1>4, <1>7, <1>8
      <3> QED BY <1>3, <1>5, <3>1
    <2> QED BY ONLY <1>2, <1>4, <2>1
  <1>10. ASSUME NEW j \in s..(e - 1) PROVE j \in Black(t)
    <2>1. j \in 1..z /\ j \in 1..Len(t)
      BY ONLY <1>0, <1>1, <1>2, <1>4, <1>8, j \in s..(e - 1)
    <2>2. b[j] \notin white /\ b[j] = t[j]
      BY <1>0, <1>3, <2>1
    <2> QED BY <1>1, <2>1, <2>2
  <1>11. e \notin Black(t)
    <2> SUFFICES ASSUME e \in Black(t) PROVE FALSE
      OBVIOUS
    <2>1. e \in 1..z
      BY <1>1
    <2>2. e \in 1..Len(t) /\ e <= Len(b)
      BY ONLY <1>0, <1>1, <2>1
    <2>3. b[e] = t[e] /\ b[e] \in white
      BY <1>0, <1>3, <2>2
    <2> QED BY <1>1, <2>1, <2>3
  <1> QED BY <1>4, <1>8, <1>9, <1>10, <1>11 DEF z

(* What is cut from s to e is the word behind the first n, and leads to e. *)
NextWord(t, n, b, s, e) ==
    /\ n + 1 <= Cardinality(FirstBlack(t))
    /\ WordFrom(b, s, e) = WordOf(t, n + 1)
    /\ WordAt(t, e, n + 1)

(* The word that begins where the first such character is is the next one. *)
LEMMA WordIsNext ==
    ASSUME NEW A, NEW t \in Seq(A), NEW b, b = Append(t, NL), NEW c, NEW n, WordAt(t, c, n),
           NEW chars, \A j \in 1..Len(b) : b[j] \in chars <=> b[j] \notin Spaces,
           NEW s, s = Find(b, c, chars), CharAt(b, s, NUL) # NUL,
           NEW white, \A x : x \in white <=> x \in Spaces \/ x = NUL,
           NEW end, end = Find(b, s, white)
    PROVE  NextWord(t, n, b, s, end)
  <1> DEFINE e == end
             z == Len(WordsText(t))
             first == FirstBlack(t)
             last == LastBlack(t)
             black == Black(t)
  <1> HIDE DEF e, z, first, last, black
  <1>0. /\ Len(t) \in Nat /\ Len(b) = Len(t) + 1
        /\ b \in Seq(A \cup {NL}) /\ t \in Seq(A \cup {NL})
        /\ \A j \in 1..Len(t) : b[j] = t[j]
        /\ z \in Nat /\ z <= Len(t) /\ WordsText(t) = SubSeq(t, 1, z)
        /\ black \in SUBSET (1..z)
    <2>1. t \in Seq(A \cup {NL})
      BY SeqMonotonic
    <2>2. /\ Len(t) \in Nat /\ Len(b) = Len(t) + 1
          /\ b \in Seq(A \cup {NL})
          /\ \A j \in 1..Len(t) : b[j] = t[j]
      BY BufferOf
    <2>3. /\ z \in Nat /\ z <= Len(t) /\ WordsText(t) = SubSeq(t, 1, z)
          /\ black \in SUBSET (1..z)
      BY WordsTextIs DEF z, black
    <2> QED BY ONLY <2>1, <2>2, <2>3
  <1>1. /\ c \in 1..(z + 1) /\ n \in Nat
        /\ n = Below(first, c) /\ n = Below(last, c)
        /\ c - 1 \in black => c \notin black
    BY DEF WordAt, z, first, last, black
  <1>2. /\ s \in Nat /\ s >= c /\ s <= z /\ s \in black
        /\ \A j \in c..(s - 1) : j \notin black
    <2>1. LET y == Len(WordsText(t)) IN
          /\ s \in Nat /\ s >= c
          /\ CharAt(b, s, NUL) # NUL <=> s <= y
          /\ s <= y => s \in Black(t)
          /\ \A j \in c..(s - 1) : j \notin Black(t)
      BY WordStartIs
    <2> QED BY <2>1 DEF z, black
  <1>3. /\ e \in Nat /\ e > s /\ e <= z + 1
        /\ \A j \in s..(e - 1) : j \in black
        /\ e \notin black
    <2>1. s \in Black(t)
      BY <1>2 DEF black
    <2>2. /\ e \in Nat /\ e > s /\ e <= Len(WordsText(t)) + 1
          /\ \A j \in s..(e - 1) : j \in Black(t)
          /\ e \notin Black(t)
      BY <2>1, WordEndIs DEF e
    <2> QED BY <2>2 DEF z, black
  <1>4. c \in Nat /\ c >= 1
    BY ONLY <1>0, <1>1
  <1>5. /\ first \in SUBSET Nat /\ IsFiniteSet(first) /\ Cardinality(first) \in Nat
        /\ last \in SUBSET Nat /\ IsFiniteSet(last)
    BY BlackType DEF first, last
  <1>6. /\ \A j : j \in first <=> j \in black /\ j - 1 \notin black
        /\ \A j : j \in last <=> j \in black /\ j + 1 \notin black
    BY DEF first, last, black, FirstBlack, LastBlack
  (* The word begins at s ... *)
  <1>7. s \in first
    <2>1. s - 1 \notin black
      <3>1. CASE s = c
        BY <1>1, <1>2, <3>1
      <3>2. CASE s # c
        <4>1. s - 1 \in c..(s - 1)
          BY ONLY <1>2, <1>4, <3>2
        <4> QED BY <1>2, <4>1
      <3> QED BY <3>1, <3>2
    <2> QED BY <1>2, <1>6, <2>1
  <1>8. Below(first, s) = n
    <2>1. \A j \in c..(s - 1) : j \notin first
      BY <1>2, <1>6
    <2> QED BY ONLY <1>1, <1>2, <1>4, <1>5, <2>1, BelowSame
  <1>9. Nth(first, n + 1) = s
    BY ONLY <1>5, <1>7, <1>8, NthIs
  <1>10. Below(first, s + 1) = n + 1
    BY ONLY <1>5, <1>7, <1>8, BelowNext
  <1>11. Below(first, e) = n + 1
    <2>1. \A j \in (s + 1)..(e - 1) : j \notin first
      <3> SUFFICES ASSUME NEW j \in (s + 1)..(e - 1) PROVE j \notin first
        OBVIOUS
      <3>1. j - 1 \in s..(e - 1)
        BY ONLY <1>2, <1>3, j \in (s + 1)..(e - 1)
      <3> QED BY <1>3, <1>6, <3>1
    <2>2. s + 1 \in Nat /\ s + 1 <= e
      BY ONLY <1>2, <1>3
    <2>3. Below(first, s + 1) = Below(first, e)
      BY ONLY <1>3, <1>5, <2>1, <2>2, BelowSame
    <2> QED BY <1>10, <2>3
  <1>12. n + 1 <= Cardinality(first)
    <2>1. Below(first, e) <= Cardinality(first)
      BY ONLY <1>3, <1>5, BelowType
    <2> QED BY <1>11, <2>1
  (* ... and ends before e. *)
  <1>13. e - 1 \in last /\ e - 1 \in Nat /\ (e - 1) + 1 = e /\ e - 1 >= c /\ e - 1 >= s
    <2>1. e - 1 \in s..(e - 1) /\ e - 1 \in Nat /\ (e - 1) + 1 = e /\ e - 1 >= c /\ e - 1 >= s
      BY ONLY <1>2, <1>3, <1>4
    <2> QED BY <1>3, <1>6, <2>1
  <1>14. Below(last, e - 1) = n
    <2>1. \A j \in c..((e - 1) - 1) : j \notin last
      <3> SUFFICES ASSUME NEW j \in c..((e - 1) - 1) PROVE j \notin last
        OBVIOUS
      <3>1. j \in c..(s - 1) \/ j + 1 \in s..(e - 1)
        BY ONLY <1>2, <1>3, <1>4, j \in c..((e - 1) - 1)
      <3> QED BY <1>2, <1>3, <1>6, <3>1
    <2>2. Below(last, c) = Below(last, e - 1)
      BY ONLY <1>4, <1>5, <1>13, <2>1, BelowSame
    <2> QED BY <1>1, <2>2
  <1>15. Nth(last, n + 1) = e - 1
    BY ONLY <1>5, <1>13, <1>14, NthIs
  <1>16. Below(last, e) = n + 1
    <2>1. Below(last, (e - 1) + 1) = Below(last, e - 1) + 1
      BY ONLY <1>5, <1>13, BelowNext
    <2> QED BY <1>13, <1>14, <2>1
  (* The text of it. *)
  <1>17. SubSeq(b, s, e - 1) = SubSeq(WordsText(t), s, e - 1)
    <2>1. /\ s \in Nat /\ s >= 1 /\ e - 1 \in Nat /\ e - 1 >= s - 1 /\ e - 1 <= z
          /\ e - 1 <= Len(t) /\ e - 1 <= Len(b) /\ z >= 1 - 1 /\ e - 1 <= z - 1 + 1
      BY ONLY <1>0, <1>1, <1>2, <1>3, <1>4
    <2>2. \A i \in s..(e - 1) : b[i] = t[i]
      <3>1. \A i \in s..(e - 1) : i \in 1..Len(t)
        BY ONLY <1>0, <2>1
      <3> QED BY ONLY <1>0, <3>1
    <2>3. SubSeq(b, s, e - 1) = SubSeq(t, s, e - 1)
      BY ONLY <1>0, <2>1, <2>2, SamePart
    <2>4. SubSeq(SubSeq(t, 1, z), s, e - 1) = SubSeq(t, 1 + s - 1, 1 + (e - 1) - 1)
      BY ONLY <1>0, <2>1, PartOfPart
    <2>5. 1 + s - 1 = s /\ 1 + (e - 1) - 1 = e - 1
      BY ONLY <2>1
    <2> QED BY <1>0, <2>3, <2>4, <2>5
  <1>18. WordAt(t, e, n + 1)
    <2>1. e \in 1..(z + 1) /\ n + 1 \in Nat
      BY ONLY <1>0, <1>1, <1>2, <1>3, <1>4
    <2> QED BY <1>3, <1>11, <1>16, <2>1 DEF WordAt, z, first, last, black
  <1>19. WordFrom(b, s, e) = WordOf(t, n + 1)
    BY <1>9, <1>15, <1>17 DEF WordFrom, WordOf, first, last
  <1> QED BY <1>12, <1>18, <1>19 DEF NextWord, e, first

(* Where no word begins any more all of them have been read. *)
LEMMA WordsAreRead ==
    ASSUME NEW A, NEW t \in Seq(A), NEW b, b = Append(t, NL), NEW c, NEW n, WordAt(t, c, n),
           NEW chars, \A j \in 1..Len(b) : b[j] \in chars <=> b[j] \notin Spaces,
           NEW s, s = Find(b, c, chars), CharAt(b, s, NUL) = NUL
    PROVE  n = Cardinality(FirstBlack(t))
  <1>1. /\ s \in Nat /\ s >= c
        /\ ~(s <= Len(WordsText(t)))
        /\ \A j \in c..(s - 1) : j \notin Black(t)
    BY WordStartIs
  <1>2. Len(WordsText(t)) \in Nat /\ Black(t) \in SUBSET (1..Len(WordsText(t)))
    BY WordsTextIs
  <1>3. c \in 1..(Len(WordsText(t)) + 1) /\ n = Below(FirstBlack(t), c)
    BY DEF WordAt
  <1>4. c \in Nat
    BY <1>2, <1>3
  <1>5. ASSUME NEW j \in FirstBlack(t), ~(j < c) PROVE FALSE
    <2>1. j \in Black(t)
      BY DEF FirstBlack
    <2>2. j \in 1..Len(WordsText(t))
      BY <1>2, <2>1
    <2>3. ~(s <= Len(WordsText(t)))
      BY <1>1
    <2>4. j \in c..(s - 1)
      BY ONLY <1>1, <1>2, <1>4, <2>2, <2>3, <1>5
    <2> QED BY <1>1, <2>1, <2>4
  <1>6. FirstBlack(t) \in SUBSET Nat
    BY BlackType
  <1> QED BY ONLY <1>3, <1>4, <1>5, <1>6, BelowEnd
-----------------------------------------------------------------------------
(* The invariant of the lexers.                                            *)

(* The text of the line that was read last. *)
Text == MeantText(LineText(line))

(* These are n items; some of them, from the first on, have been read, and *)
(* all of them when the line is left.                                      *)
ItemsRead(items, n) ==
    /\ Len(read) \in Nat /\ Len(read) <= n /\ read = SubSeq(items, 1, Len(read))
    /\ pc = "LINE" => Len(read) = n

RowInv ==
    type = "ROW" =>
        RowAt(Text, cur, Len(read)) /\ ItemsRead(MeantCells(Text), RowCount(Text))
CommandInv ==
    type = "COMMAND" =>
        /\ WordAt(Text, cur, Len(read))
        /\ ItemsRead(MeantWords(Text), Cardinality(FirstBlack(Text)))

(* The lexer that is called is the one of the line's kind, and the buffer  *)
(* is not overrun.                                                         *)
LexInv ==
    /\ pc \in {"LINE", "ROW", "COMMAND", "EOF", "ABORTED"}
    /\ pc \in {"ROW", "COMMAND"} => type = pc
    /\ type \notin {"ROW", "COMMAND"} => cur = 1
    /\ Len(buf) \in Nat /\ Len(buf) <= Sz - 2

ReaderInv == LinesInv /\ LexInv /\ RowInv /\ CommandInv

(* A sequence given by its items; one more of them has been read. *)
LEMMA ItemsAre ==
    ASSUME NEW n \in Nat, NEW S, NEW f \in [1..n -> S], NEW m \in Nat, m <= n
    PROVE  /\ Len(f) = n /\ Len(SubSeq(f, 1, m)) = m
           /\ SubSeq(f, 1, n) = f
           /\ m < n => Append(SubSeq(f, 1, m), f[m + 1]) = SubSeq(f, 1, m + 1)
  <1>1. f \in [1..n -> S]
    OBVIOUS
  <1>2. f \in Seq(S) /\ Len(f) = n
    BY <1>1
  <1>3. SubSeq(f, 1, m) \in Seq(S) /\ Len(SubSeq(f, 1, m)) = m - 1 + 1
        /\ \A i \in 1..(m - 1 + 1) : SubSeq(f, 1, m)[i] = f[1 + i - 1]
    <2>1. 1 \in Nat /\ 1 >= 1 /\ m <= Len(f) /\ m >= 1 - 1
      BY <1>2
    <2> QED BY ONLY <1>2, <2>1, m \in Nat, PartOf
  <1>4. Len(SubSeq(f, 1, m)) = m /\ \A i \in 1..m : SubSeq(f, 1, m)[i] = f[i]
    <2>1. m - 1 + 1 = m /\ \A i \in 1..m : 1 + i - 1 = i
      OBVIOUS
    <2> QED BY <1>3, <2>1
  <1>5. ASSUME m < n PROVE Append(SubSeq(f, 1, m), f[m + 1]) = SubSeq(f, 1, m + 1)
    <2>1. m + 1 \in 1..Len(f) /\ 1 \in 1..Len(f) /\ m + 1 \in 1..(m + 1) /\ (m + 1) - 1 = m
          /\ m + 1 \in 1..Len(f) /\ m + 1 \in Nat /\ m + 1 >= 1
      BY <1>2, <1>5
    <2>2. SubSeq(f, 1, m + 1) = SubSeq(f, 1, (m + 1) - 1) \o <<f[m + 1]>>
      BY ONLY <1>2, <2>1, SubSeqRecursiveSecond
    <2>3. SubSeq(f, 1, m) \in Seq(S) /\ f[m + 1] \in S
      BY <1>1, <1>2, <1>3, <2>1
    <2>4. SubSeq(f, 1, m) \o <<f[m + 1]>> = Append(SubSeq(f, 1, m), f[m + 1])
      BY <2>3, AppendIsConcat
    <2> QED BY <2>1, <2>2, <2>4
  <1>6. SubSeq(f, 1, n) = f
    BY <1>2, SubSeqFull
  <1> QED BY <1>2, <1>4, <1>5, <1>6

(* A row has a number of cells. *)
LEMMA RowCountType ==
    ASSUME NEW A, NEW t \in Seq(A)
    PROVE  RowCount(t) \in Nat
  <1>1. 1 \in 1..(Len(t) + 1) /\ Where(t)[1] # "DONE" /\ Len(t) \in Nat
    BY LenProperties, WhereIs
  <1>2. RowEnd(t) \in Nat
    BY <1>1, RowEndAfter
  <1>3. Cardinality(RowTabs(t)) \in Nat
    BY <1>2, RowTabsType
  <1> QED BY <1>3 DEF RowCount

(* What the buffer has while a lexer reads it. *)
LEMMA TextIs ==
    ASSUME ReaderInv, type \in {"ROW", "COMMAND"}
    PROVE  /\ Text \in Seq(Char) /\ Len(Text) \in Nat
           /\ \A i \in 1..Len(Text) : Text[i] # NL
           /\ buf = Append(Text, NL) /\ Len(buf) = Len(Text) + 1
           /\ \A j \in 1..Len(Text) : buf[j] = Text[j]
           /\ buf[Len(Text) + 1] = NL
  <1>1. /\ Text \in Seq(Char) /\ \A i \in 1..Len(Text) : Text[i] # NL
        /\ buf = Append(Text, NL)
    BY DEF ReaderInv, LinesInv, BufferInv, BufferIs, Text
  <1>2. /\ Len(Text) \in Nat /\ Len(buf) = Len(Text) + 1
        /\ \A j \in 1..Len(Text) : buf[j] = Text[j]
        /\ buf[Len(Text) + 1] = NL
    BY ONLY <1>1, BufferOf
  <1> QED BY <1>1, <1>2

(* The text does not change while the lexers read it. *)
LEMMA TextStays ==
    ASSUME UNCHANGED <<file, line>>
    PROVE  Text' = Text
  BY DEF Text, LineText, Newlines
(* Reading one more item gives one more of the items. *)
LEMMA NextItem ==
    ASSUME NEW n \in Nat, NEW S, NEW f \in [1..n -> S],
           NEW r, Len(r) \in Nat, Len(r) + 1 <= n, r = SubSeq(f, 1, Len(r)),
           NEW q, q = Append(r, f[Len(r) + 1])
    PROVE  Len(q) = Len(r) + 1 /\ q = SubSeq(f, 1, Len(q))
  <1> DEFINE m == Len(r)
  <1>1. m \in Nat /\ m < n /\ m <= n /\ m + 1 \in Nat /\ m + 1 <= n
    OBVIOUS
  <1>2. r = SubSeq(f, 1, m) /\ q = Append(r, f[m + 1])
    OBVIOUS
  <1> HIDE DEF m
  <1>3. Append(SubSeq(f, 1, m), f[m + 1]) = SubSeq(f, 1, m + 1)
    BY <1>1, ItemsAre
  <1>4. Len(SubSeq(f, 1, m + 1)) = m + 1
    BY <1>1, ItemsAre
  <1>5. q = SubSeq(f, 1, m + 1)
    BY ONLY <1>2, <1>3
  <1>6. Len(q) = m + 1
    BY ONLY <1>4, <1>5
  <1>7. q = SubSeq(f, 1, Len(q))
    BY ONLY <1>5, <1>6
  <1> QED BY ONLY <1>6, <1>7 DEF m

(* A cell is taken: the next one of the row. *)
LEMMA CellTaken ==
    ASSUME ReaderInv, pc = "ROW", NEW CONSTANT cell, NEW CONSTANT next, Took(cell, next),
           Len(read) + 1 <= RowCount(Text),
           cell = CellOf(Text, RowFirst(Text, Len(read) + 1), RowLast(Text, Len(read) + 1)),
           RowAt(Text, next, Len(read) + 1)
    PROVE  RowInv' /\ CommandInv'
  <1>1. type = "ROW" /\ type' = "ROW" /\ Text' = Text /\ pc' = "ROW"
        /\ read' = Append(read, cell) /\ cur' = next
    <2>1. type = "ROW" /\ UNCHANGED <<file, line, type, pc>>
          /\ read' = Append(read, cell) /\ cur' = next
      BY DEF ReaderInv, LexInv, Took
    <2> QED BY <2>1, TextStays
  <1>2. Text \in Seq(Char)
    BY <1>1, TextIs
  <1> DEFINE f == MeantCells(Text)
             n == RowCount(Text)
  <1>3. n \in Nat
    BY <1>2, RowCountType
  <1>4. f = [k \in 1..n |-> CellOf(Text, RowFirst(Text, k), RowLast(Text, k))]
    BY RowCells
  <1>5. Len(read) \in Nat /\ Len(read) <= n /\ read = SubSeq(f, 1, Len(read))
    BY <1>1 DEF ReaderInv, RowInv, ItemsRead
  <1> HIDE DEF f, n
  <1>6. f \in [1..n -> {f[k] : k \in 1..n}]
    BY <1>4
  <1>7. Len(read) + 1 \in 1..n /\ Len(read) + 1 <= n
    BY <1>3, <1>5 DEF n
  <1>8. f[Len(read) + 1] = cell
    BY <1>4, <1>7
  <1>9. Len(read') = Len(read) + 1 /\ read' = SubSeq(f, 1, Len(read'))
    <2>1. read' = Append(read, f[Len(read) + 1])
      BY <1>1, <1>8
    <2> QED BY ONLY <1>3, <1>5, <1>6, <1>7, <2>1, NextItem
  <1>10. Len(read') \in Nat /\ Len(read') <= n
    BY ONLY <1>5, <1>7, <1>9
  <1>11. RowAt(Text, cur', Len(read'))
    BY <1>1, <1>9
  <1>12. RowInv'
    BY <1>1, <1>9, <1>10, <1>11 DEF RowInv, ItemsRead, f, n
  <1> QED BY <1>1, <1>12 DEF CommandInv

(* A word is taken: the next one of the command. *)
LEMMA WordTaken ==
    ASSUME ReaderInv, CommandWord
    PROVE  RowInv' /\ CommandInv'
  <1> DEFINE end == Find(buf, WordStart, Spaces \cup {NUL})
             word == WordFrom(buf, WordStart, end)
  <1>0. Took(word, end) /\ CharAt(buf, WordStart, NUL) # NUL /\ pc = "COMMAND"
    BY DEF CommandWord, WordFrom
  <1> HIDE DEF end, word
  <1>1. type = "COMMAND" /\ type' = "COMMAND" /\ Text' = Text /\ pc' = "COMMAND"
        /\ read' = Append(read, word) /\ cur' = end
    <2>1. type = "COMMAND" /\ UNCHANGED <<file, line, type, pc>>
          /\ read' = Append(read, word) /\ cur' = end
      BY <1>0 DEF ReaderInv, LexInv, Took
    <2> QED BY <1>0, <2>1, TextStays
  <1>2. Text \in Seq(Char) /\ buf = Append(Text, NL)
    BY <1>1, TextIs
  <1> DEFINE f == MeantWords(Text)
             n == Cardinality(FirstBlack(Text))
             chars == {buf[j] : j \in 1..Len(buf)} \ Spaces
             white == Spaces \cup {NUL}
  <1>3. n \in Nat
    BY <1>2, BlackType
  <1>4. f = [k \in 1..n |-> WordOf(Text, k)]
    BY CommandWords
  <1>5. /\ Len(read) \in Nat /\ Len(read) <= n /\ read = SubSeq(f, 1, Len(read))
        /\ WordAt(Text, cur, Len(read))
    BY <1>1 DEF ReaderInv, CommandInv, ItemsRead
  <1>6. WordStart = Find(buf, cur, chars)
        /\ \A j \in 1..Len(buf) : buf[j] \in chars <=> buf[j] \notin Spaces
    BY DEF WordStart
  <1> HIDE DEF f, n, chars
  <1>7. /\ Len(read) + 1 <= n
        /\ word = WordOf(Text, Len(read) + 1)
        /\ WordAt(Text, end, Len(read) + 1)
    <2>1. end = Find(buf, WordStart, white) /\ \A x : x \in white <=> x \in Spaces \/ x = NUL
      BY DEF end, white
    <2>2. CharAt(buf, WordStart, NUL) # NUL
      BY <1>0
    <2> HIDE DEF white
    <2>3. Text \in Seq(Char) /\ buf = Append(Text, NL) /\ WordAt(Text, cur, Len(read))
      BY <1>2, <1>5
    <2>4. NextWord(Text, Len(read), buf, WordStart, end)
      BY ONLY <1>6, <2>1, <2>2, <2>3, WordIsNext
    <2> QED BY <2>4 DEF NextWord, n, word
  <1>8. f \in [1..n -> {f[k] : k \in 1..n}]
    BY <1>4
  <1>9. Len(read) + 1 \in 1..n
    BY ONLY <1>3, <1>5, <1>7
  <1>10. f[Len(read) + 1] = word
    BY <1>4, <1>7, <1>9
  <1>11. Len(read') = Len(read) + 1 /\ read' = SubSeq(f, 1, Len(read'))
    <2>1. read' = Append(read, f[Len(read) + 1])
      BY <1>1, <1>10
    <2> QED BY ONLY <1>3, <1>5, <1>7, <1>8, <2>1, NextItem
  <1>12. Len(read') \in Nat /\ Len(read') <= n
    BY ONLY <1>5, <1>7, <1>11
  <1>13. WordAt(Text, cur', Len(read'))
    BY <1>1, <1>7, <1>11
  <1>14. CommandInv'
    BY <1>1, <1>11, <1>12, <1>13 DEF CommandInv, ItemsRead, f, n
  <1> QED BY <1>1, <1>14 DEF RowInv
(* A lexer is where a character of the row is. *)
LEMMA AtRow ==
    ASSUME ReaderInv, pc = "ROW"
    PROVE  /\ CharAt(buf, cur, NUL) # NUL => AtCell(Text, cur, Len(read)) /\ buf[cur] # NUL
           /\ CharAt(buf, cur, NUL) = QUOTE => cur <= Len(Text) /\ Text[cur] = QUOTE
           /\ cur <= Len(Text) /\ Text[cur] \in {QUOTE, NUL} => CharAt(buf, cur, NUL) = Text[cur]
           /\ CharAt(buf, cur, NUL) = NUL => Len(read) = RowCount(Text)
           /\ cur \in 1..(Len(buf) + 1)
  <1>1. type = "ROW"
    BY DEF ReaderInv, LexInv
  <1>2. /\ Text \in Seq(Char) /\ Len(Text) \in Nat
        /\ Len(buf) = Len(Text) + 1
        /\ \A j \in 1..Len(Text) : buf[j] = Text[j]
        /\ buf[Len(Text) + 1] = NL
    BY <1>1, TextIs
  <1>3. RowAt(Text, cur, Len(read))
    BY <1>1 DEF ReaderInv, RowInv
  <1>4. NL # NUL /\ QUOTE # NUL /\ NL # QUOTE
    BY DEF NL, NUL, QUOTE
  <1>5. CASE AtCell(Text, cur, Len(read))
    <2>1. cur \in 1..(Len(Text) + 1) /\ cur <= Len(buf) /\ cur \in 1..(Len(buf) + 1)
      <3>1. cur \in 1..(Len(Text) + 1)
        BY <1>5 DEF AtCell
      <3> QED BY ONLY <1>2, <3>1
    <2>2. CharAt(buf, cur, NUL) = buf[cur]
      BY <2>1 DEF CharAt
    <2>3. cur = Len(Text) + 1 \/ cur \in 1..Len(Text)
      BY ONLY <1>2, <2>1
    <2>4. CASE cur = Len(Text) + 1
      <3>1. buf[cur] = NL /\ ~(cur <= Len(Text))
        BY ONLY <1>2, <2>4
      <3> QED BY <1>4, <1>5, <2>1, <2>2, <3>1
    <2>5. CASE cur \in 1..Len(Text)
      <3>1. buf[cur] = Text[cur] /\ cur <= Len(Text)
        BY ONLY <1>2, <2>5
      <3>2. Text[cur] = NUL => Len(read) = RowCount(Text)
        BY <1>2, <1>5, <3>1, RowIsRead
      <3> QED BY <1>4, <1>5, <2>1, <2>2, <3>1, <3>2
    <2> QED BY <2>3, <2>4, <2>5
  <1>6. CASE cur = Len(Text) + 2 /\ Len(read) = RowCount(Text)
    <2>1. ~(cur <= Len(buf)) /\ ~(cur <= Len(Text)) /\ cur \in 1..(Len(buf) + 1)
      BY ONLY <1>2, <1>6
    <2>2. CharAt(buf, cur, NUL) = NUL
      BY <2>1 DEF CharAt
    <2> QED BY <1>4, <1>6, <2>1, <2>2
  <1>7. CASE cur \in 1..Len(Text) /\ Text[cur] = NUL /\ Len(read) = RowCount(Text)
    <2>1. cur <= Len(buf) /\ buf[cur] = Text[cur] /\ cur \in 1..(Len(buf) + 1)
      BY ONLY <1>2, <1>7
    <2>2. CharAt(buf, cur, NUL) = NUL
      BY <1>7, <2>1 DEF CharAt
    <2> QED BY <1>4, <1>7, <2>1, <2>2
  <1> QED BY <1>3, <1>5, <1>6, <1>7 DEF RowAt

(* NextCell keeps the invariant where a quote begins the cell ... *)
LEMMA StringTaken ==
    ASSUME ReaderInv, StringCell
    PROVE  RowInv' /\ CommandInv'
  <1> DEFINE close == Find(buf, cur + 1, {QUOTE, NL, NUL})
             from  == IF CharAt(buf, close, NUL) = QUOTE THEN close + 1 ELSE close
             end   == Find(buf, from, {TAB, NL})
             cell  == [type |-> "STRING",
                       text |-> Cut(SubSeq(buf, cur + 1, close - 1), CellSz - 1)]
  <1>1. pc = "ROW" /\ CharAt(buf, cur, NUL) = QUOTE /\ Took(cell, end + 1)
    BY DEF StringCell, StringEnd
  <1>2. type = "ROW"
    BY <1>1 DEF ReaderInv, LexInv
  <1>3. /\ Text \in Seq(Char) /\ \A i \in 1..Len(Text) : Text[i] # NL
        /\ buf = Append(Text, NL)
    BY <1>2, TextIs
  <1>4. AtCell(Text, cur, Len(read)) /\ cur <= Len(Text) /\ Text[cur] = QUOTE
    <2>1. QUOTE # NUL
      BY DEF QUOTE, NUL
    <2> QED BY <1>1, <2>1, AtRow
  <1>5. /\ Len(read) + 1 <= RowCount(Text)
        /\ cell = CellOf(Text, RowFirst(Text, Len(read) + 1), RowLast(Text, Len(read) + 1))
        /\ RowAt(Text, end + 1, Len(read) + 1)
    BY ONLY <1>3, <1>4, QuotedIsNext
  <1> HIDE DEF cell, end
  <1> QED BY <1>1, <1>5, CellTaken

(* ... and where none does. *)
LEMMA PlainTaken ==
    ASSUME ReaderInv, PlainCell
    PROVE  RowInv' /\ CommandInv'
  <1> DEFINE expr == buf[cur] = "="
             from == IF expr THEN cur + 1 ELSE cur
             end  == Find(buf, from, {TAB, NL, NUL})
             cell == [type |-> IF expr THEN "EXPR" ELSE "PRETYPED",
                      text |-> Cut(SubSeq(buf, from, end - 1), CellSz - 1)]
             next == IF CharAt(buf, end, NUL) = NUL THEN end ELSE end + 1
  <1>1. pc = "ROW" /\ CharAt(buf, cur, NUL) \notin {QUOTE, NUL} /\ Took(cell, next)
    BY DEF PlainCell
  <1>2. type = "ROW"
    BY <1>1 DEF ReaderInv, LexInv
  <1>3. /\ Text \in Seq(Char) /\ \A i \in 1..Len(Text) : Text[i] # NL
        /\ buf = Append(Text, NL)
    BY <1>2, TextIs
  <1>4. AtCell(Text, cur, Len(read)) /\ (cur <= Len(Text) => Text[cur] \notin {QUOTE, NUL})
    BY <1>1, AtRow
  <1>5. /\ Len(read) + 1 <= RowCount(Text)
        /\ cell = CellOf(Text, RowFirst(Text, Len(read) + 1), RowLast(Text, Len(read) + 1))
        /\ RowAt(Text, next, Len(read) + 1)
    BY ONLY <1>3, <1>4, PlainIsNext
  <1> HIDE DEF cell, next
  <1> QED BY <1>1, <1>5, CellTaken

(* At the end of a line its items have all been read. *)
LEMMA LineLeft ==
    ASSUME ReaderInv, EndRow \/ EndCommand
    PROVE  RowInv' /\ CommandInv'
  <1>1. UNCHANGED <<file, at, line, type, buf, cur, read>> /\ Text' = Text /\ pc' = "LINE"
    BY TextStays DEF EndRow, EndCommand, EndOfLine
  <1>2. CASE EndRow
    <2>1. type = "ROW" /\ pc = "ROW" /\ CharAt(buf, cur, NUL) = NUL
      BY <1>2 DEF EndRow, ReaderInv, LexInv
    <2>2. Len(read) = RowCount(Text)
      BY <2>1, AtRow
    <2>3. RowAt(Text, cur, Len(read)) /\ ItemsRead(MeantCells(Text), RowCount(Text))
      BY <2>1 DEF ReaderInv, RowInv
    <2>4. ItemsRead(MeantCells(Text), RowCount(Text))'
      BY <1>1, <2>2, <2>3 DEF ItemsRead
    <2>5. RowInv'
      BY <1>1, <2>3, <2>4 DEF RowInv
    <2> QED BY <1>1, <2>1, <2>5 DEF CommandInv
  <1>3. CASE EndCommand
    <2>1. type = "COMMAND" /\ CharAt(buf, WordStart, NUL) = NUL
      BY <1>3 DEF EndCommand, ReaderInv, LexInv
    <2>2. WordAt(Text, cur, Len(read))
          /\ ItemsRead(MeantWords(Text), Cardinality(FirstBlack(Text)))
      BY <2>1 DEF ReaderInv, CommandInv
    <2>3. Text \in Seq(Char) /\ buf = Append(Text, NL)
      BY <2>1, TextIs
    <2> DEFINE chars == {buf[j] : j \in 1..Len(buf)} \ Spaces
    <2>4. WordStart = Find(buf, cur, chars)
          /\ \A j \in 1..Len(buf) : buf[j] \in chars <=> buf[j] \notin Spaces
      BY DEF WordStart
    <2> HIDE DEF chars
    <2>5. Len(read) = Cardinality(FirstBlack(Text))
      BY ONLY <2>1, <2>2, <2>3, <2>4, WordsAreRead
    <2>6. ItemsRead(MeantWords(Text), Cardinality(FirstBlack(Text)))'
      BY <1>1, <2>2, <2>5 DEF ItemsRead
    <2>7. CommandInv'
      BY <1>1, <2>2, <2>6 DEF CommandInv
    <2> QED BY <1>1, <2>1, <2>7 DEF RowInv
  <1> QED BY <1>2, <1>3
(* A line that has been read has none of its items read. *)
LEMMA LineStarts ==
    ASSUME ReaderInv, LinesInv', ReadLine
    PROVE  RowInv' /\ CommandInv'
  <1>1. \/ type' = "NULL"
        \/ pc' = "ABORTED" /\ UNCHANGED <<file, line, type, cur, read>>
        \/ /\ cur' = 1 /\ read' = << >>
           /\ type' \in {"ROW", "COMMAND"} => pc' = type'
    BY LineRead DEF ReaderInv, LinesInv
  <1>2. CASE type' = "NULL"
    BY <1>2 DEF RowInv, CommandInv
  <1>3. CASE pc' = "ABORTED" /\ UNCHANGED <<file, line, type, cur, read>>
    <2>1. Text' = Text /\ pc' # "LINE"
      BY <1>3, TextStays
    <2>2. RowInv'
      BY <1>3, <2>1 DEF ReaderInv, RowInv, ItemsRead
    <2>3. CommandInv'
      BY <1>3, <2>1 DEF ReaderInv, CommandInv, ItemsRead
    <2> QED BY <2>2, <2>3
  <1>4. CASE /\ cur' = 1 /\ read' = << >>
             /\ type' \in {"ROW", "COMMAND"} => pc' = type'
    <2>1. ASSUME type' \in {"ROW", "COMMAND"} PROVE Text' \in Seq(Char) /\ pc' # "LINE"
      BY <1>4, <2>1 DEF LinesInv, BufferInv, BufferIs, Text
    <2>2. Len(read') = 0 /\ \A f : read' = SubSeq(f, 1, 0)
      <3>1. \A f : SubSeq(f, 1, 0) = << >>
        BY SubSeqEmpty
      <3> QED BY <1>4, <3>1
    <2>3. ASSUME type' = "ROW" PROVE RowAt(Text', 1, 0) /\ RowCount(Text') \in Nat
      BY <2>1, <2>3, AtCellStart, RowCountType DEF RowAt
    <2>4. ASSUME type' = "COMMAND"
          PROVE  WordAt(Text', 1, 0) /\ Cardinality(FirstBlack(Text')) \in Nat
      BY <2>1, <2>4, WordAtStart, BlackType
    <2>5. RowInv'
      BY <1>4, <2>1, <2>2, <2>3 DEF RowInv, ItemsRead
    <2>6. CommandInv'
      BY <1>4, <2>1, <2>2, <2>4 DEF CommandInv, ItemsRead
    <2> QED BY <2>5, <2>6
  <1> QED BY <1>1, <1>2, <1>3, <1>4

(* It holds before anything is read. *)
LEMMA ReaderStarts == Init => ReaderInv
  <1> SUFFICES ASSUME Init PROVE ReaderInv
    OBVIOUS
  <1>1. LinesInv
    BY LinesStart
  <1>2. LexInv
    BY BufferAssumption DEF Init, LexInv
  <1> QED BY <1>1, <1>2 DEF Init, ReaderInv, RowInv, CommandInv

(* Every step keeps it. *)
LEMMA ReaderSteps ==
    ASSUME ReaderInv, [Next]_vars
    PROVE  ReaderInv'
  <1>1. CASE ReadLine
    <2>1. LinesInv'
      BY <1>1, LinesRead DEF ReaderInv
    <2>2. RowInv' /\ CommandInv'
      BY <1>1, <2>1, LineStarts
    <2>3. LexInv'
      <3>1. FileOK /\ LexInv /\ (type \in {"ROW", "COMMAND"} => pc # "EOF")
        BY DEF ReaderInv, LinesInv, BufferInv, BufferIs
      <3>2. \/ type' = "NULL" /\ buf' = << >> /\ cur' = 1 /\ pc' = "EOF"
            \/ pc' = "ABORTED" /\ UNCHANGED <<type, buf, cur>>
            \/ /\ at <= Len(file) /\ Len(MeantText(LineHere)) < Sz - 2
               /\ buf' = IF LineHere = << >> THEN << >> ELSE Append(MeantText(LineHere), NL)
               /\ cur' = 1 /\ pc' = IF type' \in {"ROW", "COMMAND"} THEN type' ELSE "LINE"
        BY <1>1, <3>1, LineRead
      <3>3. CASE type' = "NULL" /\ buf' = << >> /\ cur' = 1 /\ pc' = "EOF"
        BY <3>3, BufferAssumption DEF LexInv
      <3>4. CASE pc' = "ABORTED" /\ UNCHANGED <<type, buf, cur>>
        BY <3>1, <3>4 DEF LexInv
      <3>5. CASE /\ at <= Len(file) /\ Len(MeantText(LineHere)) < Sz - 2
                 /\ buf' = IF LineHere = << >> THEN << >> ELSE Append(MeantText(LineHere), NL)
                 /\ cur' = 1 /\ pc' = IF type' \in {"ROW", "COMMAND"} THEN type' ELSE "LINE"
        <4>1. Len(buf') \in Nat /\ Len(buf') <= Sz - 2
          <5>1. CASE LineHere = << >>
            BY <3>5, <5>1, BufferAssumption
          <5>2. CASE LineHere # << >>
            <6>1. MeantText(LineHere) \in Seq(Char)
              BY <3>1, <3>5, <5>2, RestIsMeant
            <6>2. Len(MeantText(LineHere)) \in Nat /\ Len(buf') = Len(MeantText(LineHere)) + 1
              BY <3>5, <5>2, <6>1, BufferOf
            <6> QED BY <3>5, <6>2, BufferAssumption
          <5> QED BY <5>1, <5>2
        <4> QED BY <3>5, <4>1 DEF LexInv
      <3> QED BY <3>2, <3>3, <3>4, <3>5
    <2> QED BY <2>1, <2>2, <2>3 DEF ReaderInv
  <1>2. CASE StringCell \/ PlainCell \/ EndRow \/ CommandWord \/ EndCommand
    <2>1. InLine /\ (pc' = pc \/ pc' = "LINE")
      BY <1>2 DEF InLine, StringCell, PlainCell, EndRow, CommandWord, EndCommand, Took, EndOfLine
    <2>2. LinesInv'
      BY <2>1, LinesStay DEF ReaderInv
    <2>3. RowInv' /\ CommandInv'
      BY <1>2, StringTaken, PlainTaken, WordTaken, LineLeft
    <2>4. LexInv'
      BY <2>1 DEF ReaderInv, LexInv, InLine
    <2> QED BY <2>2, <2>3, <2>4 DEF ReaderInv
  <1>3. CASE Stopped \/ UNCHANGED vars
    <2>1. UNCHANGED vars
      BY <1>3 DEF Stopped
    <2>2. LinesInv'
      BY <2>1, LinesStay DEF ReaderInv
    <2>3. Text' = Text /\ LexInv'
      BY <2>1, TextStays DEF vars, ReaderInv, LexInv
    <2>4. RowInv' /\ CommandInv'
      BY <2>1, <2>3 DEF vars, ReaderInv, RowInv, CommandInv, ItemsRead
    <2> QED BY <2>2, <2>3, <2>4 DEF ReaderInv
  <1> QED BY <1>1, <1>2, <1>3 DEF Next

-----------------------------------------------------------------------------
(* The reader's three invariants.                                          *)

(* What the lexer has read is what the line means up to where it is, and the *)
(* buffer has the line: the invariant of ReadLine, NextCell and NextCmdWord.   *)
THEOREM ReaderHasInv == Spec => []ReaderInv
  BY ReaderStarts, ReaderSteps, PTL DEF Spec

(* So the lexer is in its buffer ... *)
LEMMA TypeFromInv == ReaderInv => TypeOK
  <1> SUFFICES ASSUME ReaderInv PROVE TypeOK
    OBVIOUS
  <1>1. at \in 1..(Len(file) + 1) /\ LexInv
    BY DEF ReaderInv, LinesInv, FileOK
  <1>2. type \in {"ROW", "COMMAND"} => buf[Len(buf)] = NL
    BY TextIs
  <1>3. cur \in 1..(Len(buf) + 1)
    <2>1. CASE type = "ROW"
      <3>1. /\ Len(Text) \in Nat /\ Len(buf) = Len(Text) + 1
        BY <2>1, TextIs
      <3>2. RowAt(Text, cur, Len(read))
        BY <2>1 DEF ReaderInv, RowInv
      <3>3. cur \in 1..(Len(Text) + 1) \/ cur = Len(Text) + 2 \/ cur \in 1..Len(Text)
        BY <3>2 DEF RowAt, AtCell
      <3> QED BY ONLY <3>1, <3>3
    <2>2. CASE type = "COMMAND"
      <3>1. Len(Text) \in Nat /\ Len(buf) = Len(Text) + 1 /\ Text \in Seq(Char)
        BY <2>2, TextIs
      <3>2. cur \in 1..(Len(WordsText(Text)) + 1)
        BY <2>2 DEF ReaderInv, CommandInv, WordAt
      <3>3. Len(WordsText(Text)) \in Nat /\ Len(WordsText(Text)) <= Len(Text)
        BY <3>1, WordsTextIs
      <3> QED BY ONLY <3>1, <3>2, <3>3
    <2>3. CASE type \notin {"ROW", "COMMAND"}
      BY <1>1, <2>3 DEF LexInv
    <2> QED BY <2>1, <2>2, <2>3
  <1> QED BY <1>1, <1>2, <1>3 DEF TypeOK, LexInv

(* The lexers stay in the buffer, and it ends with a newline, whatever     *)
(* follows a closed quote: the loop that does not look for the NUL stops.  *)
THEOREM ReaderTypes == Spec => []TypeOK
  BY ReaderHasInv, TypeFromInv, PTL

(* Every call of ReadLine reads one line and tells its kind, and stops     *)
(* only at a line that leaves no room.                                     *)
THEOREM LinesAreMeant == Spec => []LinesAsMeant
  <1>1. ReaderInv => LinesAsMeant
    BY DEF ReaderInv, LinesInv
  <1> QED BY <1>1, ReaderHasInv, PTL

(* ... and has read what is meant. *)
LEMMA ItemsFromInv == ReaderInv => ItemsAsMeant
  <1> SUFFICES ASSUME ReaderInv PROVE ItemsAsMeant
    OBVIOUS
  <1>1. CASE type = "ROW"
    <2>1. Text \in Seq(Char) /\ ItemsRead(MeantCells(Text), RowCount(Text))
      BY <1>1, TextIs DEF ReaderInv, RowInv
    <2> DEFINE f == MeantCells(Text)
               n == RowCount(Text)
    <2>2. n \in Nat
      BY <2>1, RowCountType
    <2>3. f \in [1..n -> {f[k] : k \in 1..n}]
      <3>1. f = [k \in 1..n |-> CellOf(Text, RowFirst(Text, k), RowLast(Text, k))]
        BY RowCells
      <3> HIDE DEF f, n
      <3> QED BY <3>1
    <2> HIDE DEF f, n
    <2>4. n <= n /\ Len(f) = n /\ SubSeq(f, 1, n) = f
      BY ONLY <2>2, <2>3, ItemsAre
    <2>5. /\ Len(read) <= Len(f) /\ read = SubSeq(f, 1, Len(read))
          /\ pc = "LINE" => read = f
      BY <2>1, <2>4 DEF ItemsRead, f, n
    <2> QED BY <1>1, <2>5 DEF ItemsAsMeant, f, Text
  <1>2. CASE type = "COMMAND"
    <2>1. Text \in Seq(Char) /\ ItemsRead(MeantWords(Text), Cardinality(FirstBlack(Text)))
      BY <1>2, TextIs DEF ReaderInv, CommandInv
    <2> DEFINE f == MeantWords(Text)
               n == Cardinality(FirstBlack(Text))
    <2>2. n \in Nat
      BY <2>1, BlackType
    <2>3. f \in [1..n -> {f[k] : k \in 1..n}]
      <3>1. f = [k \in 1..n |-> WordOf(Text, k)]
        BY CommandWords
      <3> HIDE DEF f, n
      <3> QED BY <3>1
    <2> HIDE DEF f, n
    <2>4. n <= n /\ Len(f) = n /\ SubSeq(f, 1, n) = f
      BY ONLY <2>2, <2>3, ItemsAre
    <2>5. /\ Len(read) <= Len(f) /\ read = SubSeq(f, 1, Len(read))
          /\ pc = "LINE" => read = f
      BY <2>1, <2>4 DEF ItemsRead, f, n
    <2> QED BY <1>2, <2>5 DEF ItemsAsMeant, f, Text
  <1> QED BY <1>1, <1>2 DEF ItemsAsMeant

(* A row gives the cells that are meant, and a command the words, all of   *)
(* them in order.                                                          *)
THEOREM ItemsAreMeant == Spec => []ItemsAsMeant
  BY ReaderHasInv, ItemsFromInv, PTL
=============================================================================
