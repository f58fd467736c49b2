------------------------ MODULE SearchEngineProofs ------------------------
(***************************************************************************)
(* Theorems about SearchEngine: what is stored is what the text says, no   *)
(* line is lost in an intersection, and every answer is right.             *)
(***************************************************************************)
EXTENDS SearchEngine, FiniteSetTheorems, FunctionTheorems, SequenceTheorems, WellFoundedInduction, TLAPS

-----------------------------------------------------------------------------
(* The inductive invariant.                                                *)

Before(r, t) == r.line < t.line \/ (r.line = t.line /\ r.start < t.start)
Sorted(records) == \A i, j \in DOMAIN records : i < j => Before(records[i], records[j])
Increasing(ns) == \A i, j \in DOMAIN ns : i < j => ns[i] < ns[j]

(***************************************************************************)
(* The positions from which a line was read, and the number of lines that  *)
(* begin up to a position.                                                 *)
(***************************************************************************)
Stretch(n) == offsets[n] + 1..offsets[n + 1]
CountBegins(p) == Cardinality({b \in Begins : b <= p})

(***************************************************************************)
(* Each line that has been read is a stretch of the text that begins where *)
(* a line begins and goes on to its newline or the end, and the stretches  *)
(* cover what has been read.                                               *)
(***************************************************************************)
OffsetsInv ==
  /\ Len(offsets) = line_count + 1
  /\ offsets[line_count + 1] = input_pos
  /\ CountBegins(input_pos) = line_count
  /\ input_pos < Len(text) => input_pos + 1 \in Begins
  /\ \A n \in 1..line_count :
       /\ offsets[n] < offsets[n + 1]
       /\ offsets[n] + 1 \in Begins
       /\ offsets[n + 1] < Len(text) => text[offsets[n + 1]] = Newline
       /\ \A p \in Stretch(n) :
            /\ p < offsets[n + 1] => text[p] # Newline
            /\ CountBegins(p) = n
  /\ \A p \in 1..input_pos : \E n \in 1..line_count : p \in Stretch(n)

(***************************************************************************)
(* The lexicon has each word of the lines read, in lower case and once.    *)
(***************************************************************************)
LexiconInv ==
  /\ \A v, w \in DOMAIN lexicon : lexicon[v] = lexicon[w] => v = w
  /\ \A w \in DOMAIN lexicon :
       /\ lexicon[w] # <<>>
       /\ ~Has(lexicon[w], Breaks)
       /\ LowerOf(lexicon[w]) = lexicon[w]
       /\ Bucket(lexicon[w]) \in Buckets
  /\ \A n \in 1..line_count : \A i \in WordStarts(StoredLine(n)) :
       Lookup(lexicon, WordAt(StoredLine(n), i)) # {}

(***************************************************************************)
(* A bucket file has a record for each occurrence of its words.            *)
(***************************************************************************)
Occurs(r) ==
  /\ r.start + 1 \in DOMAIN StoredLine(r.line)
  /\ StandsAt(lexicon[r.word], StoredLine(r.line), r.start + 1)
OccInv ==
  \A b \in Buckets :
    /\ Sorted(occ[b])
    /\ ToSet(occ[b]) = {r \in Records : Bucket(lexicon[r.word]) = b /\ Occurs(r)}

CacheInv ==
  /\ pc = "index" => cache = <<>>
  /\ \A w \in DOMAIN cache : cache[w] = Postings(w)

PhaseInv ==
  /\ pc # "index" => input_pos = Len(text)
  /\ pc = "index" => query = NoQuery
  /\ pc \in {"merge", "pattern"} => query \in Queries

(***************************************************************************)
(* An intersection: what it is about, and where it has come to.            *)
(***************************************************************************)
StageWords == {lexicon[words[k]] : k \in 1..stage}
MergeInv ==
  pc = "merge" =>
    /\ ~Has(query, {Quote, Star}) /\ CountWords(query) > 1
    /\ {lexicon[w] : w \in ToSet(words)} =
         {LowerOf(WordAt(query, i)) : i \in WordStarts(query)}
    /\ ToSet(words) \subseteq DOMAIN cache
    /\ stage \in 2..Len(words)
    /\ Increasing(left) /\ Increasing(right) /\ Increasing(Written)
    /\ \A n \in ToSet(Written), m \in ToSet(left) \cup ToSet(right) : n < m
    /\ ToSet(Written) \cup (ToSet(left) \cap ToSet(right)) = LinesWith(StageWords)
    /\ IF LastStage THEN lines = <<>> /\ printed = LineNos(Written) ELSE printed = <<>>

(***************************************************************************)
(* A pattern: both streams are what is left of the caches of its words     *)
(* after some line, and no line up to one of these two is undecided.       *)
(***************************************************************************)
Remaining(records, n) == {r \in ToSet(records) : r.line > n}
PatternLines(l, r) ==
  {n \in 1..line_count : \E x \in ToSet(cache[l]), y \in ToSet(cache[r]) :
     x.line = n /\ y.line = n /\ x.start < y.start}
PatternInv ==
  pc = "pattern" =>
    /\ ~Has(query, {Quote}) /\ Has(query, {Star}) /\ IsPattern(query)
    /\ Sorted(left) /\ Sorted(right)
    /\ \A i, j \in DOMAIN printed : i < j => Earlier(printed[i], printed[j])
    /\ \E l, r \in DOMAIN cache, nl, nr \in 0..line_count :
         /\ lexicon[l] = LowerOf(LeftWord(query)) /\ lexicon[r] = LowerOf(RightWord(query))
         /\ ToSet(left) = Remaining(cache[l], nl)
         /\ ToSet(right) = Remaining(cache[r], nr)
         /\ ToSet(printed) = {LineNo(n) : n \in {m \in PatternLines(l, r) : m <= nl \/ m <= nr}}

EngineInv ==
  /\ TypeOK
  /\ OffsetsInv
  /\ LexiconInv
  /\ OccInv
  /\ CacheInv
  /\ PhaseInv
  /\ MergeInv
  /\ PatternInv
  /\ AnswersAreRight

-----------------------------------------------------------------------------
(* Finite sets of numbers, and sequences made from them.                   *)

LEMMA LeastExists ==
  ASSUME NEW S \in SUBSET Nat, S # {}
  PROVE  \E x \in S : \A y \in S : x <= y
<1> DEFINE Below == OpToRel(<, Nat)
<1>1. PICK x \in S : \A y \in S : ~(<<y, x>> \in Below)
  BY NatLessThanWellFounded, WFMin
<1>2. ASSUME NEW y \in S
      PROVE  x <= y
  <2>1. ~(y < x)
    BY <1>1 DEF OpToRel
  <2> QED BY <2>1
<1> QED BY <1>2

LEMMA MinIs ==
  ASSUME NEW S \in SUBSET Nat, S # {}
  PROVE  Min(S) \in S /\ \A y \in S : Min(S) <= y
  BY LeastExists DEF Min

LEMMA IntervalIs ==
  ASSUME NEW n \in Nat
  PROVE  IsFiniteSet(1..n) /\ Cardinality(1..n) = n
  BY FS_Interval

LEMMA SubsetOfInterval ==
  ASSUME NEW n \in Nat, NEW S, S \subseteq 1..n
  PROVE  IsFiniteSet(S) /\ Cardinality(S) \in Nat /\ S \in SUBSET Nat
<1>1. IsFiniteSet(1..n)
  BY FS_Interval
<1>2. IsFiniteSet(S)
  BY <1>1, FS_Subset
<1> QED BY <1>2, FS_CardinalityType

(***************************************************************************)
(* A numbering that gives no number twice gives all of them.               *)
(***************************************************************************)
LEMMA RanksAreAll ==
  ASSUME NEW S, IsFiniteSet(S), NEW rank \in [S -> 1..Cardinality(S)],
         \A x, y \in S : rank[x] = rank[y] => x = y
  PROVE  \A n \in 1..Cardinality(S) : \E x \in S : rank[x] = n
<1>1. Cardinality(S) \in Nat
  BY FS_CardinalityType
<1> DEFINE T == 1..Cardinality(S)
<1>2. IsFiniteSet(T) /\ Cardinality(T) = Cardinality(S)
  BY <1>1, FS_Interval
<1>3. rank \in Injection(S, T)
  BY DEF Injection, IsInjective
<1> HIDE DEF T
<1>4. rank \in Surjection(S, T)
  BY <1>2, <1>3, FS_Injection
<1> QED BY <1>4 DEF Surjection, T

LEMMA CountsDiffer ==
  ASSUME NEW S \in SUBSET Nat, IsFiniteSet(S), NEW x \in S
  PROVE  /\ Cardinality({y \in S : y <= x}) \in 1..Cardinality(S)
         /\ \A z \in S : x < z =>
              Cardinality({y \in S : y <= x}) < Cardinality({y \in S : y <= z})
<1> DEFINE Upto(z) == {y \in S : y <= z}
<1>0. ASSUME NEW z \in Nat
      PROVE  IsFiniteSet(Upto(z)) /\ Cardinality(Upto(z)) \in Nat /\ Cardinality(Upto(z)) <= Cardinality(S)
  <2>1. Upto(z) \in SUBSET S
    OBVIOUS
  <2> QED BY <2>1, FS_Subset, FS_CardinalityType
<1>1. Cardinality(S) \in Nat
  BY FS_CardinalityType
<1>2. Upto(x) # {}
  OBVIOUS
<1>3. Cardinality(Upto(x)) # 0
  BY <1>0, <1>2, FS_EmptySet
<1>4. ASSUME NEW z \in S, x < z
      PROVE  Cardinality(Upto(x)) < Cardinality(Upto(z))
  <2>0. x \in Nat /\ z \in Nat /\ \A y \in S : y \in Nat
    OBVIOUS
  <2>1. Upto(x) \in SUBSET Upto(z) /\ z \in Upto(z) /\ z \notin Upto(x)
    <3>1. \A y \in S : y <= x => y <= z
      BY <1>4, <2>0
    <3>2. z <= z /\ ~(z <= x)
      BY <1>4, <2>0
    <3> QED BY <3>1, <3>2
  <2>2. IsFiniteSet(Upto(z)) /\ Cardinality(Upto(x)) \in Nat /\ Cardinality(Upto(z)) \in Nat
    BY <1>0
  <2> HIDE DEF Upto
  <2>3. /\ Cardinality(Upto(x)) <= Cardinality(Upto(z))
        /\ Cardinality(Upto(z)) = Cardinality(Upto(x)) => Upto(z) = Upto(x)
    BY <2>1, <2>2, FS_Subset
  <2> QED BY <2>1, <2>2, <2>3
<1> QED BY <1>0, <1>1, <1>3, <1>4

LEMMA AscendingIs ==
  ASSUME NEW S \in SUBSET Nat, IsFiniteSet(S)
  PROVE  /\ Cardinality(S) \in Nat
         /\ \A n \in 1..Cardinality(S) : Ascending(S)[n] \in S
         /\ \A m, n \in 1..Cardinality(S) : m < n => Ascending(S)[m] < Ascending(S)[n]
         /\ \A x \in S : \E n \in 1..Cardinality(S) : Ascending(S)[n] = x
<1> DEFINE rank == [x \in S |-> Cardinality({y \in S : y <= x})]
<1> DEFINE N == Cardinality(S)
<1>1. N \in Nat
  BY FS_CardinalityType
<1>2. /\ \A x \in S : rank[x] \in 1..N
      /\ \A x, z \in S : x < z => rank[x] < rank[z]
  BY CountsDiffer
<1>3. rank \in [S -> 1..N]
  BY <1>2
<1>4. \A n \in 1..N : Ascending(S)[n] = CHOOSE x \in S : rank[x] = n
  BY DEF Ascending
<1> HIDE DEF rank, N
<1>5. ASSUME NEW x \in S, NEW z \in S, rank[x] = rank[z]
      PROVE  x = z
  <2>1. rank[x] \in Nat /\ rank[z] \in Nat
    BY <1>1, <1>3
  <2>2. ~(x < z) /\ ~(z < x)
    BY <1>2, <1>5, <2>1
  <2> QED BY <2>2
<1>6. \A n \in 1..N : \E x \in S : rank[x] = n
  BY <1>3, <1>5, RanksAreAll DEF N
<1>7. \A n \in 1..N : Ascending(S)[n] \in S /\ rank[Ascending(S)[n]] = n
  BY <1>4, <1>6
<1>8. ASSUME NEW m \in 1..N, NEW n \in 1..N, m < n
      PROVE  Ascending(S)[m] < Ascending(S)[n]
  <2> DEFINE x == Ascending(S)[m]
             z == Ascending(S)[n]
  <2>1. x \in S /\ z \in S /\ rank[x] = m /\ rank[z] = n
    BY <1>7
  <2>2. m \in Nat /\ n \in Nat
    BY <1>1
  <2> HIDE DEF x, z
  <2>3. x # z /\ ~(z < x)
    BY <1>2, <1>8, <2>1, <2>2
  <2>4. x < z
    BY <2>1, <2>3
  <2> QED BY <2>4 DEF x, z
<1>9. ASSUME NEW x \in S
      PROVE  \E n \in 1..N : Ascending(S)[n] = x
  <2>1. rank[x] \in 1..N
    BY <1>3
  <2>2. Ascending(S)[rank[x]] = x
    BY <1>5, <1>7, <2>1
  <2> QED BY <2>1, <2>2
<1> QED BY <1>1, <1>7, <1>8, <1>9 DEF N

Picked(e, s, S, T) ==
  /\ e \in Seq(T) /\ Len(e) = Cardinality(S)
  /\ \A x : x \in ToSet(e) <=> \E i \in S : x = s[i]
  /\ \A m, n \in 1..Len(e) : m < n => \E i, j \in S : i < j /\ e[m] = s[i] /\ e[n] = s[j]

LEMMA ElementsAtIs ==
  ASSUME NEW S \in SUBSET Nat, IsFiniteSet(S), NEW s, NEW T, \A i \in S : s[i] \in T
  PROVE  Picked(ElementsAt(s, S), s, S, T)
<1> DEFINE e == ElementsAt(s, S)
           a == Ascending(S)
           N == Cardinality(S)
<1>1. /\ N \in Nat
      /\ \A n \in 1..N : a[n] \in S
      /\ \A m, n \in 1..N : m < n => a[m] < a[n]
      /\ \A x \in S : \E n \in 1..N : a[n] = x
  BY AscendingIs
<1>2. e = [n \in 1..N |-> s[a[n]]]
  BY DEF ElementsAt
<1> HIDE DEF a, N, e
<1>3. \A n \in 1..N : s[a[n]] \in T
  BY <1>1
<1>4. e \in [1..N -> T] /\ \A n \in 1..N : e[n] = s[a[n]]
  BY <1>2, <1>3
<1>5. e \in Seq(T) /\ Len(e) = N /\ DOMAIN e = 1..N
  BY <1>1, <1>4
<1>6. ASSUME NEW x
      PROVE  x \in ToSet(e) <=> \E i \in S : x = s[i]
  <2>1. ASSUME x \in ToSet(e)
        PROVE  \E i \in S : x = s[i]
    <3>1. PICK n \in 1..N : x = e[n]
      BY <1>5, <2>1 DEF ToSet
    <3> QED BY <1>1, <1>4, <3>1
  <2>2. ASSUME NEW i \in S, x = s[i]
        PROVE  x \in ToSet(e)
    <3>1. PICK n \in 1..N : a[n] = i
      BY <1>1
    <3>2. e[n] = x
      BY <1>4, <2>2, <3>1
    <3> QED BY <1>5, <3>2 DEF ToSet
  <2> QED BY <2>1, <2>2
<1>7. ASSUME NEW m \in 1..Len(e), NEW n \in 1..Len(e), m < n
      PROVE  \E i, j \in S : i < j /\ e[m] = s[i] /\ e[n] = s[j]
  <2>1. m \in 1..N /\ n \in 1..N
    BY <1>5
  <2>2. a[m] \in S /\ a[n] \in S /\ a[m] < a[n]
    BY <1>1, <1>7, <2>1
  <2>3. e[m] = s[a[m]] /\ e[n] = s[a[n]]
    BY <1>4, <2>1
  <2> QED BY <2>2, <2>3
<1> QED BY <1>5, <1>6, <1>7 DEF e, N, Picked

-----------------------------------------------------------------------------
(* Characters and words.                                                   *)

LEMMA CharsAre ==
  ASSUME NEW c \in Chars
  PROVE  /\ Lower[c] \in Chars /\ Lower[Lower[c]] = Lower[c]
         /\ Lower[c] \in Separators <=> c \in Separators
         /\ Lower[c] = Newline <=> c = Newline
         /\ Lower[c] \in Breaks <=> c \in Breaks
<1>1. Lower[c] \in Chars /\ Lower[Lower[c]] = Lower[c]
  BY EngineAssumption
<1>2. \A x \in Separators \cup {Newline, Quote, Star} : Lower[c] = x <=> c = x
  BY EngineAssumption
<1>3. /\ Lower[c] \in Separators <=> c \in Separators
      /\ Lower[c] = Newline <=> c = Newline
  BY <1>2
<1> QED BY <1>1, <1>3 DEF Breaks

LEMMA SameLower ==
  ASSUME NEW c \in Chars, NEW d \in Chars, Lower[c] = Lower[d]
  PROVE  /\ c \in Separators <=> d \in Separators
         /\ c \in Breaks <=> d \in Breaks
         /\ c = Newline <=> d = Newline
  BY CharsAre

LEMMA LowerOfIs ==
  ASSUME NEW s \in Seq(Chars)
  PROVE  /\ LowerOf(s) \in Seq(Chars)
         /\ Len(LowerOf(s)) = Len(s)
         /\ DOMAIN LowerOf(s) = 1..Len(s)
         /\ \A i \in 1..Len(s) : LowerOf(s)[i] = Lower[s[i]]
         /\ LowerOf(LowerOf(s)) = LowerOf(s)
<1>1. DOMAIN s = 1..Len(s) /\ Len(s) \in Nat /\ \A i \in 1..Len(s) : s[i] \in Chars
  BY ElementOfSeq
<1>2. LowerOf(s) = [i \in 1..Len(s) |-> Lower[s[i]]]
  BY <1>1 DEF LowerOf
<1>3. \A i \in 1..Len(s) : Lower[s[i]] \in Chars /\ Lower[Lower[s[i]]] = Lower[s[i]]
  BY <1>1, CharsAre
<1>4. LowerOf(s) \in [1..Len(s) -> Chars]
  BY <1>2, <1>3
<1>5. /\ LowerOf(s) \in Seq(Chars) /\ Len(LowerOf(s)) = Len(s) /\ DOMAIN LowerOf(s) = 1..Len(s)
  BY <1>1, <1>4
<1>6. LowerOf(LowerOf(s)) = [i \in 1..Len(s) |-> Lower[LowerOf(s)[i]]]
  BY <1>5 DEF LowerOf
<1>7. LowerOf(LowerOf(s)) = LowerOf(s)
  BY <1>2, <1>3, <1>6
<1> QED BY <1>2, <1>5, <1>7

LEMMA LowersAgree ==
  ASSUME NEW s \in Seq(Chars), NEW t \in Seq(Chars)
  PROVE  LowerOf(s) = LowerOf(t) <=>
           Len(s) = Len(t) /\ \A i \in 1..Len(s) : Lower[s[i]] = Lower[t[i]]
<1>1. /\ LowerOf(s) \in Seq(Chars) /\ Len(LowerOf(s)) = Len(s)
      /\ \A i \in 1..Len(s) : LowerOf(s)[i] = Lower[s[i]]
      /\ LowerOf(t) \in Seq(Chars) /\ Len(LowerOf(t)) = Len(t)
      /\ \A i \in 1..Len(t) : LowerOf(t)[i] = Lower[t[i]]
  BY LowerOfIs
<1>2. ASSUME LowerOf(s) = LowerOf(t)
      PROVE  Len(s) = Len(t) /\ \A i \in 1..Len(s) : Lower[s[i]] = Lower[t[i]]
  BY <1>1, <1>2
<1>3. ASSUME Len(s) = Len(t), \A i \in 1..Len(s) : Lower[s[i]] = Lower[t[i]]
      PROVE  LowerOf(s) = LowerOf(t)
  <2>1. \A i \in 1..Len(LowerOf(s)) : LowerOf(s)[i] = LowerOf(t)[i]
    BY <1>1, <1>3
  <2> QED BY <1>1, <1>3, <2>1, SeqEqual
<1> QED BY <1>2, <1>3

(***************************************************************************)
(* SelectInSubSeq finds the first element that passes a test.              *)
(***************************************************************************)
LEMMA WordAtIs ==
  ASSUME NEW s \in Seq(Chars), NEW i \in DOMAIN s
  PROVE  \E e \in i - 1..Len(s) :
           /\ WordAt(s, i) = SubSeq(s, i, e)
           /\ WordAt(s, i) \in Seq(Chars)
           /\ Len(WordAt(s, i)) = e - i + 1
           /\ \A k \in 1..e - i + 1 : WordAt(s, i)[k] = s[i + k - 1]
           /\ \A j \in i..e : s[j] \notin Separators
           /\ e < Len(s) => s[e + 1] \in Separators
<1> DEFINE ends == {j \in i..Len(s) : s[j] \in Separators}
<1>0. i \in Nat /\ i >= 1 /\ i <= Len(s) /\ Len(s) \in Nat
  OBVIOUS
<1>1. WordAt(s, i) = SubSeq(s, i, IF (IF ends # {} THEN Min(ends) ELSE 0) = 0 THEN Len(s)
                                  ELSE (IF ends # {} THEN Min(ends) ELSE 0) - 1)
  BY DEF WordAt, SelectInSubSeq
<1>2. ends \in SUBSET Nat
  BY <1>0
<1>3. ASSUME NEW e \in i - 1..Len(s), WordAt(s, i) = SubSeq(s, i, e)
      PROVE  /\ WordAt(s, i) \in Seq(Chars)
             /\ Len(WordAt(s, i)) = e - i + 1
             /\ \A k \in 1..e - i + 1 : WordAt(s, i)[k] = s[i + k - 1]
  <2>1. \A k \in i..e : s[k] \in Chars
    BY <1>0, <1>3, ElementOfSeq
  <2> QED BY <1>0, <1>3, <2>1, SubSeqProperties
<1>4. CASE ends = {}
  <2>1. WordAt(s, i) = SubSeq(s, i, Len(s))
    BY <1>1, <1>4
  <2>2. Len(s) \in i - 1..Len(s)
    BY <1>0
  <2>3. \A j \in i..Len(s) : s[j] \notin Separators
    BY <1>4
  <2> HIDE DEF ends
  <2> DEFINE e == Len(s)
  <2>4. e \in i - 1..Len(s) /\ ~(e < Len(s)) /\ WordAt(s, i) = SubSeq(s, i, e)
        /\ \A j \in i..e : s[j] \notin Separators
    BY <1>0, <2>1, <2>2, <2>3
  <2> HIDE DEF e
  <2>5. /\ WordAt(s, i) \in Seq(Chars)
        /\ Len(WordAt(s, i)) = e - i + 1
        /\ \A k \in 1..e - i + 1 : WordAt(s, i)[k] = s[i + k - 1]
    BY <1>3, <2>4
  <2> QED BY <2>4, <2>5
<1>5. CASE ends # {}
  <2>1. Min(ends) \in ends /\ \A j \in ends : Min(ends) <= j
    BY <1>2, <1>5, MinIs
  <2>2. Min(ends) \in i..Len(s) /\ s[Min(ends)] \in Separators
    BY <2>1
  <2>3. WordAt(s, i) = SubSeq(s, i, Min(ends) - 1)
    <3>1. Min(ends) # 0
      BY <1>0, <2>2
    <3> HIDE DEF ends
    <3> QED BY <1>1, <1>5, <3>1
  <2>4. \A j \in i..Len(s) : j < Min(ends) => s[j] \notin Separators
    <3>1. \A j \in i..Len(s) : s[j] \in Separators => Min(ends) <= j
      BY <2>1
    <3> QED BY <1>0, <2>2, <3>1
  <2> HIDE DEF ends
  <2> DEFINE e == Min(ends) - 1
  <2>5. e \in i - 1..Len(s) /\ e + 1 = Min(ends) /\ e < Len(s)
    BY <1>0, <2>2
  <2>6. \A j \in i..e : s[j] \notin Separators
    BY <1>0, <2>2, <2>4
  <2>7. WordAt(s, i) = SubSeq(s, i, e) /\ s[e + 1] \in Separators
    BY <2>2, <2>3, <2>5
  <2> HIDE DEF e
  <2> QED BY <1>3, <2>5, <2>6, <2>7
<1> QED BY <1>4, <1>5

(***************************************************************************)
(* A word stands where the scanning loops find it, in any case.            *)
(***************************************************************************)
LEMMA WordStands ==
  ASSUME NEW e \in Seq(Chars), e # <<>>, ~Has(e, Breaks),
         NEW line \in Seq(Chars), ~Has(line, {Newline}), NEW i \in DOMAIN line
  PROVE  StandsAt(e, line, i) <=>
           StartsWord(line, i) /\ LowerOf(WordAt(line, i)) = LowerOf(e)
<1> DEFINE n == Len(e)
           m == Len(line)
<1>0. /\ i \in 1..m /\ i \in Nat /\ m \in Nat /\ n \in Nat /\ n > 0
      /\ DOMAIN e = 1..n
  <2>1. n # 0
    BY EmptySeq
  <2> QED BY <2>1
<1>1. /\ \A k \in 1..n : e[k] \in Chars /\ e[k] \notin Breaks
      /\ \A k \in 1..m : line[k] \in Chars /\ line[k] # Newline
  <2>1. \A k \in 1..n : e[k] \in Chars
    BY ElementOfSeq
  <2>2. \A k \in 1..n : e[k] \notin Breaks
    BY <1>0 DEF Has
  <2>3. \A k \in 1..m : line[k] \in Chars /\ line[k] # Newline
    BY ElementOfSeq DEF Has
  <2> QED BY <2>1, <2>2, <2>3
<1>2. PICK z \in i - 1..m :
           /\ WordAt(line, i) = SubSeq(line, i, z)
           /\ WordAt(line, i) \in Seq(Chars)
           /\ Len(WordAt(line, i)) = z - i + 1
           /\ \A k \in 1..z - i + 1 : WordAt(line, i)[k] = line[i + k - 1]
           /\ \A j \in i..z : line[j] \notin Separators
           /\ z < m => line[z + 1] \in Separators
  BY WordAtIs
<1> DEFINE end == i + n - 1
<1>3. end \in Nat /\ end >= i /\ end - i + 1 = n
  BY <1>0
<1>4. StandsAt(e, line, i) <=>
        /\ end <= m
        /\ \A k \in 1..n : Lower[line[i + k - 1]] = Lower[e[k]]
        /\ i > 1 => line[i - 1] \in Breaks
        /\ end < m => line[end + 1] \in Breaks
  BY <1>0 DEF StandsAt
<1>5. LowerOf(WordAt(line, i)) = LowerOf(e) <=>
        z - i + 1 = n /\ \A k \in 1..n : Lower[line[i + k - 1]] = Lower[e[k]]
  <2>1. LowerOf(WordAt(line, i)) = LowerOf(e) <=>
          z - i + 1 = n /\ \A k \in 1..z - i + 1 : Lower[WordAt(line, i)[k]] = Lower[e[k]]
    <3> DEFINE w == WordAt(line, i)
    <3>1. w \in Seq(Chars) /\ Len(w) = z - i + 1
      BY <1>2
    <3> HIDE DEF w
    <3>2. LowerOf(w) = LowerOf(e) <=> Len(w) = Len(e) /\ \A k \in 1..Len(w) : Lower[w[k]] = Lower[e[k]]
      BY <3>1, LowersAgree
    <3> QED BY <3>1, <3>2 DEF w
  <2> QED BY <1>2, <2>1
<1> HIDE DEF n, m, end
<1>6. ASSUME StandsAt(e, line, i)
      PROVE  StartsWord(line, i) /\ LowerOf(WordAt(line, i)) = LowerOf(e)
  <2>1. \A k \in i..end : line[k] \notin Separators
    <3>1. ASSUME NEW k \in i..end
          PROVE  line[k] \notin Separators
      <4>1. k - i + 1 \in 1..n /\ i + (k - i + 1) - 1 = k /\ k \in 1..m
        BY <1>0, <1>3, <1>4, <1>6, SMTT(40)
      <4>2. Lower[line[k]] = Lower[e[k - i + 1]]
        BY <1>4, <1>6, <4>1
      <4>3. line[k] \in Chars /\ e[k - i + 1] \in Chars /\ e[k - i + 1] \notin Breaks
        BY <1>1, <4>1
      <4>4. line[k] \notin Breaks
        BY <4>2, <4>3, SameLower
      <4> QED BY <4>4 DEF Breaks
    <3> QED BY <3>1
  <2>2. i > 1 => line[i - 1] \in Separators
    <3>1. i > 1 => i - 1 \in 1..m
      BY <1>0
    <3> QED BY <1>1, <1>4, <1>6, <3>1 DEF Breaks
  <2>3. line[i] \notin Separators
    BY <1>0, <1>3, <2>1
  <2>4. StartsWord(line, i)
    BY <1>0, <2>2, <2>3 DEF StartsWord
  <2>5. end < m => line[end + 1] \in Separators
    <3>1. end < m => end + 1 \in 1..m
      BY <1>0, <1>3
    <3> QED BY <1>1, <1>4, <1>6, <3>1 DEF Breaks
  <2>6. ~(z < end)
    <3>1. SUFFICES ASSUME z < end PROVE FALSE
      OBVIOUS
    <3>2. z + 1 \in i..end /\ z < m
      BY <1>0, <1>2, <1>3, <1>4, <1>6, <3>1, SMTT(40)
    <3> QED BY <1>2, <2>1, <3>2
  <2>7. ~(end < z)
    <3>1. SUFFICES ASSUME end < z PROVE FALSE
      OBVIOUS
    <3>2. end + 1 \in i..z /\ end < m
      BY <1>0, <1>2, <1>3, <3>1
    <3> QED BY <1>2, <2>5, <3>2
  <2>8. z = end
    BY <1>0, <1>2, <1>3, <2>6, <2>7
  <2>9. z - i + 1 = n
    BY <1>3, <2>8
  <2> QED BY <1>4, <1>5, <1>6, <2>4, <2>9
<1>7. ASSUME StartsWord(line, i), LowerOf(WordAt(line, i)) = LowerOf(e)
      PROVE  StandsAt(e, line, i)
  <2>1. z - i + 1 = n /\ \A k \in 1..n : Lower[line[i + k - 1]] = Lower[e[k]]
    BY <1>5, <1>7
  <2>2. z = end /\ end <= m
    BY <1>0, <1>2, <2>1, SMTT(40) DEF end
  <2>3. i > 1 => line[i - 1] \in Breaks
    BY <1>0, <1>7 DEF StartsWord, Breaks
  <2>4. end < m => line[end + 1] \in Breaks
    BY <1>2, <2>2 DEF Breaks
  <2> QED BY <1>4, <2>1, <2>2, <2>3, <2>4
<1> QED BY <1>6, <1>7

LEMMA StandsInAnyCase ==
  ASSUME NEW s \in Seq(Chars), NEW t \in Seq(Chars), LowerOf(s) = LowerOf(t), NEW x, NEW i
  PROVE  StandsAt(s, x, i) <=> StandsAt(t, x, i)
<1>1. Len(s) = Len(t) /\ \A k \in 1..Len(s) : Lower[s[k]] = Lower[t[k]]
  BY LowersAgree
<1>2. DOMAIN s = 1..Len(s) /\ DOMAIN t = 1..Len(t)
  OBVIOUS
<1> QED BY <1>1, <1>2 DEF StandsAt

LEMMA SumIs ==
  ASSUME NEW i \in Nat, NEW m \in Nat, NEW k \in Int, k + i = m + 2
  PROVE  i + k - 1 = m + 1
  OBVIOUS

(***************************************************************************)
(* What stands in a line of a text stands in the text, and the other way.  *)
(***************************************************************************)
LEMMA StandsInLine ==
  ASSUME NEW t \in Seq(Chars), NEW off \in Nat,
         NEW line \in Seq(Chars), ~Has(line, {Newline}),
         off + Len(line) <= Len(t),
         \A k \in 1..Len(line) : line[k] = t[off + k],
         off > 0 => t[off] = Newline,
         off + Len(line) < Len(t) => t[off + Len(line) + 1] = Newline,
         NEW s \in Seq(Chars), s # <<>>, ~Has(s, {Newline}),
         NEW i \in DOMAIN line
  PROVE  StandsAt(s, t, off + i) <=> StandsAt(s, line, i)
<1> DEFINE n == Len(s)
           m == Len(line)
           N == Len(t)
           end == i + n - 1
<1>0. /\ i \in 1..m /\ i \in Nat /\ m \in Nat /\ n \in Nat /\ n > 0 /\ N \in Nat
      /\ DOMAIN s = 1..n
  <2>1. n # 0
    BY EmptySeq
  <2> QED BY <2>1
<1>1. /\ \A k \in 1..n : s[k] \in Chars /\ s[k] # Newline
      /\ \A k \in 1..m : line[k] \in Chars /\ line[k] # Newline
      /\ \A k \in 1..N : t[k] \in Chars
  <2>1. \A k \in 1..n : s[k] \in Chars /\ s[k] # Newline
    BY <1>0, ElementOfSeq DEF Has
  <2>3. \A k \in 1..m : line[k] \in Chars /\ line[k] # Newline
    BY ElementOfSeq DEF Has
  <2> QED BY <2>1, <2>3, ElementOfSeq
<1>2. end \in Nat /\ end >= i
  BY <1>0
<1>3. StandsAt(s, line, i) <=>
        /\ end <= m
        /\ \A k \in 1..n : Lower[line[i + k - 1]] = Lower[s[k]]
        /\ i > 1 => line[i - 1] \in Breaks
        /\ end < m => line[end + 1] \in Breaks
  BY <1>0 DEF StandsAt
<1>4. StandsAt(s, t, off + i) <=>
        /\ off + end <= N
        /\ \A k \in 1..n : Lower[t[off + (i + k - 1)]] = Lower[s[k]]
        /\ off + i > 1 => t[off + i - 1] \in Breaks
        /\ off + end < N => t[off + end + 1] \in Breaks
  <2>1. off + i + Len(s) - 1 = off + end
    BY <1>0
  <2>2. \A k \in 1..n : off + i + k - 1 = off + (i + k - 1)
    BY <1>0
  <2>3. StandsAt(s, t, off + i) <=>
          /\ off + i + Len(s) - 1 <= N
          /\ \A k \in 1..n : Lower[t[off + i + k - 1]] = Lower[s[k]]
          /\ off + i > 1 => t[off + i - 1] \in Breaks
          /\ off + i + Len(s) - 1 < N => t[off + i + Len(s) - 1 + 1] \in Breaks
    <3> DEFINE j == off + i
    <3> HIDE DEF j
    <3>1. StandsAt(s, t, j) <=>
            /\ j + Len(s) - 1 <= Len(t)
            /\ \A k \in DOMAIN s : Lower[t[j + k - 1]] = Lower[s[k]]
            /\ j > 1 => t[j - 1] \in Breaks
            /\ j + Len(s) - 1 < Len(t) => t[j + Len(s) - 1 + 1] \in Breaks
      BY Zenon DEF StandsAt
    <3>2. DOMAIN s = 1..n /\ N = Len(t)
      BY <1>0
    <3> HIDE DEF n, N
    <3>3. (\A k \in DOMAIN s : Lower[t[j + k - 1]] = Lower[s[k]]) <=>
            (\A k \in 1..n : Lower[t[j + k - 1]] = Lower[s[k]])
      BY <3>2
    <3>4. StandsAt(s, t, j) <=>
            /\ j + Len(s) - 1 <= N
            /\ \A k \in 1..n : Lower[t[j + k - 1]] = Lower[s[k]]
            /\ j > 1 => t[j - 1] \in Breaks
            /\ j + Len(s) - 1 < N => t[j + Len(s) - 1 + 1] \in Breaks
      BY <3>1, <3>2, <3>3, Zenon
    <3> QED BY <3>4 DEF j
  <2> HIDE DEF end, n, N
  <2> QED BY <2>1, <2>2, <2>3
<1>5. /\ off + m <= N
      /\ \A k \in 1..m : line[k] = t[off + k]
      /\ off > 0 => t[off] = Newline
      /\ off + m < N => t[off + m + 1] = Newline
  OBVIOUS
<1> HIDE DEF n, m, N, end
<1>6. Newline \in Breaks
  BY DEF Breaks
<1>7. i = 1 => (off + i > 1 => t[off + i - 1] \in Breaks)
  BY <1>0, <1>5, <1>6
<1>8. i > 1 => (line[i - 1] = t[off + i - 1])
  <2>1. i > 1 => i - 1 \in 1..m /\ off + (i - 1) = off + i - 1
    BY <1>0
  <2> QED BY <1>5, <2>1
<1>9. (off + i > 1 => t[off + i - 1] \in Breaks) <=> (i > 1 => line[i - 1] \in Breaks)
  <2>1. i = 1 \/ (i > 1 /\ off + i > 1)
    BY <1>0
  <2>2. i = 1 => ~(i > 1)
    OBVIOUS
  <2> QED BY <1>7, <1>8, <2>1, <2>2
<1>10. ASSUME end <= m
       PROVE  StandsAt(s, t, off + i) <=> StandsAt(s, line, i)
  <2>1. \A k \in 1..n : line[i + k - 1] = t[off + (i + k - 1)]
    <3>1. \A k \in 1..n : i + k - 1 \in 1..m
      BY <1>0, <1>2, <1>10, SMTT(40) DEF end
    <3> QED BY <1>5, <3>1
  <2>2. off + end <= N
    BY <1>0, <1>2, <1>5, <1>10
  <2>3. (off + end < N => t[off + end + 1] \in Breaks) <=> (end < m => line[end + 1] \in Breaks)
    <3>1. CASE end < m
      <4>1. end + 1 \in 1..m /\ off + end < N /\ off + (end + 1) = off + end + 1
        BY <1>0, <1>2, <1>5, <3>1
      <4>2. line[end + 1] = t[off + end + 1]
        BY <1>5, <4>1
      <4> QED BY <3>1, <4>1, <4>2
    <3>2. CASE end = m
      <4>1. off + end < N => t[off + end + 1] \in Breaks
        BY <1>5, <1>6, <3>2
      <4>2. ~(end < m)
        BY <1>0, <3>2
      <4> QED BY <4>1, <4>2
    <3> QED BY <1>0, <1>2, <1>10, <3>1, <3>2
  <2>4. (\A k \in 1..n : Lower[line[i + k - 1]] = Lower[s[k]]) <=>
          (\A k \in 1..n : Lower[t[off + (i + k - 1)]] = Lower[s[k]])
    BY <2>1
  <2> QED BY <1>3, <1>4, <1>9, <1>10, <2>2, <2>3, <2>4
<1>11. ASSUME ~(end <= m)
       PROVE  ~StandsAt(s, t, off + i)
  <2>1. SUFFICES ASSUME StandsAt(s, t, off + i) PROVE FALSE
    OBVIOUS
  <2>2. off + end <= N /\ \A k \in 1..n : Lower[t[off + (i + k - 1)]] = Lower[s[k]]
    BY <1>4, <2>1
  <2> DEFINE k == m + 1 - i + 1
  <2>3. k \in 1..n /\ off + (i + k - 1) = off + m + 1 /\ off + m < N /\ off + m + 1 \in 1..N
    <3>1. end = i + n - 1
      BY DEF end
    <3>2. k = m + 2 - i /\ k \in Int
      BY <1>0
    <3> HIDE DEF k
    <3>3. k >= 1 /\ k <= n /\ i + k - 1 = m + 1
      <4>1. i \in Nat /\ m \in Nat /\ n \in Nat /\ end > m /\ i <= m
        BY <1>0, <1>2, <1>11
      <4>2. end = i + n - 1 /\ k = m + 2 - i /\ k \in Int /\ k + i = m + 2
        BY <3>1, <3>2, <4>1, SMTT(40)
      <4>3. k >= 1
        BY <4>1, <4>2
      <4>4. k <= n
        BY <4>1, <4>2, SMTT(40)
      <4>5. i + k - 1 = m + 1
        BY <4>1, <4>2, SumIs
      <4> QED BY <4>3, <4>4, <4>5
    <3>4. off + end <= N /\ off \in Nat
      BY <2>2
    <3>5. off + m < N
      BY <1>0, <1>2, <1>11, <3>4
    <3> QED BY <1>0, <3>2, <3>3, <3>4, <3>5
  <2>4. t[off + m + 1] = Newline /\ t[off + m + 1] \in Chars
    BY <1>1, <1>5, <2>3
  <2>5. Lower[t[off + m + 1]] = Lower[s[k]]
    BY <2>2, <2>3
  <2>6. s[k] \in Chars /\ s[k] # Newline
    BY <1>1, <2>3
  <2> QED BY <2>4, <2>5, <2>6, SameLower
<1>12. ~(end <= m) => ~StandsAt(s, line, i)
  BY <1>3
<1> QED BY <1>10, <1>11, <1>12

-----------------------------------------------------------------------------
(* Lines and where they are.                                               *)

LEMMA TextIs ==
  ASSUME TypeOK
  PROVE  /\ text \in Seq(Chars) /\ Len(text) \in Nat /\ DOMAIN text = 1..Len(text)
         /\ \A p \in 1..Len(text) : text[p] \in Chars
         /\ input_pos \in Nat /\ input_pos <= Len(text)
         /\ line_count \in Nat
         /\ offsets \in Seq(0..Len(text)) /\ Len(offsets) \in Nat
         /\ \A n \in 1..Len(offsets) : offsets[n] \in Nat /\ offsets[n] <= Len(text)
<1>1. text \in Seq(Chars)
  BY EngineAssumption DEF TypeOK
<1>2. Len(text) \in Nat /\ DOMAIN text = 1..Len(text) /\ \A p \in 1..Len(text) : text[p] \in Chars
  BY <1>1, ElementOfSeq
<1>3. offsets \in Seq(0..Len(text)) /\ input_pos \in 0..Len(text) /\ line_count \in 0..Len(text)
  BY DEF TypeOK
<1>4. Len(offsets) \in Nat /\ \A n \in 1..Len(offsets) : offsets[n] \in 0..Len(text)
  BY <1>3, ElementOfSeq
<1> QED BY <1>1, <1>2, <1>3, <1>4

LEMMA ReadLineIs ==
  ASSUME TypeOK, input_pos < Len(text)
  PROVE  LET line == ReadLine(input_pos)
             data == line.data
             new == input_pos + Len(data) + line.had_newline
         IN /\ data \in Seq(Chars) /\ ~Has(data, {Newline})
            /\ Len(data) \in Nat /\ new \in Nat /\ input_pos < new /\ new <= Len(text)
            /\ \A k \in 1..Len(data) : data[k] = text[input_pos + k]
            /\ \/ new = input_pos + Len(data) + 1 /\ text[new] = Newline
               \/ new = input_pos + Len(data) /\ new = Len(text)
            /\ \A p \in input_pos + 1..new : p < new => text[p] # Newline
<1> DEFINE ends == {j \in input_pos + 1..Len(text) : text[j] = Newline}
           nl == IF ends # {} THEN Min(ends) ELSE 0
           end == IF nl = 0 THEN Len(text) ELSE nl - 1
           line == ReadLine(input_pos)
           data == line.data
           new == input_pos + Len(data) + line.had_newline
<1>0. /\ text \in Seq(Chars) /\ Len(text) \in Nat /\ input_pos \in Nat
      /\ \A p \in 1..Len(text) : text[p] \in Chars
  BY TextIs
<1>1. line = [data |-> SubSeq(text, input_pos + 1, end), had_newline |-> IF nl = 0 THEN 0 ELSE 1]
  BY DEF ReadLine, SelectInSubSeq
<1>2. data = SubSeq(text, input_pos + 1, end) /\ line.had_newline = IF nl = 0 THEN 0 ELSE 1
  <2> HIDE DEF end, nl, line
  <2> QED BY <1>1
<1>3. /\ end \in input_pos..Len(text)
      /\ \/ nl = 0 /\ end = Len(text)
         \/ nl # 0 /\ end + 1 = nl /\ nl \in Nat /\ nl <= Len(text) /\ text[nl] = Newline
      /\ \A p \in input_pos + 1..end : text[p] # Newline
  <2>1. CASE ends = {}
    <3>1. nl = 0 /\ end = Len(text)
      BY <2>1
    <3>2. \A p \in input_pos + 1..Len(text) : text[p] # Newline
      BY <2>1
    <3> HIDE DEF end, nl, ends
    <3> QED BY <1>0, <3>1, <3>2
  <2>2. CASE ends # {}
    <3>1. ends \in SUBSET Nat
      BY <1>0
    <3>2. nl = Min(ends) /\ nl \in ends /\ \A j \in ends : nl <= j
      BY <2>2, <3>1, MinIs
    <3> HIDE DEF nl
    <3>3. nl \in input_pos + 1..Len(text) /\ text[nl] = Newline
      BY <3>2
    <3>4. \A j \in input_pos + 1..Len(text) : text[j] = Newline => nl <= j
      BY <3>2
    <3>5. nl # 0 /\ end = nl - 1
      BY <1>0, <3>3
    <3> HIDE DEF end, ends
    <3> QED BY <1>0, <3>3, <3>4, <3>5
  <2> QED BY <2>1, <2>2
<1> HIDE DEF end, nl, line, ends
<1>4. /\ data \in Seq(Chars) /\ Len(data) = end - input_pos
      /\ \A k \in 1..end - input_pos : data[k] = text[input_pos + k]
  <2>1. \A k \in input_pos + 1..end : text[k] \in Chars
    BY <1>0, <1>3
  <2>2. /\ SubSeq(text, input_pos + 1, end) \in Seq(Chars)
        /\ Len(SubSeq(text, input_pos + 1, end)) = IF input_pos + 1 <= end THEN end - (input_pos + 1) + 1 ELSE 0
        /\ \A k \in 1..end - (input_pos + 1) + 1 :
             SubSeq(text, input_pos + 1, end)[k] = text[input_pos + 1 + k - 1]
    BY <1>0, <1>3, <2>1, SubSeqProperties
  <2>3. /\ (IF input_pos + 1 <= end THEN end - (input_pos + 1) + 1 ELSE 0) = end - input_pos
        /\ end - (input_pos + 1) + 1 = end - input_pos
        /\ \A k \in 1..end - input_pos : input_pos + 1 + k - 1 = input_pos + k
    BY <1>0, <1>3
  <2> HIDE DEF data
  <2> QED BY <1>2, <2>2, <2>3
<1>5. ~Has(data, {Newline})
  <2>1. DOMAIN data = 1..end - input_pos
    BY <1>4
  <2>2. \A k \in 1..end - input_pos : data[k] # Newline
    <3>1. \A k \in 1..end - input_pos : input_pos + k \in input_pos + 1..end
      BY <1>0, <1>3
    <3> HIDE DEF data
    <3> QED BY <1>3, <1>4, <3>1
  <2> HIDE DEF data
  <2> QED BY <2>1, <2>2 DEF Has
<1>6. \/ line.had_newline = 0 /\ end = Len(text)
      \/ line.had_newline = 1 /\ end + 1 \in Nat /\ end + 1 <= Len(text) /\ text[end + 1] = Newline
  BY <1>2, <1>3
<1>7. Len(data) \in Nat /\ input_pos + Len(data) = end /\ end \in Nat
  BY <1>0, <1>3, <1>4
<1>8. new = end + line.had_newline
  BY <1>7
<1> HIDE DEF data, new
<1>9. /\ new \in Nat /\ input_pos < new /\ new <= Len(text)
      /\ \/ new = input_pos + Len(data) + 1 /\ text[new] = Newline
         \/ new = input_pos + Len(data) /\ new = Len(text)
  BY <1>0, <1>3, <1>6, <1>7, <1>8
<1>10. \A p \in input_pos + 1..new : p < new => text[p] # Newline
  BY <1>0, <1>3, <1>6, <1>7, <1>8
<1>11. \A k \in 1..Len(data) : data[k] = text[input_pos + k]
  BY <1>4, <1>7
<1> QED BY <1>4, <1>5, <1>7, <1>9, <1>10, <1>11 DEF new, data, line

(***************************************************************************)
(* What index_read_line makes of the text between two offsets.             *)
(***************************************************************************)
Cut(t, from, to) ==
  LET data == SubSeq(t, from + 1, to)
  IN IF data # <<>> /\ Last(data) = Newline THEN Front(data) ELSE data

CutOut(t, from, to, d, n) ==
  /\ d \in Seq(Chars) /\ ~Has(d, {Newline}) /\ Len(d) = n /\ n \in Nat
  /\ \A k \in 1..n : d[k] = t[from + k]
  /\ from + n <= Len(t) /\ from + n <= to /\ to <= from + n + 1
  /\ from + n < Len(t) => t[from + n + 1] = Newline
LEMMA CutIs ==
  ASSUME NEW t \in Seq(Chars), NEW from \in Nat, NEW to \in Nat, from < to, to <= Len(t),
         \A p \in from + 1..to : p < to => t[p] # Newline,
         to < Len(t) => t[to] = Newline,
         NEW d, d = Cut(t, from, to),
         NEW n, n = IF t[to] = Newline THEN to - from - 1 ELSE to - from
  PROVE  CutOut(t, from, to, d, n)
<1> USE DEF CutOut
<1> DEFINE data == SubSeq(t, from + 1, to)
           m == to - from
<1>0. Len(t) \in Nat /\ \A p \in 1..Len(t) : t[p] \in Chars
  BY ElementOfSeq
<1>1. /\ data \in Seq(Chars) /\ Len(data) = m /\ m \in Nat /\ m > 0
      /\ \A k \in 1..m : data[k] = t[from + k]
  <2>1. \A k \in from + 1..to : t[k] \in Chars
    BY <1>0
  <2>2. /\ data \in Seq(Chars)
        /\ Len(data) = IF from + 1 <= to THEN to - (from + 1) + 1 ELSE 0
        /\ \A k \in 1..to - (from + 1) + 1 : data[k] = t[from + 1 + k - 1]
    BY <2>1, SubSeqProperties
  <2>3. /\ (IF from + 1 <= to THEN to - (from + 1) + 1 ELSE 0) = m
        /\ to - (from + 1) + 1 = m /\ m \in Nat /\ m > 0
        /\ \A k \in 1..m : from + 1 + k - 1 = from + k
    OBVIOUS
  <2> HIDE DEF data, m
  <2> QED BY <2>2, <2>3
<1>2. from + m = to
  OBVIOUS
<1>3. Cut(t, from, to) = IF data # <<>> /\ Last(data) = Newline THEN Front(data) ELSE data
  BY DEF Cut
<1> HIDE DEF data, m
<1>4. data # <<>> /\ Last(data) = t[to]
  BY <1>1, <1>2 DEF Last
<1>5. CASE t[to] = Newline
  <2>1. Cut(t, from, to) = SubSeq(data, 1, m - 1)
    BY <1>1, <1>3, <1>4, <1>5 DEF Front
  <2>2. \A k \in 1..m - 1 : data[k] \in Chars
    BY <1>1, ElementOfSeq
  <2>3. m - 1 \in Nat
    BY <1>1
  <2>4. /\ Cut(t, from, to) \in Seq(Chars) /\ Len(Cut(t, from, to)) = m - 1
        /\ \A k \in 1..m - 1 : Cut(t, from, to)[k] = data[k]
    <3>1. /\ SubSeq(data, 1, m - 1) \in Seq(Chars)
          /\ Len(SubSeq(data, 1, m - 1)) = IF 1 <= m - 1 THEN m - 1 - 1 + 1 ELSE 0
          /\ \A k \in 1..m - 1 - 1 + 1 : SubSeq(data, 1, m - 1)[k] = data[1 + k - 1]
      BY <2>2, <2>3, SubSeqProperties
    <3>2. m - 1 - 1 + 1 = m - 1 /\ \A k \in 1..m - 1 : 1 + k - 1 = k
      BY <2>3
    <3> QED BY <2>1, <2>3, <3>1, <3>2
  <2>5. n = m - 1
    BY <1>5 DEF m
  <2>6. d \in Seq(Chars) /\ Len(d) = n /\ \A k \in 1..n : d[k] = t[from + k]
    <3>1. \A k \in 1..n : k \in 1..m
      BY <1>1, <2>5
    <3> QED BY <1>1, <2>4, <2>5, <3>1
  <2>7. from + n + 1 = to /\ n \in Nat
    BY <1>1, <1>2, <2>5
  <2>8. ~Has(d, {Newline})
    <3>1. \A k \in 1..n : from + k \in from + 1..to /\ from + k < to
      BY <2>7
    <3>2. DOMAIN d = 1..n
      BY <2>6
    <3> QED BY <2>6, <3>1, <3>2 DEF Has
  <2> QED BY <1>5, <2>6, <2>7, <2>8, <1>0
<1>6. CASE t[to] # Newline
  <2>1. d = data
    BY <1>3, <1>4, <1>6
  <2>2. n = m
    BY <1>6 DEF m
  <2>3. d \in Seq(Chars) /\ Len(d) = n /\ \A k \in 1..n : d[k] = t[from + k]
    BY <1>1, <2>1, <2>2
  <2>4. from + n = to /\ n \in Nat /\ to = Len(t)
    BY <1>0, <1>1, <1>2, <1>6, <2>2
  <2>5. ~Has(d, {Newline})
    <3>1. \A k \in 1..n : from + k \in from + 1..to /\ (from + k < to \/ from + k = to)
      BY <2>4
    <3>2. DOMAIN d = 1..n
      BY <2>3
    <3>3. \A k \in 1..n : t[from + k] # Newline
      BY <1>6, <3>1
    <3> QED BY <2>3, <3>2, <3>3 DEF Has
  <2> QED BY <2>3, <2>4, <2>5, <1>0
<1> QED BY <1>5, <1>6

LEMMA BeginIs ==
  ASSUME TypeOK, NEW p \in Begins
  PROVE  p \in Nat /\ p > 0 /\ p <= Len(text) /\ (p = 1 \/ text[p - 1] = Newline)
<1>1. p \in DOMAIN text /\ (p = 1 \/ text[p - 1] = Newline)
  BY DEF Begins
<1>2. p \in 1..Len(text) /\ Len(text) \in Nat
  BY <1>1, TextIs
<1> QED BY <1>1, <1>2

LEMMA LineIs ==
  ASSUME TypeOK, OffsetsInv, NEW n \in 1..line_count
  PROVE  LET d == StoredLine(n)
             off == offsets[n]
         IN /\ n \in Nat /\ n > 0 /\ off \in Nat /\ offsets[n + 1] \in Nat
            /\ off < offsets[n + 1] /\ offsets[n + 1] <= Len(text)
            /\ d \in Seq(Chars) /\ ~Has(d, {Newline}) /\ Len(d) \in Nat /\ DOMAIN d = 1..Len(d)
            /\ \A k \in 1..Len(d) : d[k] = text[off + k]
            /\ off + Len(d) <= Len(text)
            /\ off + Len(d) <= offsets[n + 1] /\ offsets[n + 1] <= off + Len(d) + 1
            /\ off > 0 => text[off] = Newline
            /\ off + Len(d) < Len(text) => text[off + Len(d) + 1] = Newline
            /\ off + Len(d) < offsets[n + 1] => text[off + Len(d) + 1] = Newline
<1> DEFINE off == offsets[n]
           to == offsets[n + 1]
           d == StoredLine(n)
<1>1. /\ text \in Seq(Chars) /\ Len(text) \in Nat /\ line_count \in Nat
      /\ \A k \in 1..Len(offsets) : offsets[k] \in Nat /\ offsets[k] <= Len(text)
      /\ DOMAIN text = 1..Len(text)
  BY TextIs
<1>2. n \in Nat /\ n > 0 /\ n \in 1..Len(offsets) /\ n + 1 \in 1..Len(offsets)
  BY <1>1 DEF OffsetsInv
<1>3. off \in Nat /\ to \in Nat /\ to <= Len(text)
  BY <1>1, <1>2
<1>4. /\ off < to /\ off + 1 \in Begins
      /\ to < Len(text) => text[to] = Newline
      /\ \A p \in off + 1..to : p < to => text[p] # Newline
  BY DEF OffsetsInv, Stretch
<1>5. d = Cut(text, off, to)
  BY DEF StoredLine, Cut
<1>6. off > 0 => text[off] = Newline
  <2>1. SUFFICES ASSUME NEW b \in Begins, b = off + 1, off > 0
                 PROVE  text[off] = Newline
    BY <1>4
  <2>2. b = 1 \/ text[b - 1] = Newline
    BY BeginIs
  <2> HIDE DEF off
  <2>3. b # 1 /\ b - 1 = off
    BY <1>3, <2>1
  <2> QED BY <2>2, <2>3
<1> HIDE DEF off, to, d
<1> DEFINE m == IF text[to] = Newline THEN to - off - 1 ELSE to - off
<1>7. /\ d \in Seq(Chars) /\ ~Has(d, {Newline}) /\ Len(d) = m /\ m \in Nat
      /\ \A k \in 1..m : d[k] = text[off + k]
      /\ off + m <= Len(text) /\ off + m <= to /\ to <= off + m + 1
      /\ off + m < Len(text) => text[off + m + 1] = Newline
  <2>1. m = IF text[to] = Newline THEN to - off - 1 ELSE to - off
    OBVIOUS
  <2> HIDE DEF m
  <2>2. CutOut(text, off, to, d, m)
    BY <1>1, <1>3, <1>4, <1>5, <2>1, CutIs
  <2> QED BY <2>2 DEF CutOut
<1>8. off + m < to => text[off + m + 1] = Newline
  <2> HIDE DEF m
  <2> QED BY <1>3, <1>7
<1> HIDE DEF m
<1>9. DOMAIN d = 1..Len(d)
  BY <1>7
<1> QED BY <1>2, <1>3, <1>4, <1>6, <1>7, <1>8, <1>9 DEF off, to, d

LEMMA BeginsAreFinite ==
  ASSUME TypeOK
  PROVE  /\ Begins \in SUBSET Nat /\ IsFiniteSet(Begins) /\ Cardinality(Begins) \in Nat
         /\ \A p : /\ IsFiniteSet({b \in Begins : b <= p})
                   /\ CountBegins(p) \in Nat /\ CountBegins(p) <= Cardinality(Begins)
<1>1. Len(text) \in Nat /\ Begins \subseteq 1..Len(text)
  BY TextIs DEF Begins
<1>2. Begins \in SUBSET Nat /\ IsFiniteSet(Begins) /\ Cardinality(Begins) \in Nat
  BY <1>1, SubsetOfInterval
<1>3. ASSUME NEW p
      PROVE  /\ IsFiniteSet({b \in Begins : b <= p})
             /\ CountBegins(p) \in Nat /\ CountBegins(p) <= Cardinality(Begins)
  <2>1. {b \in Begins : b <= p} \in SUBSET Begins
    OBVIOUS
  <2> QED BY <1>2, <2>1, FS_Subset, FS_CardinalityType DEF CountBegins
<1> QED BY <1>2, <1>3

LEMMA PlaceIs ==
  ASSUME TypeOK, OffsetsInv, NEW n \in 1..line_count, NEW p \in Stretch(n)
  PROVE  PlaceOf(p) = <<n, p - offsets[n] - 1>>
<1> DEFINE before == {b \in Begins : b <= p}
           first == offsets[n] + 1
<1>1. /\ offsets[n] \in Nat /\ offsets[n + 1] \in Nat /\ first \in Nat
      /\ p \in Nat /\ first <= p /\ p <= offsets[n + 1] /\ offsets[n + 1] <= Len(text)
  BY LineIs DEF Stretch
<1>2. Cardinality(before) = n
  BY DEF OffsetsInv, CountBegins
<1>3. first \in before
  BY <1>1 DEF OffsetsInv
<1>4. before \in SUBSET Nat
  BY BeginsAreFinite
<1>5. ASSUME NEW b \in before
      PROVE  b <= first
  <2>1. SUFFICES ASSUME ~(b <= first) PROVE FALSE
    OBVIOUS
  <2>2. b \in Nat /\ b <= p /\ (b = 1 \/ text[b - 1] = Newline)
    BY <1>4 DEF Begins
  <2>3. b - 1 \in Stretch(n) /\ b - 1 < offsets[n + 1] /\ b # 1
    BY <1>1, <2>1, <2>2 DEF Stretch
  <2>4. text[b - 1] # Newline
    BY <2>3 DEF OffsetsInv
  <2> QED BY <2>2, <2>3, <2>4
<1> HIDE DEF before, first
<1>6. Max(before) \in before /\ \A y \in before : Max(before) >= y
  <2>1. \A y \in before : first >= y
    BY <1>1, <1>4, <1>5
  <2> QED BY <1>3, <2>1 DEF Max
<1>7. Max(before) = first
  <2>1. Max(before) \in Nat /\ Max(before) >= first /\ Max(before) <= first
    BY <1>3, <1>4, <1>5, <1>6
  <2> QED BY <1>1, <2>1
<1>8. PlaceOf(p) = <<Cardinality(before), p - Max(before)>>
  BY DEF PlaceOf, before
<1>9. p - first = p - offsets[n] - 1
  BY <1>1 DEF first
<1> QED BY <1>2, <1>7, <1>8, <1>9

(***************************************************************************)
(* The places of a word or phrase in the lines that have been read.        *)
(***************************************************************************)
PlaceInLines(s, x) ==
  \E n \in 1..line_count : \E i \in DOMAIN StoredLine(n) :
    StandsAt(s, StoredLine(n), i) /\ x = <<n, i - 1>>

LEMMA PlacesAre ==
  ASSUME TypeOK, OffsetsInv,
         NEW s \in Seq(Chars), s # <<>>, ~Has(s, {Newline}), NEW x
  PROVE  (x \in Places(s) /\ x[1] <= line_count) <=> PlaceInLines(s, x)
<1>0. /\ text \in Seq(Chars) /\ Len(text) \in Nat /\ DOMAIN text = 1..Len(text)
      /\ \A p \in 1..Len(text) : text[p] \in Chars
      /\ input_pos \in Nat /\ input_pos <= Len(text) /\ line_count \in Nat
  BY TextIs
<1>1. ASSUME NEW n \in 1..line_count, NEW i \in DOMAIN StoredLine(n)
      PROVE  /\ StandsAt(s, text, offsets[n] + i) <=> StandsAt(s, StoredLine(n), i)
             /\ offsets[n] + i \in Stretch(n) /\ offsets[n] + i \in DOMAIN text
             /\ PlaceOf(offsets[n] + i) = <<n, i - 1>>
  <2> DEFINE d == StoredLine(n)
             off == offsets[n]
  <2>1. /\ off \in Nat /\ offsets[n + 1] \in Nat /\ d \in Seq(Chars) /\ ~Has(d, {Newline})
        /\ Len(d) \in Nat /\ DOMAIN d = 1..Len(d)
        /\ \A k \in 1..Len(d) : d[k] = text[off + k]
        /\ off + Len(d) <= Len(text) /\ off + Len(d) <= offsets[n + 1]
        /\ off > 0 => text[off] = Newline
        /\ off + Len(d) < Len(text) => text[off + Len(d) + 1] = Newline
    BY LineIs
  <2>2. i \in DOMAIN d
    OBVIOUS
  <2> HIDE DEF d
  <2>3. StandsAt(s, text, off + i) <=> StandsAt(s, d, i)
    <3> HIDE DEF off
    <3> QED BY <1>0, <2>1, <2>2, StandsInLine
  <2>4. i \in Nat /\ i > 0 /\ i <= Len(d)
    BY <2>1, <2>2
  <2>5. off + i \in Stretch(n) /\ off + i \in DOMAIN text
    BY <1>0, <2>1, <2>4, SMTT(40) DEF Stretch
  <2>6. PlaceOf(off + i) = <<n, (off + i) - off - 1>>
    <3>1. \A p \in Stretch(n) : PlaceOf(p) = <<n, p - off - 1>>
      BY PlaceIs
    <3> QED BY <2>5, <3>1, Zenon
  <2>7. (off + i) - off - 1 = i - 1
    BY <2>1, <2>4
  <2> QED BY <2>3, <2>5, <2>6, <2>7 DEF d
<1>2. ASSUME x \in Places(s), x[1] <= line_count
      PROVE  PlaceInLines(s, x)
  <2>1. PICK p \in DOMAIN text : StandsAt(s, text, p) /\ x = PlaceOf(p)
    BY <1>2 DEF Places
  <2>2. p \in 1..Len(text) /\ p \in Nat
    BY <1>0
  <2>3. x[1] = CountBegins(p)
    BY <2>1 DEF PlaceOf, CountBegins
  <2>4. p <= input_pos
    <3>1. SUFFICES ASSUME ~(p <= input_pos) PROVE FALSE
      OBVIOUS
    <3> DEFINE S == {b \in Begins : b <= input_pos}
               T == {b \in Begins : b <= p}
    <3>2. input_pos < Len(text) /\ input_pos + 1 <= p
      BY <1>0, <2>2, <3>1
    <3>3. input_pos + 1 \in Begins
      BY <3>2 DEF OffsetsInv
    <3>4. IsFiniteSet(S) /\ Cardinality(S) = line_count /\ IsFiniteSet(T) /\ Cardinality(T) \in Nat
      BY BeginsAreFinite DEF OffsetsInv, CountBegins
    <3>5. input_pos + 1 \notin S
      BY <1>0
    <3>6. S \cup {input_pos + 1} \in SUBSET T
      <4>1. \A b \in Begins : b <= input_pos => b <= p
        BY <1>0, <2>2, <3>1, BeginsAreFinite
      <4> QED BY <3>2, <3>3, <4>1
    <3> HIDE DEF S, T
    <3>7. Cardinality(S \cup {input_pos + 1}) = line_count + 1
      BY <3>4, <3>5, FS_AddElement
    <3>8. line_count + 1 <= Cardinality(T)
      BY <3>4, <3>6, <3>7, FS_Subset
    <3>9. x[1] = Cardinality(T)
      BY <2>3 DEF CountBegins, T
    <3> QED BY <1>0, <1>2, <3>4, <3>8, <3>9
  <2>5. PICK n \in 1..line_count : p \in Stretch(n)
    <3>1. p \in 1..input_pos
      BY <1>0, <2>2, <2>4
    <3> QED BY <3>1 DEF OffsetsInv
  <2> DEFINE i == p - offsets[n]
             d == StoredLine(n)
  <2>6. /\ offsets[n] \in Nat /\ offsets[n + 1] \in Nat /\ Len(d) \in Nat /\ DOMAIN d = 1..Len(d)
        /\ offsets[n + 1] <= offsets[n] + Len(d) + 1
        /\ offsets[n] + Len(d) < offsets[n + 1] => text[offsets[n] + Len(d) + 1] = Newline
    BY LineIs
  <2>7. p >= offsets[n] + 1 /\ p <= offsets[n + 1]
    BY <2>2, <2>5, <2>6 DEF Stretch
  <2> HIDE DEF d
  <2>8. i \in DOMAIN d
    <3>1. SUFFICES ASSUME ~(i \in DOMAIN d) PROVE FALSE
      OBVIOUS
    <3>2. p = offsets[n] + Len(d) + 1 /\ offsets[n] + Len(d) < offsets[n + 1]
      BY <2>2, <2>6, <2>7, <3>1, SMTT(40)
    <3>3. text[p] = Newline
      BY <2>6, <3>2
    <3>4. Len(s) \in Nat /\ Len(s) # 0 /\ DOMAIN s = 1..Len(s)
      BY EmptySeq
    <3>5. 1 \in DOMAIN s /\ s[1] \in Chars /\ s[1] # Newline
      <4>1. 1 \in DOMAIN s /\ 1 \in 1..Len(s)
        BY <3>4
      <4> QED BY <4>1, ElementOfSeq DEF Has
    <3>6. Lower[text[p + 1 - 1]] = Lower[s[1]]
      BY <2>1, <3>5 DEF StandsAt
    <3>7. p + 1 - 1 = p /\ text[p] \in Chars
      BY <1>0, <2>2
    <3> QED BY <3>3, <3>5, <3>6, <3>7, SameLower
  <2>9. offsets[n] + i = p
    BY <2>2, <2>6
  <2> HIDE DEF i
  <2>10. StandsAt(s, d, i) /\ x = <<n, i - 1>>
    BY <1>1, <2>1, <2>8, <2>9 DEF d
  <2> QED BY <2>8, <2>10 DEF PlaceInLines, d
<1>3. ASSUME PlaceInLines(s, x)
      PROVE  x \in Places(s) /\ x[1] <= line_count
  <2>1. PICK n \in 1..line_count : \E i \in DOMAIN StoredLine(n) :
          StandsAt(s, StoredLine(n), i) /\ x = <<n, i - 1>>
    BY <1>3 DEF PlaceInLines
  <2>2. PICK i \in DOMAIN StoredLine(n) : StandsAt(s, StoredLine(n), i) /\ x = <<n, i - 1>>
    BY <2>1
  <2>3. /\ offsets[n] + i \in DOMAIN text /\ StandsAt(s, text, offsets[n] + i)
        /\ x = PlaceOf(offsets[n] + i)
    BY <1>1, <2>2
  <2>4. x[1] = n /\ n <= line_count
    BY <1>0, <2>2
  <2> QED BY <2>3, <2>4 DEF Places
<1> QED BY <1>2, <1>3

LEMMA AllIsRead ==
  ASSUME TypeOK, OffsetsInv, input_pos = Len(text)
  PROVE  /\ AllLines = 1..line_count
         /\ \A s : \A x \in Places(s) : x[1] <= line_count
<1>1. \A b \in Begins : b <= Len(text)
  BY BeginIs
<1>2. {b \in Begins : b <= Len(text)} = Begins
  BY <1>1
<1>3. Cardinality(Begins) = line_count
  BY <1>2, SMTT(40) DEF OffsetsInv, CountBegins
<1>4. ASSUME NEW s, NEW x \in Places(s)
      PROVE  x[1] <= line_count
  <2>1. PICK p \in DOMAIN text : x = PlaceOf(p)
    BY DEF Places
  <2>2. x[1] = CountBegins(p)
    BY <2>1 DEF PlaceOf, CountBegins
  <2> QED BY <1>3, <2>2, BeginsAreFinite
<1> QED BY <1>3, <1>4 DEF AllLines


-----------------------------------------------------------------------------
(* A line is read.                                                         *)

Joined(c, s, t, S) ==
  /\ c \in Seq(S) /\ Len(c) = Len(s) + Len(t)
  /\ \A i \in 1..Len(s) : c[i] = s[i]
  /\ \A i \in 1..Len(t) : c[Len(s) + i] = t[i]
  /\ \A k \in 1..Len(c) : k \in 1..Len(s) \/ \E i \in 1..Len(t) : k = Len(s) + i
  /\ ToSet(c) = ToSet(s) \cup ToSet(t)

LEMMA ConcatIs ==
  ASSUME NEW S, NEW s \in Seq(S), NEW t \in Seq(S)
  PROVE  Joined(s \o t, s, t, S)
<1> DEFINE c == s \o t
           m == Len(s)
           n == Len(t)
<1>1. /\ c \in Seq(S) /\ Len(c) = m + n /\ m \in Nat /\ n \in Nat
      /\ DOMAIN c = 1..m + n /\ DOMAIN s = 1..m /\ DOMAIN t = 1..n
      /\ \A i \in 1..m + n : c[i] = IF i <= m THEN s[i] ELSE t[i - m]
  BY ConcatProperties
<1> HIDE DEF c, m, n
<1>2. \A i \in 1..m : i \in 1..m + n /\ c[i] = s[i]
  BY <1>1
<1>3. ASSUME NEW i \in 1..n
      PROVE  m + i \in 1..m + n /\ c[m + i] = t[i]
  <2>1. m + i \in 1..m + n /\ ~(m + i <= m) /\ (m + i) - m = i
    BY <1>1
  <2> QED BY <1>1, <2>1
<1>4. ASSUME NEW k \in 1..m + n
      PROVE  k \in 1..m \/ \E i \in 1..n : k = m + i
  <2>1. CASE k <= m
    BY <1>1, <2>1
  <2>2. CASE k > m
    <3>1. k - m \in 1..n /\ k = m + (k - m)
      BY <1>1, <2>2
    <3> QED BY <3>1
  <2> QED BY <1>1, <2>1, <2>2
<1>5. ToSet(c) = ToSet(s) \cup ToSet(t)
  <2>1. ASSUME NEW x \in ToSet(c)
        PROVE  x \in ToSet(s) \cup ToSet(t)
    <3>1. PICK k \in 1..m + n : x = c[k]
      BY <1>1, <2>1 DEF ToSet
    <3> QED BY <1>1, <1>2, <1>3, <1>4, <3>1 DEF ToSet
  <2>2. ASSUME NEW x \in ToSet(s) \cup ToSet(t)
        PROVE  x \in ToSet(c)
    <3>1. (\E k \in 1..m : x = s[k]) \/ (\E k \in 1..n : x = t[k])
      BY <1>1, <2>2 DEF ToSet
    <3>2. \E k \in 1..m + n : x = c[k]
      BY <1>2, <1>3, <3>1
    <3> QED BY <1>1, <3>2 DEF ToSet
  <2> QED BY <2>1, <2>2
<1> QED BY <1>1, <1>2, <1>3, <1>4, <1>5 DEF c, m, n, Joined

(***************************************************************************)
(* The line that input_reader delivers next, and where it ends.            *)
(***************************************************************************)
Data == ReadLine(input_pos).data
NewPos == input_pos + Len(ReadLine(input_pos).data) + ReadLine(input_pos).had_newline
NextLine ==
  /\ Data \in Seq(Chars) /\ ~Has(Data, {Newline}) /\ Len(Data) \in Nat /\ DOMAIN Data = 1..Len(Data)
  /\ NewPos \in Nat /\ input_pos < NewPos /\ NewPos <= Len(text) /\ input_pos + Len(Data) <= NewPos
  /\ \A k \in 1..Len(Data) : Data[k] = text[input_pos + k]
  /\ Data = Cut(text, input_pos, NewPos)
  /\ NewPos < Len(text) => text[NewPos] = Newline
  /\ \A p \in input_pos + 1..NewPos : p < NewPos => text[p] # Newline

LEMMA NextLineIs ==
  ASSUME TypeOK, input_pos < Len(text)
  PROVE  NextLine
<1> DEFINE data == Data
           new == NewPos
<1>1. /\ data \in Seq(Chars) /\ ~Has(data, {Newline})
      /\ Len(data) \in Nat /\ new \in Nat /\ input_pos < new /\ new <= Len(text)
      /\ \A k \in 1..Len(data) : data[k] = text[input_pos + k]
      /\ \/ new = input_pos + Len(data) + 1 /\ text[new] = Newline
         \/ new = input_pos + Len(data) /\ new = Len(text)
      /\ \A p \in input_pos + 1..new : p < new => text[p] # Newline
  BY ReadLineIs DEF Data, NewPos
<1>2. text \in Seq(Chars) /\ Len(text) \in Nat /\ input_pos \in Nat
  BY TextIs
<1> HIDE DEF data, new
<1>3. DOMAIN data = 1..Len(data)
  BY <1>1
<1>4. new < Len(text) => text[new] = Newline
  BY <1>1, <1>2
<1>5. Len(data) = IF text[new] = Newline THEN new - input_pos - 1 ELSE new - input_pos
  <2>1. CASE new = input_pos + Len(data) + 1 /\ text[new] = Newline
    BY <1>1, <1>2, <2>1
  <2>2. CASE new = input_pos + Len(data) /\ new = Len(text)
    <3>1. Len(data) \in 1..Len(data) /\ Len(data) \in DOMAIN data
      BY <1>1, <1>2, <1>3, <2>2
    <3>2. data[Len(data)] = text[new]
      BY <1>1, <2>2, <3>1
    <3>3. data[Len(data)] # Newline
      BY <1>1, <3>1 DEF Has
    <3> QED BY <1>1, <1>2, <2>2, <3>2, <3>3
  <2> QED BY <1>1, <2>1, <2>2
<1>6. data = Cut(text, input_pos, new)
  <2> DEFINE c == Cut(text, input_pos, new)
  <2>1. c = Cut(text, input_pos, new)
    OBVIOUS
  <2> HIDE DEF c
  <2>2. CutOut(text, input_pos, new, c, Len(data))
    BY <1>1, <1>2, <1>4, <1>5, <2>1, CutIs
  <2>3. c \in Seq(Chars) /\ Len(c) = Len(data) /\ \A k \in 1..Len(data) : c[k] = text[input_pos + k]
    BY <2>2 DEF CutOut
  <2>4. \A k \in 1..Len(data) : data[k] = c[k]
    BY <1>1, <2>3
  <2> QED BY <1>1, <2>1, <2>3, <2>4, SeqEqual
<1>7. input_pos + Len(data) <= new
  BY <1>1, <1>2
<1> QED BY <1>1, <1>3, <1>4, <1>6, <1>7 DEF NextLine, data, new

LEMMA NewLineCounts ==
  ASSUME TypeOK, OffsetsInv, input_pos < Len(text), NEW p \in input_pos + 1..NewPos
  PROVE  CountBegins(p) = line_count + 1
<1> DEFINE S == {b \in Begins : b <= input_pos}
           T == {b \in Begins : b <= p}
<1>1. /\ NewPos \in Nat /\ \A q \in input_pos + 1..NewPos : q < NewPos => text[q] # Newline
  BY NextLineIs DEF NextLine
<1>2. input_pos \in Nat /\ p \in Nat /\ input_pos < p /\ p <= NewPos
  BY <1>1, TextIs
<1>3. input_pos + 1 \in Begins /\ IsFiniteSet(S) /\ Cardinality(S) = line_count
  BY BeginsAreFinite DEF OffsetsInv, CountBegins
<1>4. \A b \in Begins : b \in Nat /\ b > 0 /\ (b = 1 \/ text[b - 1] = Newline)
  BY BeginIs
<1>5. ASSUME NEW b \in T
      PROVE  b \in S \cup {input_pos + 1}
  <2>1. SUFFICES ASSUME input_pos + 1 < b PROVE FALSE
    BY <1>2, <1>4
  <2>2. b - 1 \in input_pos + 1..NewPos /\ b - 1 < NewPos /\ b # 1
    BY <1>1, <1>2, <1>4, <2>1
  <2> QED BY <1>1, <1>4, <2>2
<1>6. ASSUME NEW b \in S \cup {input_pos + 1}
      PROVE  b \in T
  BY <1>2, <1>3, <1>4
<1>7. T = S \cup {input_pos + 1}
  BY <1>5, <1>6
<1>8. input_pos + 1 \notin S
  BY <1>2
<1> HIDE DEF S, T
<1>9. Cardinality(T) = line_count + 1
  BY <1>3, <1>7, <1>8, FS_AddElement
<1> QED BY <1>9 DEF T, CountBegins

(***************************************************************************)
(* What a step of the indexer leaves as it was, and what it adds.          *)
(***************************************************************************)
LineAdded ==
  /\ text' = text /\ line_count' = line_count + 1 /\ line_count' \in 0..Len(text)
  /\ input_pos' = NewPos
  /\ offsets' \in Seq(0..Len(text)) /\ Len(offsets') = line_count + 2
  /\ \A n \in 1..line_count + 1 : offsets'[n] = offsets[n]
  /\ offsets'[line_count + 2] = NewPos
  /\ \A n \in 1..line_count : StoredLine(n)' = StoredLine(n)
  /\ \A n \in Nat : n = line_count + 1 => StoredLine(n)' = Data

LEMMA LineIsAdded ==
  ASSUME TypeOK, OffsetsInv, IndexLine
  PROVE  LineAdded
<1>1. /\ NextLine /\ input_pos < Len(text)
  BY NextLineIs DEF IndexLine
<1>2. /\ NewPos \in Nat /\ input_pos < NewPos /\ NewPos <= Len(text) /\ Data = Cut(text, input_pos, NewPos)
  BY <1>1 DEF NextLine
<1>3. /\ Len(text) \in Nat /\ input_pos \in Nat /\ line_count \in Nat /\ offsets \in Seq(0..Len(text))
      /\ Len(offsets) = line_count + 1 /\ offsets[line_count + 1] = input_pos
  BY TextIs DEF OffsetsInv
<1>4. Last(offsets) = input_pos
  BY <1>3 DEF Last
<1>5. /\ text' = text /\ line_count' = line_count + 1
      /\ input_pos' = NewPos /\ offsets' = Append(offsets, NewPos)
  <2>1. NextOffset(ReadLine(input_pos)) = NewPos
    BY <1>4 DEF NextOffset, NewPos
  <2> QED BY <2>1 DEF IndexLine, NewPos, index
<1>6. /\ offsets' \in Seq(0..Len(text)) /\ Len(offsets') = line_count + 2
      /\ \A n \in 1..line_count + 1 : offsets'[n] = offsets[n]
      /\ offsets'[line_count + 2] = NewPos
  <2>1. NewPos \in 0..Len(text)
    BY <1>2, <1>3
  <2> HIDE DEF NewPos
  <2> QED BY <1>3, <1>5, <2>1
<1>7. ASSUME NEW n \in 1..line_count
      PROVE  StoredLine(n)' = StoredLine(n)
  <2>1. n \in 1..line_count + 1 /\ n + 1 \in 1..line_count + 1
    BY <1>3
  <2>2. offsets'[n] = offsets[n] /\ offsets'[n + 1] = offsets[n + 1]
    BY <1>6, <2>1
  <2> QED BY <1>5, <2>2 DEF StoredLine
<1>8. ASSUME NEW n \in Nat, n = line_count + 1
      PROVE  StoredLine(n)' = Data
  <2>1. offsets'[n] = input_pos /\ offsets'[n + 1] = NewPos
    BY <1>3, <1>6, <1>8
  <2>2. StoredLine(n)' = Cut(text, offsets'[n], offsets'[n + 1])
    BY <1>5 DEF StoredLine, Cut
  <2> QED BY <1>2, <2>1, <2>2
<1>9. line_count' \in 0..Len(text)
  <2>1. input_pos + 1 \in input_pos + 1..NewPos
    BY <1>2, <1>3
  <2>2. CountBegins(input_pos + 1) = line_count + 1
    BY <1>1, <2>1, NewLineCounts
  <2>3. line_count + 1 <= Cardinality(Begins) /\ Cardinality(Begins) \in Nat
    BY <2>2, BeginsAreFinite
  <2>4. Begins \in SUBSET (1..Len(text))
    BY TextIs DEF Begins
  <2>5. Cardinality(Begins) <= Len(text)
    <3> DEFINE I == 1..Len(text)
    <3>1. IsFiniteSet(I) /\ Cardinality(I) = Len(text)
      BY <1>3, IntervalIs
    <3> HIDE DEF I
    <3>2. Begins \in SUBSET I
      BY <2>4 DEF I
    <3> QED BY <3>1, <3>2, FS_Subset
  <2> QED BY <1>3, <1>5, <2>3, <2>5
<1> QED BY <1>5, <1>6, <1>7, <1>8, <1>9 DEF LineAdded

LEMMA OffsetsStepHolds ==
  ASSUME TypeOK, OffsetsInv, input_pos < Len(text), LineAdded
  PROVE  OffsetsInv'
<1>1. NextLine
  BY NextLineIs
<1>2. /\ NewPos \in Nat /\ input_pos < NewPos /\ NewPos <= Len(text)
      /\ NewPos < Len(text) => text[NewPos] = Newline
      /\ \A p \in input_pos + 1..NewPos : p < NewPos => text[p] # Newline
  BY <1>1 DEF NextLine
<1>3. /\ Len(text) \in Nat /\ DOMAIN text = 1..Len(text) /\ input_pos \in Nat /\ line_count \in Nat
      /\ Len(offsets) = line_count + 1 /\ offsets[line_count + 1] = input_pos
  BY TextIs DEF OffsetsInv
<1>4. /\ text' = text /\ line_count' = line_count + 1 /\ input_pos' = NewPos
      /\ Len(offsets') = line_count + 2
      /\ \A n \in 1..line_count + 1 : offsets'[n] = offsets[n]
      /\ offsets'[line_count + 2] = NewPos
  BY DEF LineAdded
<1>5. Begins' = Begins /\ \A p : CountBegins(p)' = CountBegins(p)
  BY <1>4 DEF Begins, CountBegins
<1>6. ASSUME NEW p \in input_pos + 1..NewPos
      PROVE  CountBegins(p)' = line_count + 1
  BY <1>5, NewLineCounts
<1>7. NewPos < Len(text) => NewPos + 1 \in Begins
  <2>1. SUFFICES ASSUME NewPos < Len(text) PROVE NewPos + 1 \in Begins
    OBVIOUS
  <2>2. NewPos + 1 \in 1..Len(text) /\ (NewPos + 1) - 1 = NewPos
    BY <1>2, <1>3, <2>1
  <2> QED BY <1>2, <1>3, <2>1, <2>2 DEF Begins
<1>8. ASSUME NEW n \in 1..line_count
      PROVE  /\ offsets'[n] = offsets[n] /\ offsets'[n + 1] = offsets[n + 1]
             /\ Stretch(n)' = Stretch(n)
  <2>1. n \in 1..line_count + 1 /\ n + 1 \in 1..line_count + 1
    BY <1>3
  <2>2. offsets'[n] = offsets[n] /\ offsets'[n + 1] = offsets[n + 1]
    BY <1>4, <2>1
  <2> QED BY <2>2 DEF Stretch
<1>9. ASSUME NEW n \in Nat, n = line_count + 1
      PROVE  /\ offsets'[n] = input_pos /\ offsets'[n + 1] = NewPos
             /\ Stretch(n)' = input_pos + 1..NewPos
  <2>1. offsets'[n] = input_pos /\ offsets'[n + 1] = NewPos
    BY <1>3, <1>4, <1>9
  <2> QED BY <2>1 DEF Stretch
<1>10. /\ Len(offsets') = line_count' + 1
       /\ offsets'[line_count' + 1] = input_pos'
       /\ input_pos' < Len(text)' => (input_pos' + 1) \in Begins'
  BY <1>3, <1>4, <1>5, <1>7
<1>11. CountBegins(input_pos)' = line_count'
  <2>1. CountBegins(input_pos)' = Cardinality({b \in Begins' : b <= input_pos'})
    BY DEF CountBegins
  <2>2. NewPos \in input_pos + 1..NewPos
    BY <1>2, <1>3
  <2>3. CountBegins(NewPos) = line_count + 1
    BY <2>2, NewLineCounts
  <2> QED BY <1>4, <1>5, <2>1, <2>3 DEF CountBegins
<1>12. ASSUME NEW n \in 1..line_count'
       PROVE  /\ offsets'[n] < offsets'[n + 1]
              /\ offsets'[n] + 1 \in Begins'
              /\ offsets'[n + 1] < Len(text)' => text'[offsets'[n + 1]] = Newline
              /\ \A p \in Stretch(n)' :
                   /\ p < offsets'[n + 1] => text'[p] # Newline
                   /\ CountBegins(p)' = n
  <2>1. CASE n \in 1..line_count
    <3>1. /\ offsets[n] < offsets[n + 1]
          /\ offsets[n] + 1 \in Begins
          /\ offsets[n + 1] < Len(text) => text[offsets[n + 1]] = Newline
          /\ \A p \in Stretch(n) :
               /\ p < offsets[n + 1] => text[p] # Newline
               /\ CountBegins(p) = n
      BY <2>1 DEF OffsetsInv
    <3>2. /\ offsets'[n] = offsets[n] /\ offsets'[n + 1] = offsets[n + 1]
          /\ Stretch(n)' = Stretch(n)
      BY <1>8, <2>1
    <3> QED BY <1>4, <1>5, <3>1, <3>2
  <2>2. CASE n = line_count + 1
    <3>1. /\ offsets'[n] = input_pos /\ offsets'[n + 1] = NewPos
          /\ Stretch(n)' = input_pos + 1..NewPos
      BY <1>3, <1>9, <2>2
    <3>2. input_pos + 1 \in Begins
      BY DEF OffsetsInv
    <3>3. ASSUME NEW p \in Stretch(n)'
          PROVE  /\ p < offsets'[n + 1] => text'[p] # Newline
                 /\ CountBegins(p)' = n
      <4>1. p \in input_pos + 1..NewPos
        BY <3>1
      <4> QED BY <1>2, <1>4, <1>6, <2>2, <3>1, <4>1
    <3> QED BY <1>2, <1>4, <1>5, <3>1, <3>2, <3>3
  <2> QED BY <1>3, <1>4, <2>1, <2>2
<1>13. ASSUME NEW p \in 1..input_pos'
       PROVE  \E n \in 1..line_count' : p \in Stretch(n)'
  <2>1. CASE p <= input_pos
    <3>1. PICK n \in 1..line_count : p \in Stretch(n)
      <4>1. p \in 1..input_pos
        BY <1>3, <2>1
      <4> QED BY <4>1 DEF OffsetsInv
    <3>2. n \in 1..line_count' /\ p \in Stretch(n)'
      BY <1>3, <1>4, <1>8, <3>1
    <3> QED BY <3>2
  <2>2. CASE ~(p <= input_pos)
    <3> DEFINE n == line_count + 1
    <3>1. n \in Nat /\ n \in 1..line_count' /\ p \in input_pos + 1..NewPos
      BY <1>3, <1>4, <2>2
    <3>2. n = line_count + 1
      OBVIOUS
    <3> HIDE DEF n
    <3>3. \A k \in Nat : k = line_count + 1 => Stretch(k)' = input_pos + 1..NewPos
      BY <1>9
    <3>4. \E k \in 1..line_count' : k = n
      BY <3>1
    <3>5. PICK k \in 1..line_count' : k = n
      BY <3>4
    <3>6. k \in Nat /\ k = line_count + 1
      BY <3>1, <3>2, <3>5
    <3> QED BY <3>1, <3>3, <3>5, <3>6
  <2> QED BY <2>1, <2>2
<1> QED BY <1>10, <1>11, <1>12, <1>13 DEF OffsetsInv

-----------------------------------------------------------------------------
(* Its words enter the lexicon.                                            *)

GoodWord(w) == w \in Seq(Chars) /\ w # <<>> /\ ~Has(w, Breaks)
Entry(w) == GoodWord(w) /\ LowerOf(w) = w /\ Bucket(w) \in Buckets

LEMMA GoodWordIs ==
  ASSUME NEW w, GoodWord(w)
  PROVE  /\ w \in Seq(Chars) /\ w # <<>> /\ ~Has(w, Breaks) /\ ~Has(w, {Newline})
         /\ GoodWord(LowerOf(w)) /\ LowerOf(LowerOf(w)) = LowerOf(w)
<1>1. w \in Seq(Chars) /\ w # <<>> /\ ~Has(w, Breaks)
  BY DEF GoodWord
<1>2. ~Has(w, {Newline})
  BY <1>1 DEF Has, Breaks
<1>3. /\ LowerOf(w) \in Seq(Chars) /\ Len(LowerOf(w)) = Len(w) /\ DOMAIN LowerOf(w) = 1..Len(w)
      /\ \A i \in 1..Len(w) : LowerOf(w)[i] = Lower[w[i]]
      /\ LowerOf(LowerOf(w)) = LowerOf(w)
  BY <1>1, LowerOfIs
<1>4. Len(w) \in Nat /\ Len(w) # 0 /\ DOMAIN w = 1..Len(w) /\ \A i \in 1..Len(w) : w[i] \in Chars
  BY <1>1, EmptySeq, ElementOfSeq
<1>5. LowerOf(w) # <<>>
  BY <1>3, <1>4
<1>6. \A i \in 1..Len(w) : Lower[w[i]] \notin Breaks
  <2>1. \A i \in 1..Len(w) : w[i] \notin Breaks
    BY <1>1, <1>4 DEF Has
  <2> QED BY <1>4, <2>1, CharsAre
<1>7. ~Has(LowerOf(w), Breaks)
  BY <1>3, <1>6 DEF Has
<1> QED BY <1>1, <1>2, <1>3, <1>5, <1>7 DEF GoodWord

LEMMA WordIs ==
  ASSUME NEW s \in Seq(Chars), ~Has(s, {Newline}), NEW i \in WordStarts(s)
  PROVE  i \in DOMAIN s /\ i \in 1..Len(s) /\ StartsWord(s, i) /\ GoodWord(WordAt(s, i))
<1>1. i \in DOMAIN s /\ StartsWord(s, i) /\ Len(s) \in Nat /\ DOMAIN s = 1..Len(s)
  BY DEF WordStarts
<1>2. i \in 1..Len(s) /\ i \in Nat /\ s[i] \notin Separators
  BY <1>1 DEF StartsWord
<1> DEFINE w == WordAt(s, i)
<1>3. PICK e \in i - 1..Len(s) :
           /\ w \in Seq(Chars)
           /\ Len(w) = e - i + 1
           /\ \A k \in 1..e - i + 1 : w[k] = s[i + k - 1]
           /\ \A j \in i..e : s[j] \notin Separators
           /\ e < Len(s) => s[e + 1] \in Separators
  BY <1>1, WordAtIs
<1> HIDE DEF w
<1>4. e \in Nat /\ e >= i
  <2>1. SUFFICES ASSUME ~(e >= i) PROVE FALSE
    BY <1>1, <1>2
  <2>2. e + 1 = i /\ e < Len(s)
    BY <1>1, <1>2, <2>1
  <2> QED BY <1>2, <1>3, <2>2
<1>5. w # <<>>
  <2>1. Len(w) # 0
    BY <1>1, <1>2, <1>3, <1>4
  <2> QED BY <2>1
<1>6. ~Has(w, Breaks)
  <2>1. ASSUME NEW k \in 1..e - i + 1
        PROVE  w[k] \notin Breaks
    <3>1. i + k - 1 \in i..e /\ i + k - 1 \in 1..Len(s)
      BY <1>1, <1>2, <1>4
    <3>2. s[i + k - 1] \notin Separators /\ s[i + k - 1] # Newline
      <4>1. \A j \in 1..Len(s) : s[j] # Newline
        BY <1>1 DEF Has
      <4> QED BY <1>3, <3>1, <4>1
    <3> QED BY <1>3, <3>2 DEF Breaks
  <2>2. DOMAIN w = 1..e - i + 1
    BY <1>3
  <2> QED BY <2>1, <2>2 DEF Has
<1> QED BY <1>1, <1>2, <1>3, <1>5, <1>6 DEF GoodWord, w

LEMMA HashIs ==
  ASSUME TypeOK, input_pos < Len(text), NEW i \in WordStarts(Data)
  PROVE  Bucket(LowerOf(WordAt(Data, i))) \in Buckets
<1>1. /\ Data \in Seq(Chars) /\ ~Has(Data, {Newline}) /\ Len(Data) \in Nat /\ DOMAIN Data = 1..Len(Data)
      /\ \A k \in 1..Len(Data) : Data[k] = text[input_pos + k]
      /\ NewPos \in Nat /\ NewPos <= Len(text) /\ input_pos + Len(Data) <= NewPos
  BY NextLineIs DEF NextLine
<1>2. i \in 1..Len(Data) /\ i \in DOMAIN Data /\ i \in Nat /\ StartsWord(Data, i)
  BY <1>1 DEF WordStarts
<1>3. text \in Texts /\ Len(text) \in Nat /\ DOMAIN text = 1..Len(text) /\ input_pos \in Nat
  BY TextIs DEF TypeOK
<1> DEFINE w == WordAt(Data, i)
<1>4. PICK e \in i - 1..Len(Data) :
           /\ w \in Seq(Chars)
           /\ Len(w) = e - i + 1
           /\ \A k \in 1..e - i + 1 : w[k] = Data[i + k - 1]
  <2>1. Data \in Seq(Chars)
    BY <1>1
  <2>2. i \in DOMAIN Data
    BY <1>2
  <2> QED BY <2>1, <2>2, WordAtIs
<1>5. Len(w) # 0
  BY <1>1, <1>4, WordIs, EmptySeq DEF GoodWord
<1> HIDE DEF w
<1>6. i <= e /\ e \in Nat
  BY <1>1, <1>2, <1>4, <1>5
<1> DEFINE a == input_pos + i
           z == input_pos + e
<1>7. a \in DOMAIN text /\ z \in DOMAIN text /\ a <= z /\ z - a + 1 = e - i + 1
  BY <1>1, <1>2, <1>3, <1>4, <1>6
<1>8. \A k \in 1..e - i + 1 : a + k - 1 = input_pos + (i + k - 1) /\ i + k - 1 \in 1..Len(Data)
  BY <1>1, <1>2, <1>3, <1>4, <1>6
<1> HIDE DEF a, z
<1>9. \A k \in 1..e - i + 1 : w[k] = text[a + k - 1]
  BY <1>1, <1>4, <1>8
<1>10. LowerOf(w) = [k \in 1..e - i + 1 |-> Lower[w[k]]]
  BY <1>4 DEF LowerOf
<1>11. LowerOf(w) = [k \in 1..z - a + 1 |-> Lower[text[a + k - 1]]]
  BY <1>7, <1>9, <1>10
<1>12. Hash([k \in 1..z - a + 1 |-> Lower[text[a + k - 1]]]) \in Nat
  BY <1>3, <1>7, EngineAssumption
<1>13. Hash(LowerOf(w)) \in Nat
  BY <1>11, <1>12
<1>14. OccBuckets \in Nat /\ OccBuckets # 0
  BY EngineAssumption
<1> DEFINE h == Hash(LowerOf(w))
<1> HIDE DEF h
<1>15. h % OccBuckets \in 0..OccBuckets - 1
  BY <1>13, <1>14 DEF h
<1> QED BY <1>15 DEF Bucket, Buckets, w, h

(***************************************************************************)
(* The lexicon with the words of the line.                                 *)
(***************************************************************************)
EntriesAdded(e) ==
  /\ e \in Seq(Seq(Chars)) /\ Len(e) \in Nat /\ DOMAIN e = 1..Len(e) /\ Len(lexicon) <= Len(e)
  /\ \A w \in 1..Len(lexicon) : e[w] = lexicon[w]
  /\ \A v, w \in DOMAIN e : e[v] = e[w] => v = w
  /\ \A w \in DOMAIN e : Entry(e[w])
  /\ \A i \in WordStarts(Data) : Lookup(e, WordAt(Data, i)) # {}

LEMMA LexiconIs ==
  ASSUME TypeOK, LexiconInv
  PROVE  /\ lexicon \in Seq(Seq(Chars)) /\ Len(lexicon) \in Nat /\ DOMAIN lexicon = 1..Len(lexicon)
         /\ \A v, w \in DOMAIN lexicon : lexicon[v] = lexicon[w] => v = w
         /\ \A w \in DOMAIN lexicon : Entry(lexicon[w])
<1>1. lexicon \in Seq(Seq(Chars)) /\ Len(lexicon) \in Nat /\ DOMAIN lexicon = 1..Len(lexicon)
  BY DEF TypeOK
<1>2. \A w \in DOMAIN lexicon : lexicon[w] \in Seq(Chars)
  BY <1>1, ElementOfSeq
<1> QED BY <1>1, <1>2 DEF LexiconInv, Entry, GoodWord

LEMMA EntriesAreAdded ==
  ASSUME TypeOK, LexiconInv, input_pos < Len(text)
  PROVE  EntriesAdded(EntriesWith(Data))
<1> DEFINE Word(i) == LowerOf(WordAt(Data, i))
           W == [i \in DOMAIN Data |-> Word(i)]
           starts == WordStarts(Data)
           news == {i \in starts :
                      /\ FindExisting(Word(i)) = {}
                      /\ \A k \in starts : k < i => Word(k) # Word(i)}
           tail == ElementsAt(W, news)
           e == lexicon \o tail
           m == Len(lexicon)
<1>1. EntriesWith(Data) = e
  BY DEF EntriesWith
<1>2. Data \in Seq(Chars) /\ ~Has(Data, {Newline}) /\ Len(Data) \in Nat /\ DOMAIN Data = 1..Len(Data)
  BY NextLineIs DEF NextLine
<1>3. \A i \in starts : i \in DOMAIN Data /\ i \in Nat /\ Entry(Word(i)) /\ Word(i) \in Seq(Chars)
  <2>1. ASSUME NEW i \in starts
        PROVE  i \in DOMAIN Data /\ i \in Nat /\ Entry(Word(i)) /\ Word(i) \in Seq(Chars)
    <3>1. i \in DOMAIN Data /\ GoodWord(WordAt(Data, i))
      BY <1>2, WordIs
    <3>2. GoodWord(Word(i)) /\ LowerOf(Word(i)) = Word(i)
      BY <3>1, GoodWordIs
    <3>3. Bucket(Word(i)) \in Buckets
      BY HashIs
    <3>4. Word(i) \in Seq(Chars)
      BY <3>2 DEF GoodWord
    <3> QED BY <1>2, <3>1, <3>2, <3>3, <3>4 DEF Entry
  <2> QED BY <2>1
<1>4. /\ lexicon \in Seq(Seq(Chars)) /\ m \in Nat /\ DOMAIN lexicon = 1..m
      /\ \A v, w \in DOMAIN lexicon : lexicon[v] = lexicon[w] => v = w
      /\ \A w \in DOMAIN lexicon : Entry(lexicon[w])
  BY LexiconIs
<1>5. \A i \in starts : W[i] = Word(i)
  BY <1>3
<1>6. \A i \in starts : FindExisting(Word(i)) = {} <=> ~ \E v \in DOMAIN lexicon : lexicon[v] = Word(i)
  <2>1. \A i \in starts : LowerOf(Word(i)) = Word(i)
    BY <1>3 DEF Entry
  <2>2. \A i : FindExisting(Word(i)) = {w \in DOMAIN lexicon : lexicon[w] = LowerOf(Word(i))}
    BY DEF FindExisting, Lookup
  <2> HIDE DEF Word, starts
  <2> QED BY <2>1, <2>2
<1>61. ASSUME NEW i \in news
       PROVE  /\ i \in starts
              /\ ~ \E v \in DOMAIN lexicon : lexicon[v] = Word(i)
              /\ \A k \in starts : k < i => Word(k) # Word(i)
  <2> HIDE DEF Word, starts
  <2>1. /\ i \in starts /\ FindExisting(Word(i)) = {}
        /\ \A k \in starts : k < i => Word(k) # Word(i)
    OBVIOUS
  <2> QED BY <1>6, <2>1
<1>62. ASSUME NEW i \in starts,
              ~ \E v \in DOMAIN lexicon : lexicon[v] = Word(i),
              \A k \in starts : k < i => Word(k) # Word(i)
       PROVE  i \in news
  <2> HIDE DEF Word, starts
  <2>1. FindExisting(Word(i)) = {}
    BY <1>6, <1>62
  <2> QED BY <1>62, <2>1
<1>7. starts \subseteq 1..Len(Data) /\ news \subseteq starts
  BY <1>2, <1>3
<1>8. news \in SUBSET Nat /\ IsFiniteSet(news) /\ starts \in SUBSET Nat
  BY <1>2, <1>7, SubsetOfInterval
<1>9. tail = ElementsAt(W, news) /\ e = lexicon \o tail
  OBVIOUS
<1> HIDE DEF Word, W, starts, news, tail, e, m
<1>10. /\ tail \in Seq({W[i] : i \in news})
       /\ \A x : x \in ToSet(tail) <=> \E i \in news : x = W[i]
       /\ \A a, b \in 1..Len(tail) : a < b => \E i, j \in news : i < j /\ tail[a] = W[i] /\ tail[b] = W[j]
  <2>1. \A i \in news : W[i] \in {W[j] : j \in news}
    OBVIOUS
  <2>2. Picked(tail, W, news, {W[j] : j \in news})
    BY <1>8, <1>9, <2>1, ElementsAtIs
  <2> QED BY <2>2 DEF Picked
<1>11. tail \in Seq(Seq(Chars)) /\ \A n \in 1..Len(tail) : \E i \in news : tail[n] = Word(i)
  <2>1. {W[i] : i \in news} \subseteq Seq(Chars)
    BY <1>3, <1>5, <1>7
  <2>2. tail \in Seq(Seq(Chars))
    BY <1>10, <2>1, SeqMonotonic
  <2>3. \A n \in 1..Len(tail) : tail[n] \in {W[i] : i \in news}
    BY <1>10, ElementOfSeq
  <2> QED BY <1>5, <1>7, <2>2, <2>3
<1> DEFINE n == Len(tail)
<1>12. /\ e \in Seq(Seq(Chars)) /\ Len(e) = m + n /\ n \in Nat /\ DOMAIN tail = 1..n
       /\ \A i \in 1..m : e[i] = lexicon[i]
       /\ \A i \in 1..n : e[m + i] = tail[i]
       /\ \A k \in 1..Len(e) : k \in 1..m \/ \E i \in 1..n : k = m + i
  <2>1. Joined(e, lexicon, tail, Seq(Chars))
    BY <1>4, <1>9, <1>11, ConcatIs
  <2>2. n \in Nat /\ DOMAIN tail = 1..n
    BY <1>11
  <2> QED BY <2>1, <2>2 DEF m, Joined
<1> HIDE DEF n
<1>13. Len(e) \in Nat /\ DOMAIN e = 1..Len(e) /\ m <= Len(e)
  BY <1>4, <1>12
<1>14. \A w \in DOMAIN e : Entry(e[w])
  <2>1. ASSUME NEW w \in 1..Len(e)
        PROVE  Entry(e[w])
    <3>1. CASE w \in 1..m
      BY <1>4, <1>12, <3>1
    <3>2. CASE \E i \in 1..n : w = m + i
      BY <1>3, <1>7, <1>11, <1>12, <3>2 DEF n
    <3> QED BY <1>12, <3>1, <3>2
  <2> QED BY <1>13, <2>1
<1>15. ASSUME NEW v \in 1..m, NEW i \in 1..n, lexicon[v] = tail[i]
       PROVE  FALSE
  <2>1. PICK a \in news : tail[i] = Word(a)
    BY <1>11 DEF n
  <2>2. ~ \E u \in DOMAIN lexicon : lexicon[u] = Word(a)
    BY <1>61
  <2> QED BY <1>4, <1>15, <2>1, <2>2
<1>16. ASSUME NEW i \in 1..n, NEW j \in 1..n, i < j, tail[i] = tail[j]
       PROVE  FALSE
  <2>1. PICK a, b \in news : a < b /\ tail[i] = W[a] /\ tail[j] = W[b]
    BY <1>10, <1>16 DEF n
  <2>2. Word(a) = Word(b)
    BY <1>5, <1>7, <1>16, <2>1
  <2>3. a \in starts /\ \A k \in starts : k < b => Word(k) # Word(b)
    BY <1>61, <1>7
  <2> QED BY <2>1, <2>2, <2>3
<1>17. ASSUME NEW v \in 1..Len(e), NEW w \in 1..Len(e), e[v] = e[w], v < w
       PROVE  FALSE
  <2>1. CASE w \in 1..m
    <3>1. v \in 1..m
      BY <1>4, <1>17, <2>1
    <3>2. v = w
      BY <1>4, <1>12, <1>17, <2>1, <3>1
    <3> QED BY <1>4, <1>17, <2>1, <3>2
  <2>2. CASE ~(w \in 1..m)
    <3>1. PICK j \in 1..n : w = m + j
      BY <1>12, <2>2
    <3>2. CASE v \in 1..m
      BY <1>12, <1>15, <1>17, <3>1, <3>2
    <3>3. CASE \E i \in 1..n : v = m + i
      <4>1. PICK i \in 1..n : v = m + i
        BY <3>3
      <4>2. i < j
        BY <1>4, <1>12, <1>17, <3>1, <4>1
      <4> QED BY <1>12, <1>16, <1>17, <3>1, <4>1, <4>2
    <3> QED BY <1>12, <3>2, <3>3
  <2> QED BY <2>1, <2>2
<1>18. \A v, w \in DOMAIN e : e[v] = e[w] => v = w
  <2>1. \A v, w \in 1..Len(e) : v < w \/ w < v \/ v = w
    BY <1>13
  <2> QED BY <1>13, <1>17, <2>1
<1>19. ASSUME NEW i \in starts
       PROVE  \E w \in DOMAIN e : e[w] = Word(i)
  <2>1. CASE \E v \in DOMAIN lexicon : lexicon[v] = Word(i)
    <3>1. PICK v \in 1..m : lexicon[v] = Word(i)
      BY <1>4, <2>1
    <3>2. v \in DOMAIN e /\ e[v] = Word(i)
      BY <1>4, <1>12, <1>13, <3>1
    <3> QED BY <3>2
  <2>2. CASE ~ \E v \in DOMAIN lexicon : lexicon[v] = Word(i)
    <3> DEFINE F == {k \in starts : Word(k) = Word(i)}
    <3>1. F \in SUBSET Nat /\ i \in F
      BY <1>8
    <3>2. PICK k \in F : \A y \in F : k <= y
      BY <3>1, LeastExists
    <3>3. k \in starts /\ Word(k) = Word(i) /\ k \in Nat
      BY <3>1, <3>2
    <3>4. ASSUME NEW j \in starts, j < k
          PROVE  Word(j) # Word(k)
      <4>1. SUFFICES ASSUME Word(j) = Word(k) PROVE FALSE
        OBVIOUS
      <4>2. j \in F /\ j \in Nat
        BY <1>8, <3>3, <4>1
      <4> QED BY <3>2, <3>3, <3>4, <4>2
    <3>5. k \in news
      BY <1>62, <2>2, <3>3, <3>4
    <3>6. Word(i) \in ToSet(tail)
      BY <1>5, <1>10, <3>3, <3>5
    <3>7. PICK a \in 1..n : tail[a] = Word(i)
      BY <1>12, <3>6 DEF ToSet
    <3>8. m + a \in DOMAIN e /\ e[m + a] = Word(i)
      BY <1>4, <1>12, <1>13, <3>7
    <3> QED BY <3>8
  <2> QED BY <2>1, <2>2
<1>20. \A i \in starts : Lookup(e, WordAt(Data, i)) # {}
  <2>1. \A i : Lookup(e, WordAt(Data, i)) = {w \in DOMAIN e : e[w] = Word(i)}
    BY DEF Lookup, Word
  <2> QED BY <1>19, <2>1
<1> QED BY <1>1, <1>12, <1>13, <1>14, <1>18, <1>20 DEF EntriesAdded, m, starts

LEMMA IdIs ==
  ASSUME NEW e, \A v, w \in DOMAIN e : e[v] = e[w] => v = w,
         NEW word, Lookup(e, word) # {}
  PROVE  /\ IdOf(e, word) \in DOMAIN e /\ e[IdOf(e, word)] = LowerOf(word)
         /\ Lookup(e, word) = {IdOf(e, word)}
         /\ \A v \in DOMAIN e : e[v] = LowerOf(word) => v = IdOf(e, word)
<1>1. IdOf(e, word) \in Lookup(e, word)
  BY DEF IdOf
<1>2. IdOf(e, word) \in DOMAIN e /\ e[IdOf(e, word)] = LowerOf(word)
  BY <1>1 DEF Lookup
<1>3. \A v \in DOMAIN e : e[v] = LowerOf(word) => v = IdOf(e, word)
  BY <1>2
<1> QED BY <1>1, <1>2, <1>3 DEF Lookup

(***************************************************************************)
(* Where an entry stands in a line, the line has this word.                *)
(***************************************************************************)
LEMMA EntryStands ==
  ASSUME NEW w, Entry(w), NEW line \in Seq(Chars), ~Has(line, {Newline}), NEW i
  PROVE  (i \in DOMAIN line /\ StandsAt(w, line, i)) <=>
           (i \in WordStarts(line) /\ LowerOf(WordAt(line, i)) = w)
<1>1. w \in Seq(Chars) /\ w # <<>> /\ ~Has(w, Breaks) /\ LowerOf(w) = w
  BY DEF Entry, GoodWord
<1>2. i \in DOMAIN line => (StandsAt(w, line, i) <=>
                              StartsWord(line, i) /\ LowerOf(WordAt(line, i)) = LowerOf(w))
  BY <1>1, WordStands
<1>3. i \in WordStarts(line) <=> i \in DOMAIN line /\ StartsWord(line, i)
  BY DEF WordStarts
<1> QED BY <1>1, <1>2, <1>3

LEMMA RecordIs ==
  ASSUME NEW W, NEW L, NEW S, NEW r \in [word : W, line : L, start : S]
  PROVE  /\ r.word \in W /\ r.line \in L /\ r.start \in S
         /\ r = [word |-> r.word, line |-> r.line, start |-> r.start]
  OBVIOUS

LEMMA OccIs ==
  ASSUME TypeOK, OccInv, NEW b \in Buckets
  PROVE  /\ occ[b] \in Seq(Records) /\ Len(occ[b]) \in Nat /\ DOMAIN occ[b] = 1..Len(occ[b])
         /\ Sorted(occ[b])
         /\ ToSet(occ[b]) = {r \in Records : Bucket(lexicon[r.word]) = b /\ Occurs(r)}
<1>1. occ[b] \in Seq(Records)
  BY DEF TypeOK
<1> HIDE DEF Records
<1> QED BY <1>1 DEF OccInv

LEMMA OccStepHolds ==
  ASSUME TypeOK, OffsetsInv, LexiconInv, OccInv, input_pos < Len(text), LineAdded,
         EntriesAdded(lexicon'), occ' = FilesWith(Data, line_count + 1, lexicon')
  PROVE  occ' \in [Buckets -> Seq(Records')] /\ OccInv'
<1> DEFINE e == lexicon'
           now == line_count + 1
           starts == WordStarts(Data)
           Id(i) == IdOf(e, WordAt(Data, i))
           record == [i \in DOMAIN Data |-> [word |-> Id(i), line |-> now, start |-> StartIdx(i)]]
           In(b) == {i \in starts : Bucket(e[Id(i)]) = b}
<1>1. /\ line_count \in Nat /\ Len(text) \in Nat /\ input_pos \in Nat
      /\ text' = text /\ line_count' = now
      /\ \A n \in 1..line_count : StoredLine(n)' = StoredLine(n)
      /\ \A n \in Nat : n = now => StoredLine(n)' = Data
  BY TextIs DEF LineAdded
<1>2. /\ Data \in Seq(Chars) /\ ~Has(Data, {Newline}) /\ Len(Data) \in Nat /\ DOMAIN Data = 1..Len(Data)
      /\ Len(Data) <= Len(text)
  <2>1. /\ Data \in Seq(Chars) /\ ~Has(Data, {Newline}) /\ Len(Data) \in Nat /\ DOMAIN Data = 1..Len(Data)
        /\ NewPos \in Nat /\ NewPos <= Len(text) /\ input_pos + Len(Data) <= NewPos
    BY NextLineIs DEF NextLine
  <2> QED BY <1>1, <2>1
<1>3. /\ e \in Seq(Seq(Chars)) /\ Len(e) \in Nat /\ DOMAIN e = 1..Len(e) /\ Len(lexicon) <= Len(e)
      /\ \A w \in 1..Len(lexicon) : e[w] = lexicon[w]
      /\ \A v, w \in DOMAIN e : e[v] = e[w] => v = w
      /\ \A w \in DOMAIN e : Entry(e[w])
      /\ \A i \in starts : Lookup(e, WordAt(Data, i)) # {}
  BY DEF EntriesAdded
<1>4. occ' = [b \in Buckets |-> occ[b] \o ElementsAt(record, In(b))]
  BY DEF FilesWith
<1>5. \A i \in starts : /\ i \in DOMAIN Data /\ i \in 1..Len(Data) /\ i \in Nat
                        /\ Id(i) \in DOMAIN e /\ e[Id(i)] = LowerOf(WordAt(Data, i))
                        /\ \A v \in DOMAIN e : e[v] = LowerOf(WordAt(Data, i)) => v = Id(i)
  <2>1. ASSUME NEW i \in starts
        PROVE  /\ i \in DOMAIN Data /\ i \in 1..Len(Data) /\ i \in Nat
               /\ Id(i) \in DOMAIN e /\ e[Id(i)] = LowerOf(WordAt(Data, i))
               /\ \A v \in DOMAIN e : e[v] = LowerOf(WordAt(Data, i)) => v = Id(i)
    <3>1. i \in DOMAIN Data /\ i \in 1..Len(Data)
      BY <1>2, WordIs
    <3>2. i \in Nat
      BY <1>2, <3>1
    <3>3. Lookup(e, WordAt(Data, i)) # {}
      BY <1>3
    <3> QED BY <1>3, <3>1, <3>2, <3>3, IdIs
  <2> QED BY <2>1
<1>6. \A i \in starts : /\ record[i] = [word |-> Id(i), line |-> now, start |-> i - 1]
                        /\ record[i].word = Id(i) /\ record[i].line = now /\ record[i].start = i - 1
  <2>1. ASSUME NEW i \in starts
        PROVE  /\ record[i] = [word |-> Id(i), line |-> now, start |-> i - 1]
               /\ record[i].word = Id(i) /\ record[i].line = now /\ record[i].start = i - 1
    <3>1. i \in DOMAIN Data
      BY <1>5
    <3>2. StartIdx(i) = i - 1
      BY DEF StartIdx
    <3> HIDE DEF Id, now
    <3> QED BY <3>1, <3>2
  <2> HIDE DEF Id, now, record
  <2> QED BY <2>1
<1> HIDE DEF record, Id
<1>7. Records' = [word : 1..Len(e), line : 1..now, start : 0..Len(text) - 1]
  BY <1>1 DEF Records
<1>8. \A i \in starts : record[i] \in Records'
  <2>1. ASSUME NEW i \in starts
        PROVE  record[i] \in Records'
    <3>1. Id(i) \in 1..Len(e) /\ now \in 1..now /\ i - 1 \in 0..Len(text) - 1
      BY <1>1, <1>2, <1>3, <1>5
    <3> DEFINE r == [word |-> Id(i), line |-> now, start |-> i - 1]
    <3>2. r \in [word : 1..Len(e), line : 1..now, start : 0..Len(text) - 1]
      <4> HIDE DEF now
      <4> QED BY <3>1
    <3>3. record[i] = r
      BY <1>6
    <3> HIDE DEF r, now
    <3> QED BY <1>7, <3>2, <3>3
  <2> QED BY <2>1
<1>9. ASSUME NEW r \in Records
      PROVE  r \in Records' /\ r.line \in 1..line_count /\ r.word \in 1..Len(lexicon)
  <2>1. /\ r.word \in 1..Len(lexicon) /\ r.line \in 1..line_count /\ r.start \in 0..Len(text) - 1
        /\ r = [word |-> r.word, line |-> r.line, start |-> r.start]
    BY RecordIs DEF Records
  <2>2. Len(lexicon) \in Nat
    BY LexiconIs
  <2>3. r.word \in 1..Len(e) /\ r.line \in 1..now
    BY <1>1, <1>3, <2>1, <2>2
  <2> HIDE DEF now
  <2> QED BY <1>7, <2>1, <2>3
<1>10. \A b \in Buckets : In(b) \in SUBSET Nat /\ IsFiniteSet(In(b)) /\ In(b) \subseteq starts
  <2>1. starts \subseteq 1..Len(Data)
    BY <1>5
  <2> HIDE DEF starts
  <2>2. \A b : In(b) \subseteq 1..Len(Data) /\ In(b) \subseteq starts
    BY <2>1
  <2> HIDE DEF In
  <2> QED BY <1>2, <2>2, SubsetOfInterval
(***************************************************************************)
(* What a record of the old lines means, and what one of this line means.  *)
(***************************************************************************)
<1>11. ASSUME NEW r \in Records
       PROVE  (Bucket(e[r.word]) = Bucket(lexicon[r.word])) /\ (Occurs(r)' <=> Occurs(r))
  <2>1. e[r.word] = lexicon[r.word] /\ StoredLine(r.line)' = StoredLine(r.line)
    BY <1>1, <1>3, <1>9
  <2> QED BY <2>1 DEF Occurs
<1>12. ASSUME NEW r \in Records', r.line \in 1..line_count, Occurs(r)'
       PROVE  r \in Records
  <2>1. /\ r.word \in 1..Len(e) /\ r.start \in 0..Len(text) - 1
        /\ r = [word |-> r.word, line |-> r.line, start |-> r.start]
    BY <1>7, RecordIs
  <2> DEFINE d == StoredLine(r.line)
             i == r.start + 1
             w == e[r.word]
  <2>2. d \in Seq(Chars) /\ ~Has(d, {Newline})
    BY <1>12, LineIs
  <2>3. i \in DOMAIN d /\ StandsAt(w, d, i)
    <3>1. StoredLine(r.line)' = StoredLine(r.line)
      BY <1>1, <1>12
    <3> QED BY <1>12, <3>1 DEF Occurs
  <2>4. Entry(w)
    BY <1>3, <2>1
  <2> HIDE DEF w, i
  <2>5. i \in WordStarts(d) /\ LowerOf(WordAt(d, i)) = w
    <3> HIDE DEF d
    <3> QED BY <2>2, <2>3, <2>4, EntryStands
  <2>6. Lookup(lexicon, WordAt(d, i)) # {}
    BY <1>12, <2>5 DEF LexiconInv
  <2>7. PICK v \in DOMAIN lexicon : lexicon[v] = w
    BY <2>5, <2>6 DEF Lookup
  <2>8. v \in 1..Len(lexicon) /\ v \in DOMAIN e /\ e[v] = w
    <3>1. Len(lexicon) \in Nat /\ v \in 1..Len(lexicon)
      BY <2>7, LexiconIs
    <3> QED BY <1>3, <2>7, <3>1
  <2>9. v = r.word
    BY <1>3, <2>1, <2>8 DEF w
  <2> QED BY <1>12, <2>1, <2>8, <2>9 DEF Records
<1>13. ASSUME NEW r \in Records', NEW i \in starts, r = record[i]
       PROVE  Occurs(r)' /\ r.line = now
  <2>1. r.word = Id(i) /\ r.line = now /\ r.start = i - 1
    BY <1>6, <1>13
  <2>2. r.start + 1 = i
    BY <1>5, <2>1
  <2>3. StoredLine(r.line)' = Data
    <3>1. r.line \in Nat /\ r.line = line_count + 1
      BY <1>1, <2>1
    <3> QED BY <1>1, <3>1
  <2>4. Entry(e[r.word]) /\ LowerOf(WordAt(Data, i)) = e[r.word]
    BY <1>3, <1>5, <2>1
  <2> DEFINE w == e[r.word]
  <2>5. i \in DOMAIN Data /\ StandsAt(w, Data, i)
    <3> HIDE DEF w
    <3>1. Entry(w) /\ LowerOf(WordAt(Data, i)) = w
      BY <2>4 DEF w
    <3> QED BY <1>2, <3>1, EntryStands
  <2> HIDE DEF now
  <2> QED BY <2>1, <2>2, <2>3, <2>5 DEF Occurs
<1>14. ASSUME NEW r \in Records', r.line = now, Occurs(r)'
       PROVE  \E i \in starts : r = record[i]
  <2>1. /\ r.word \in 1..Len(e) /\ r.start \in 0..Len(text) - 1
        /\ r = [word |-> r.word, line |-> r.line, start |-> r.start]
    BY <1>7, RecordIs
  <2> DEFINE i == r.start + 1
             w == e[r.word]
  <2>2. StoredLine(r.line)' = Data
    <3>1. r.line \in Nat /\ r.line = line_count + 1
      BY <1>1, <1>14
    <3> QED BY <1>1, <3>1
  <2>3. i \in DOMAIN Data /\ StandsAt(w, Data, i) /\ Entry(w)
    BY <1>3, <1>14, <2>1, <2>2 DEF Occurs
  <2>4. i - 1 = r.start
    BY <1>1, <2>1
  <2> HIDE DEF w, i
  <2>5. i \in starts /\ LowerOf(WordAt(Data, i)) = w
    BY <1>2, <2>3, EntryStands
  <2>6. r.word = Id(i)
    BY <1>3, <1>5, <2>1, <2>5 DEF w
  <2> HIDE DEF now
  <2>7. record[i] = [word |-> r.word, line |-> r.line, start |-> r.start]
    BY <1>6, <1>14, <2>4, <2>5, <2>6
  <2> QED BY <2>1, <2>5, <2>7
(***************************************************************************)
(* Bucket by bucket.                                                       *)
(***************************************************************************)
<1>15. ASSUME NEW b \in Buckets
       PROVE  /\ occ'[b] \in Seq(Records') /\ Sorted(occ'[b])
              /\ ToSet(occ'[b]) = {r \in Records' : Bucket(e[r.word]) = b /\ Occurs(r)'}
  <2> DEFINE old == occ[b]
             new == ElementsAt(record, In(b))
             c == occ'[b]
  <2>1. c = old \o new
    BY <1>4
  <2>2. /\ old \in Seq(Records) /\ Len(old) \in Nat /\ DOMAIN old = 1..Len(old) /\ Sorted(old)
        /\ ToSet(old) = {r \in Records : Bucket(lexicon[r.word]) = b /\ Occurs(r)}
    BY OccIs
  <2>3. Picked(new, record, In(b), Records')
    <3>1. \A i \in In(b) : record[i] \in Records'
      BY <1>8, <1>10
    <3> HIDE DEF In
    <3> QED BY <1>10, <3>1, ElementsAtIs
  <2> HIDE DEF old, new, c
  <2>4. old \in Seq(Records')
    <3>1. Records \subseteq Records'
      BY <1>9
    <3> QED BY <2>2, <3>1, SeqMonotonic
  <2>5. Joined(c, old, new, Records')
    <3>1. new \in Seq(Records')
      BY <2>3 DEF Picked
    <3> QED BY <2>1, <2>4, <3>1, ConcatIs
  <2>6. ASSUME NEW r \in ToSet(c)
        PROVE  r \in Records' /\ Bucket(e[r.word]) = b /\ Occurs(r)'
    <3>1. CASE r \in ToSet(old)
      BY <1>9, <1>11, <2>2, <3>1
    <3>2. CASE r \in ToSet(new)
      <4>1. PICK i \in In(b) : r = record[i]
        BY <2>3, <3>2 DEF Picked
      <4>2. i \in starts /\ Bucket(e[Id(i)]) = b
        BY <4>1
      <4>3. r \in Records' /\ r.word = Id(i)
        BY <1>6, <1>8, <4>1, <4>2
      <4> QED BY <1>13, <4>1, <4>2, <4>3
    <3> QED BY <2>5, <3>1, <3>2 DEF Joined
  <2>7. ASSUME NEW r \in Records', Bucket(e[r.word]) = b, Occurs(r)'
        PROVE  r \in ToSet(c)
    <3>1. r.line \in 1..now
      BY <1>7, RecordIs
    <3>2. CASE r.line = now
      <4>1. PICK i \in starts : r = record[i]
        BY <1>14, <2>7, <3>2
      <4>2. r.word = Id(i)
        BY <1>6, <4>1
      <4>3. i \in In(b)
        BY <2>7, <4>2
      <4>4. r \in ToSet(new)
        BY <2>3, <4>1, <4>3 DEF Picked
      <4> QED BY <2>5, <4>4 DEF Joined
    <3>3. CASE r.line \in 1..line_count
      <4>1. r \in Records
        BY <1>12, <2>7, <3>3
      <4>2. r \in ToSet(old)
        BY <1>11, <2>2, <2>7, <4>1
      <4> QED BY <2>5, <4>2 DEF Joined
    <3> QED BY <1>1, <3>1, <3>2, <3>3
  <2>8. ToSet(c) = {r \in Records' : Bucket(e[r.word]) = b /\ Occurs(r)'}
    BY <2>6, <2>7
  <2> DEFINE m == Len(old)
             n == Len(new)
  <2>9. /\ c \in Seq(Records') /\ Len(c) = m + n /\ m \in Nat /\ n \in Nat /\ DOMAIN c = 1..Len(c)
        /\ \A i \in 1..m : c[i] = old[i]
        /\ \A i \in 1..n : c[m + i] = new[i]
        /\ \A k \in 1..Len(c) : k \in 1..m \/ \E i \in 1..n : k = m + i
    <3>1. new \in Seq(Records')
      BY <2>3 DEF Picked
    <3> HIDE DEF Records
    <3> QED BY <2>2, <2>5, <3>1 DEF Joined
  <2>10. \A i \in 1..m : old[i] \in Records
    BY <2>2, ElementOfSeq
  <2>11. \A i, j \in 1..n : i < j => \E x, y \in In(b) : x < y /\ new[i] = record[x] /\ new[j] = record[y]
    BY <2>3 DEF Picked
  <2>12. \A i \in 1..n : \E x \in In(b) : new[i] = record[x]
    <3>1. DOMAIN new = 1..n
      BY <2>3 DEF Picked
    <3>2. \A i \in 1..n : new[i] \in ToSet(new)
      BY <3>1 DEF ToSet
    <3> QED BY <2>3, <3>2 DEF Picked
  <2> HIDE DEF m, n
  <2>13. ASSUME NEW i \in 1..Len(c), NEW j \in 1..Len(c), i < j
         PROVE  Before(c[i], c[j])
    <3>1. CASE j \in 1..m
      <4>1. i \in 1..m
        BY <2>9, <2>13, <3>1
      <4>2. Before(old[i], old[j])
        BY <2>2, <2>13, <3>1, <4>1 DEF Sorted, m
      <4> QED BY <2>9, <3>1, <4>1, <4>2
    <3>2. CASE ~(j \in 1..m)
      <4>1. PICK k \in 1..n : j = m + k
        BY <2>9, <3>2
      <4>2. CASE i \in 1..m
        <5>1. PICK y \in In(b) : new[k] = record[y]
          BY <2>12
        <5>2. c[i] \in Records /\ c[j] = record[y] /\ y \in starts
          BY <2>9, <2>10, <4>1, <4>2, <5>1
        <5>3. c[i].line \in 1..line_count /\ c[j].line = line_count + 1
          BY <1>6, <1>9, <5>2
        <5> QED BY <1>1, <5>3 DEF Before
      <4>3. CASE \E l \in 1..n : i = m + l
        <5>1. PICK l \in 1..n : i = m + l
          BY <4>3
        <5>2. l < k
          BY <2>9, <2>13, <4>1, <5>1
        <5>3. PICK x, y \in In(b) : x < y /\ new[l] = record[x] /\ new[k] = record[y]
          BY <2>11, <5>2
        <5>4. c[i] = record[x] /\ c[j] = record[y] /\ x \in starts /\ y \in starts
          BY <2>9, <4>1, <5>1, <5>3
        <5>5. c[i].line = now /\ c[j].line = now /\ c[i].start = x - 1 /\ c[j].start = y - 1
          BY <1>6, <5>4
        <5>6. x - 1 < y - 1
          BY <1>5, <5>3, <5>4
        <5> QED BY <5>5, <5>6 DEF Before
      <4> QED BY <2>9, <4>2, <4>3
    <3> QED BY <3>1, <3>2
  <2>14. Sorted(c)
    BY <2>9, <2>13 DEF Sorted
  <2> QED BY <2>8, <2>9, <2>14 DEF c
<1>16. occ' \in [Buckets -> Seq(Records')]
  <2>1. DOMAIN occ' = Buckets /\ occ' = [b \in Buckets |-> occ'[b]]
    BY <1>4
  <2> QED BY <1>15, <2>1
<1>17. ASSUME NEW b \in Buckets
       PROVE  {r \in Records' : Bucket(e[r.word]) = b /\ Occurs(r)'} =
                {r \in Records : Bucket(lexicon[r.word]) = b /\ Occurs(r)}'
  OBVIOUS
<1>18. Buckets' = Buckets
  BY DEF Buckets
<1>19. OccInv'
  BY <1>15, <1>17, <1>18 DEF OccInv, Sorted, Before
<1> QED BY <1>16, <1>19

LEMMA LexiconStepHolds ==
  ASSUME TypeOK, LexiconInv, LineAdded, EntriesAdded(lexicon')
  PROVE  LexiconInv'
<1> DEFINE e == lexicon'
<1>1. /\ line_count \in Nat /\ line_count' = line_count + 1
      /\ \A n \in 1..line_count : StoredLine(n)' = StoredLine(n)
      /\ \A n \in Nat : n = line_count + 1 => StoredLine(n)' = Data
  BY TextIs DEF LineAdded
<1>2. /\ DOMAIN e = 1..Len(e) /\ Len(e) \in Nat /\ Len(lexicon) <= Len(e)
      /\ \A w \in 1..Len(lexicon) : e[w] = lexicon[w]
      /\ \A v, w \in DOMAIN e : e[v] = e[w] => v = w
      /\ \A w \in DOMAIN e : Entry(e[w])
      /\ \A i \in WordStarts(Data) : Lookup(e, WordAt(Data, i)) # {}
  BY DEF EntriesAdded
<1>3. \A w \in DOMAIN e : e[w] # <<>> /\ ~Has(e[w], Breaks) /\ LowerOf(e[w]) = e[w] /\ Bucket(e[w]) \in Buckets
  BY <1>2 DEF Entry, GoodWord
<1>4. DOMAIN lexicon = 1..Len(lexicon) /\ Len(lexicon) \in Nat
  BY LexiconIs
<1> HIDE DEF e
<1>5. ASSUME NEW n \in 1..line_count', NEW d, d = StoredLine(n)', NEW i \in WordStarts(d)
      PROVE  Lookup(e, WordAt(d, i)) # {}
  <2>1. CASE n \in 1..line_count
    <3>1. d = StoredLine(n)
      BY <1>1, <1>5, <2>1
    <3>2. Lookup(lexicon, WordAt(d, i)) # {}
      BY <2>1, <3>1 DEF LexiconInv
    <3>3. PICK v \in DOMAIN lexicon : lexicon[v] = LowerOf(WordAt(d, i))
      BY <3>2 DEF Lookup
    <3>4. v \in DOMAIN e /\ e[v] = LowerOf(WordAt(d, i))
      BY <1>2, <1>4, <3>3
    <3> QED BY <3>4 DEF Lookup
  <2>2. CASE n = line_count + 1
    <3>1. n \in Nat
      BY <1>1, <2>2
    <3>2. d = Data
      BY <1>1, <1>5, <2>2, <3>1
    <3> QED BY <1>2, <3>2
  <2> QED BY <1>1, <2>1, <2>2
<1>6. \A n \in 1..line_count' : \A i \in WordStarts(StoredLine(n)') :
        Lookup(lexicon', WordAt(StoredLine(n)', i)) # {}
  BY <1>5 DEF e
<1>7. /\ Breaks' = Breaks /\ Buckets' = Buckets
      /\ \A w : LowerOf(w)' = LowerOf(w) /\ Has(w, Breaks)' = Has(w, Breaks) /\ Bucket(w)' = Bucket(w)
      /\ \A w : Lookup(lexicon, w)' = Lookup(lexicon', w)
      /\ \A d : WordStarts(d)' = WordStarts(d)
      /\ \A d, i : WordAt(d, i)' = WordAt(d, i)
  OBVIOUS
<1>8. /\ \A v, w \in DOMAIN lexicon' : lexicon'[v] = lexicon'[w] => v = w
      /\ \A w \in DOMAIN lexicon' :
           /\ lexicon'[w] # <<>>
           /\ ~Has(lexicon'[w], Breaks)
           /\ LowerOf(lexicon'[w]) = lexicon'[w]
           /\ Bucket(lexicon'[w]) \in Buckets
  BY <1>2, <1>3 DEF e
<1> QED BY <1>6, <1>8 DEF LexiconInv

LEMMA IndexStepHolds ==
  ASSUME EngineInv, IndexLine
  PROVE  EngineInv'
<1> USE DEF EngineInv
<1>1. pc = "index" /\ input_pos < Len(text)
  BY DEF IndexLine
<1>2. LineAdded
  BY LineIsAdded
<1>3. lexicon' = EntriesWith(Data) /\ occ' = FilesWith(Data, line_count + 1, lexicon')
  BY DEF IndexLine, Data
<1>4. EntriesAdded(lexicon')
  BY <1>1, <1>3, EntriesAreAdded
<1>5. OffsetsInv' /\ LexiconInv'
  BY <1>1, <1>2, <1>4, OffsetsStepHolds, LexiconStepHolds
<1>6. occ' \in [Buckets -> Seq(Records')] /\ OccInv'
  BY <1>1, <1>2, <1>3, <1>4, OccStepHolds
<1>7. /\ UNCHANGED <<text, cache, pc, query, printed, words, stage, lines, left, right>>
      /\ cache = <<>>
  BY <1>1 DEF IndexLine, merge, streams, CacheInv
<1>8. TypeOK'
  <2>1. /\ text' = text /\ line_count' = line_count + 1 /\ line_count' \in 0..Len(text)
        /\ input_pos' = NewPos /\ offsets' \in Seq(0..Len(text))
    BY <1>2 DEF LineAdded
  <2>2. input_pos' \in 0..Len(text)
    <3>1. NewPos \in Nat /\ NewPos <= Len(text) /\ Len(text) \in Nat
      BY <1>1, NextLineIs, TextIs DEF NextLine
    <3> QED BY <2>1, <3>1
  <2>3. /\ lexicon' \in Seq(Seq(Chars)) /\ 1..Len(lexicon) \subseteq 1..Len(lexicon')
        /\ 1..line_count \subseteq 1..line_count'
    <3>1. lexicon' \in Seq(Seq(Chars)) /\ Len(lexicon') \in Nat /\ Len(lexicon) \in Nat /\ Len(lexicon) <= Len(lexicon')
      BY <1>4, LexiconIs DEF EntriesAdded
    <3>2. line_count \in Nat
      BY TextIs
    <3> QED BY <2>1, <3>1, <3>2
  <2>4. words' \in Seq(1..Len(lexicon'))
    <3>1. words \in Seq(1..Len(lexicon))
      BY DEF TypeOK
    <3> QED BY <1>7, <2>3, <3>1, SeqMonotonic
  <2>5. lines' \in Seq(1..line_count')
    <3>1. lines \in Seq(1..line_count)
      BY DEF TypeOK
    <3> QED BY <1>7, <2>3, <3>1, SeqMonotonic
  <2>6. DOMAIN cache' = {} /\ Buckets' = Buckets
    BY <1>7 DEF Buckets
  <2>7. /\ text \in Texts /\ query \in Queries \cup {NoQuery} /\ printed \in Seq(Seq(Nat))
        /\ stage \in 0..Len(words)
    BY DEF TypeOK
  <2> HIDE DEF Records
  <2> QED BY <1>1, <1>6, <1>7, <2>1, <2>2, <2>3, <2>4, <2>5, <2>6, <2>7 DEF TypeOK
<1>9. CacheInv' /\ PhaseInv' /\ MergeInv' /\ PatternInv' /\ AnswersAreRight'
  BY <1>1, <1>7 DEF CacheInv, PhaseInv, MergeInv, PatternInv, AnswersAreRight
<1> QED BY <1>5, <1>6, <1>8, <1>9

-----------------------------------------------------------------------------
(* What the stores hold.                                                   *)

RecordsOf(w) == {r \in Records : r.word = w /\ Occurs(r)}
Refs(records) == {LineRef(r) : r \in records}

LEMMA PostingsAre ==
  ASSUME TypeOK, LexiconInv, OccInv, NEW w \in DOMAIN lexicon
  PROVE  /\ Postings(w) \in Seq(Records) /\ Sorted(Postings(w))
         /\ ToSet(Postings(w)) = RecordsOf(w)
         /\ {r \in ToSet(WholeBucket(w)) : r.word = w} = RecordsOf(w)
<1> DEFINE b == Bucket(lexicon[w])
           all == WholeBucket(w)
           own == {i \in DOMAIN all : all[i].word = w}
           p == Postings(w)
<1>1. b \in Buckets
  BY LexiconIs DEF Entry
<1>2. /\ all \in Seq(Records) /\ Len(all) \in Nat /\ DOMAIN all = 1..Len(all) /\ Sorted(all)
      /\ ToSet(all) = {r \in Records : Bucket(lexicon[r.word]) = b /\ Occurs(r)}
  BY <1>1, OccIs DEF WholeBucket
<1>3. p = ElementsAt(all, own)
  BY DEF Postings
<1> HIDE DEF all, p
<1>4. {r \in ToSet(all) : r.word = w} = RecordsOf(w)
  BY <1>2 DEF RecordsOf
<1> HIDE DEF b
<1>5. own \subseteq 1..Len(all) /\ own \in SUBSET Nat /\ IsFiniteSet(own)
  <2>1. own \subseteq 1..Len(all)
    BY <1>2
  <2> HIDE DEF own
  <2> QED BY <1>2, <2>1, SubsetOfInterval
<1>6. \A i \in own : all[i] \in Records /\ all[i].word = w /\ i \in DOMAIN all
  BY <1>2, ElementOfSeq
<1>7. \A i \in DOMAIN all : all[i].word = w => i \in own
  OBVIOUS
<1> HIDE DEF own
<1>8. Picked(p, all, own, Records)
  BY <1>3, <1>5, <1>6, ElementsAtIs
<1>9. /\ p \in Seq(Records) /\ DOMAIN p = 1..Len(p)
      /\ \A x : x \in ToSet(p) <=> \E i \in own : x = all[i]
      /\ \A m, n \in 1..Len(p) : m < n => \E i, j \in own : i < j /\ p[m] = all[i] /\ p[n] = all[j]
  <2> HIDE DEF Records
  <2> QED BY <1>8 DEF Picked
<1>10. Sorted(p)
  <2>1. ASSUME NEW m \in 1..Len(p), NEW n \in 1..Len(p), m < n
        PROVE  Before(p[m], p[n])
    <3>1. PICK i, j \in own : i < j /\ p[m] = all[i] /\ p[n] = all[j]
      BY <1>9, <2>1
    <3> QED BY <1>2, <1>6, <3>1 DEF Sorted
  <2> QED BY <1>9, <2>1 DEF Sorted
<1>11. ToSet(p) = {r \in ToSet(all) : r.word = w}
  <2>1. \A x : x \in ToSet(all) <=> \E i \in DOMAIN all : x = all[i]
    BY DEF ToSet
  <2>2. ASSUME NEW x
        PROVE  x \in ToSet(p) <=> (x \in ToSet(all) /\ x.word = w)
    <3>1. x \in ToSet(p) => x \in ToSet(all) /\ x.word = w
      BY <1>6, <1>9, <2>1
    <3>2. x \in ToSet(all) /\ x.word = w => x \in ToSet(p)
      BY <1>7, <1>9, <2>1
    <3> QED BY <3>1, <3>2
  <2> QED BY <2>2
<1> QED BY <1>4, <1>9, <1>10, <1>11 DEF p, all

(***************************************************************************)
(* The records of a word and the places of the word in the lines read.     *)
(***************************************************************************)
LEMMA RecordsAndPlaces ==
  ASSUME TypeOK, OffsetsInv, LexiconInv, NEW w \in DOMAIN lexicon
  PROVE  Refs(RecordsOf(w)) = {x \in Places(lexicon[w]) : x[1] <= line_count}
<1> DEFINE s == lexicon[w]
<1>1. Entry(s) /\ s \in Seq(Chars) /\ s # <<>> /\ ~Has(s, {Newline})
  <2>1. Entry(s)
    BY LexiconIs
  <2> HIDE DEF s
  <2> QED BY <2>1, GoodWordIs DEF Entry
<1>2. line_count \in Nat /\ Len(text) \in Nat /\ DOMAIN lexicon = 1..Len(lexicon)
  BY TextIs, LexiconIs
<1>3. ASSUME NEW r \in RecordsOf(w)
      PROVE  PlaceInLines(s, LineRef(r))
  <2>1. r \in Records /\ r.word = w /\ Occurs(r)
    BY DEF RecordsOf
  <2>2. r.line \in 1..line_count /\ r.start \in 0..Len(text) - 1
    BY <2>1, RecordIs DEF Records
  <2>3. (r.start + 1) - 1 = r.start
    BY <1>2, <2>2
  <2> DEFINE i == r.start + 1
             n == r.line
  <2>4. n \in 1..line_count /\ i \in DOMAIN StoredLine(n) /\ StandsAt(s, StoredLine(n), i)
    BY <2>1, <2>2 DEF Occurs
  <2>5. LineRef(r) = <<n, i - 1>>
    BY <2>3 DEF LineRef
  <2> HIDE DEF i, n, s
  <2> QED BY <2>4, <2>5 DEF PlaceInLines
<1>4. ASSUME NEW x, PlaceInLines(s, x)
      PROVE  \E r \in RecordsOf(w) : x = LineRef(r)
  <2>1. PICK n \in 1..line_count : \E i \in DOMAIN StoredLine(n) :
          StandsAt(s, StoredLine(n), i) /\ x = <<n, i - 1>>
    BY <1>4 DEF PlaceInLines
  <2>2. PICK i \in DOMAIN StoredLine(n) : StandsAt(s, StoredLine(n), i) /\ x = <<n, i - 1>>
    BY <2>1
  <2>3. /\ i \in 1..Len(StoredLine(n)) /\ Len(StoredLine(n)) \in Nat /\ offsets[n] \in Nat
        /\ offsets[n] + Len(StoredLine(n)) <= Len(text)
    BY LineIs
  <2>4. i - 1 \in 0..Len(text) - 1 /\ (i - 1) + 1 = i
    BY <1>2, <2>3
  <2> DEFINE r == [word |-> w, line |-> n, start |-> i - 1]
  <2>5. r \in Records
    BY <1>2, <2>4 DEF Records
  <2>6. r.word = w /\ r.line = n /\ r.start = i - 1
    OBVIOUS
  <2> HIDE DEF r
  <2>7. Occurs(r)
    BY <2>2, <2>4, <2>6 DEF Occurs
  <2>8. r \in RecordsOf(w) /\ x = LineRef(r)
    BY <2>2, <2>5, <2>6, <2>7 DEF RecordsOf, LineRef
  <2> QED BY <2>8
<1> HIDE DEF s
<1>5. \A x : (x \in Places(s) /\ x[1] <= line_count) <=> PlaceInLines(s, x)
  BY <1>1, PlacesAre
<1>6. \A x : x \in Refs(RecordsOf(w)) <=> \E r \in RecordsOf(w) : x = LineRef(r)
  BY DEF Refs
<1>7. \A x : x \in Refs(RecordsOf(w)) <=> (x \in Places(s) /\ x[1] <= line_count)
  BY <1>3, <1>4, <1>5, <1>6
<1> QED BY <1>7 DEF s

(***************************************************************************)
(* Records in order give their places in order.                            *)
(***************************************************************************)
LEMMA RefsAreListed ==
  ASSUME NEW records \in Seq(Records), Sorted(records)
  PROVE  /\ LineRefs(records) \in Seq(Seq(Nat))
         /\ Lists(LineRefs(records), Refs(ToSet(records)))
<1> DEFINE n == Len(records)
           t == LineRefs(records)
<1>1. n \in Nat /\ DOMAIN records = 1..n
  BY LenProperties
<1>2. \A i \in 1..n : records[i] \in Records
  BY ElementOfSeq
<1>3. \A i \in 1..n : records[i].line \in Nat /\ records[i].start \in Nat
  BY <1>2, RecordIs DEF Records
<1>4. t = [i \in 1..n |-> <<records[i].line, records[i].start>>]
  BY <1>1 DEF LineRefs, LineRef
<1> HIDE DEF n, t
<1>5. \A i \in 1..n : t[i] = <<records[i].line, records[i].start>> /\ t[i] = LineRef(records[i])
  BY <1>4 DEF LineRef
<1>6. \A i \in 1..n : t[i] \in Seq(Nat) /\ Len(t[i]) = 2
  <2>1. \A a, b \in Nat : <<a, b>> \in Seq(Nat) /\ Len(<<a, b>>) = 2
    OBVIOUS
  <2>2. ASSUME NEW i \in 1..n
        PROVE  t[i] \in Seq(Nat) /\ Len(t[i]) = 2
    <3>1. t[i] = <<records[i].line, records[i].start>>
      BY <1>5
    <3>2. records[i].line \in Nat /\ records[i].start \in Nat
      BY <1>3
    <3> QED BY <2>1, <3>1, <3>2
  <2> QED BY <2>2
<1>7. t \in Seq(Seq(Nat)) /\ DOMAIN t = 1..n
  <2>1. t \in [1..n -> Seq(Nat)]
    BY <1>4, <1>6
  <2> QED BY <1>1, <2>1
<1>8. ToSet(t) = Refs(ToSet(records))
  <2>1. \A x : x \in ToSet(t) <=> \E i \in 1..n : x = t[i]
    BY <1>7 DEF ToSet
  <2>2. \A x : x \in Refs(ToSet(records)) <=> \E i \in 1..n : x = LineRef(records[i])
    BY <1>1 DEF ToSet, Refs
  <2> QED BY <1>5, <2>1, <2>2
<1>9. ASSUME NEW i \in 1..n, NEW j \in 1..n, i < j
      PROVE  Earlier(t[i], t[j])
  <2>1. Before(records[i], records[j])
    BY <1>1, <1>9 DEF Sorted
  <2>2. /\ t[i] = <<records[i].line, records[i].start>> /\ t[j] = <<records[j].line, records[j].start>>
        /\ Len(t[i]) = 2
    BY <1>5, <1>6
  <2>3. t[i][1] = records[i].line /\ t[i][2] = records[i].start /\ t[j][1] = records[j].line /\ t[j][2] = records[j].start
    BY <2>2
  <2> QED BY <2>1, <2>2, <2>3 DEF Before, Earlier
<1> QED BY <1>7, <1>8, <1>9 DEF Lists, t

LEMMA StoresHold ==
  ASSUME EngineInv
  PROVE  StoresAreExact
<1> USE DEF EngineInv
<1>1. ASSUME NEW w \in DOMAIN lexicon
      PROVE  {LineRef(r) : r \in {x \in ToSet(WholeBucket(w)) : x.word = w}} =
               {x \in Places(lexicon[w]) : x[1] <= line_count}
  BY PostingsAre, RecordsAndPlaces DEF Refs
<1>2. ASSUME NEW b \in Buckets, NEW i \in DOMAIN occ[b], NEW j \in DOMAIN occ[b], i < j
      PROVE  Earlier(LineRef(occ[b][i]), LineRef(occ[b][j]))
  <2>1. Before(occ[b][i], occ[b][j])
    BY <1>2, OccIs DEF Sorted
  <2> QED BY <2>1 DEF Before, Earlier, LineRef
<1>3. PostingsAreExact
  BY <1>1, <1>2 DEF PostingsAreExact
<1>4. ASSUME NEW w \in DOMAIN cache
      PROVE  Lists(LineRefs(cache[w]), Places(lexicon[w]))
  <2>1. w \in DOMAIN lexicon /\ cache[w] = Postings(w) /\ pc # "index"
    <3>1. w \in 1..Len(lexicon) /\ cache # <<>>
      BY DEF TypeOK
    <3> QED BY <3>1, LexiconIs DEF CacheInv
  <2>2. input_pos = Len(text)
    BY <2>1 DEF PhaseInv
  <2>3. {x \in Places(lexicon[w]) : x[1] <= line_count} = Places(lexicon[w])
    BY <2>2, AllIsRead
  <2>4. Refs(RecordsOf(w)) = Places(lexicon[w])
    BY <2>1, <2>3, RecordsAndPlaces
  <2>5. Postings(w) \in Seq(Records) /\ Sorted(Postings(w)) /\ ToSet(Postings(w)) = RecordsOf(w)
    BY <2>1, PostingsAre
  <2> QED BY <2>1, <2>4, <2>5, RefsAreListed
<1>5. CachesAreExact
  BY <1>4 DEF CachesAreExact
<1>6. ASSUME NEW n \in 1..line_count
      PROVE  IsLine(StoredLine(n), n)
  <2> DEFINE d == StoredLine(n)
             b == offsets[n] + 1
  <2>1. /\ offsets[n] \in Nat /\ offsets[n + 1] \in Nat /\ Len(text) \in Nat
        /\ offsets[n] < offsets[n + 1] /\ offsets[n + 1] <= Len(text)
        /\ d \in Seq(Chars) /\ ~Has(d, {Newline}) /\ Len(d) \in Nat
        /\ \A k \in 1..Len(d) : d[k] = text[offsets[n] + k]
        /\ offsets[n] + Len(d) <= Len(text)
        /\ offsets[n] + Len(d) < Len(text) => text[offsets[n] + Len(d) + 1] = Newline
        /\ text \in Seq(Chars) /\ \A p \in 1..Len(text) : text[p] \in Chars
    BY LineIs, TextIs
  <2>2. b \in Begins /\ b \in Stretch(n) /\ b \in Nat
    BY <2>1 DEF OffsetsInv, Stretch
  <2>3. PlaceOf(b) = <<n, 0>>
    <3>1. PlaceOf(b) = <<n, b - offsets[n] - 1>>
      <4> HIDE DEF b
      <4> QED BY <2>2, PlaceIs
    <3>2. b - offsets[n] - 1 = 0
      BY <2>1
    <3> QED BY <3>1, <3>2
  <2> DEFINE end == b + Len(d)
             part == SubSeq(text, b, end - 1)
  <2>4. d = part
    <3>1. \A i \in b..end - 1 : text[i] \in Chars
      BY <2>1
    <3>2. /\ part \in Seq(Chars)
          /\ Len(part) = IF b <= end - 1 THEN (end - 1) - b + 1 ELSE 0
          /\ \A k \in 1..(end - 1) - b + 1 : part[k] = text[b + k - 1]
      <4>1. b \in Int /\ end - 1 \in Int
        BY <2>1
      <4> HIDE DEF b, end
      <4> QED BY <3>1, <4>1, SubSeqProperties
    <3>3. /\ (IF b <= end - 1 THEN (end - 1) - b + 1 ELSE 0) = Len(d)
          /\ (end - 1) - b + 1 = Len(d)
          /\ \A k \in 1..Len(d) : b + k - 1 = offsets[n] + k
      <4>1. Len(d) \in Nat /\ b = offsets[n] + 1 /\ b \in Nat /\ end = b + Len(d) /\ offsets[n] \in Nat
        BY <2>1
      <4> HIDE DEF d, b, end
      <4> QED BY <4>1, SMTT(40)
    <3> HIDE DEF part, end, d, b
    <3>4. Len(part) = Len(d) /\ \A k \in 1..Len(d) : part[k] = d[k]
      BY <2>1, <3>2, <3>3
    <3> QED BY <2>1, <3>2, <3>4, SeqEqual
  <2>5. end <= Len(text) => text[end] = Newline
    BY <2>1
  <2> HIDE DEF d
  <2> QED BY <2>1, <2>2, <2>3, <2>4, <2>5 DEF IsLine, d
<1>7. LinesAreReadBack
  BY <1>6 DEF LinesAreReadBack, OffsetsInv
<1> QED BY <1>3, <1>5, <1>7 DEF StoresAreExact

-----------------------------------------------------------------------------
(* Queries leave the stores of the index alone.                            *)

LEMMA AnswerFrame ==
  ASSUME text' = text
  PROVE  /\ RightAnswer(query)' = RightAnswer(query')
         /\ LinesWith(StageWords)' = LinesWith({lexicon'[words'[k]] : k \in 1..stage'})
<1>1. RightAnswer(query)' = RightAnswer(query')
  BY DEF RightAnswer, PhraseAnswer, PatternAnswer, WordsAnswer, LinesWith, AllLines, Places, PlaceOf, Begins
<1>2. LinesWith(StageWords)' = LinesWith({lexicon'[words'[k]] : k \in 1..stage'})
  BY DEF LinesWith, AllLines, Places, PlaceOf, Begins, StageWords
<1> QED BY <1>1, <1>2

LEMMA IndexFrame ==
  ASSUME OffsetsInv, LexiconInv, OccInv, UNCHANGED index
  PROVE  /\ OffsetsInv' /\ LexiconInv' /\ OccInv'
         /\ Records' = Records /\ Buckets' = Buckets
         /\ \A w : Postings(w)' = Postings(w)
         /\ text' = text /\ input_pos' = input_pos /\ offsets' = offsets
         /\ line_count' = line_count /\ lexicon' = lexicon /\ occ' = occ
<1>1. /\ text' = text /\ input_pos' = input_pos /\ offsets' = offsets
      /\ line_count' = line_count /\ lexicon' = lexicon /\ occ' = occ
  BY DEF index
<1>2. OffsetsInv'
  BY <1>1 DEF OffsetsInv, CountBegins, Begins, Stretch
<1>3. \A n : StoredLine(n)' = StoredLine(n)
  BY <1>1 DEF StoredLine
<1>4. LexiconInv'
  BY <1>1, <1>3 DEF LexiconInv
<1>5. Records' = Records /\ Buckets' = Buckets
  BY <1>1 DEF Records, Buckets
<1>6. \A r : Occurs(r)' = Occurs(r)
  BY <1>1, <1>3 DEF Occurs
<1>7. OccInv'
  BY <1>1, <1>5, <1>6 DEF OccInv
<1>8. \A w : Postings(w)' = Postings(w)
  BY <1>1 DEF Postings, WholeBucket
<1> QED BY <1>1, <1>2, <1>4, <1>5, <1>7, <1>8

(***************************************************************************)
(* Caches are made, for words of the lexicon.                              *)
(***************************************************************************)
CachesKept ==
  /\ DOMAIN cache' \subseteq DOMAIN lexicon
  /\ \A w \in DOMAIN cache' : cache'[w] = Postings(w)

LEMMA CachesAreMade ==
  ASSUME EngineInv, NEW ids, ids \subseteq DOMAIN lexicon, cache' = WithCaches(ids)
  PROVE  /\ CachesKept /\ ids \subseteq DOMAIN cache'
         /\ \A w \in ids : w \in DOMAIN lexicon /\ cache'[w] = Postings(w)
<1>1. /\ DOMAIN cache' = DOMAIN cache \cup ids
      /\ \A w \in DOMAIN cache' : cache'[w] = IF w \in DOMAIN cache THEN cache[w] ELSE Postings(w)
  BY DEF WithCaches
<1>2. DOMAIN cache \subseteq DOMAIN lexicon
  <2>1. DOMAIN cache \subseteq 1..Len(lexicon)
    BY DEF EngineInv, TypeOK
  <2> QED BY <2>1, LexiconIs DEF EngineInv
<1>3. \A w \in DOMAIN cache : cache[w] = Postings(w)
  BY DEF EngineInv, CacheInv
<1> QED BY <1>1, <1>2, <1>3 DEF CachesKept

(***************************************************************************)
(* What each step after the index has to keep.                             *)
(***************************************************************************)
LEMMA ServingHolds ==
  ASSUME EngineInv, UNCHANGED index, pc # "index", CachesKept,
         pc' \in {"read", "merge", "pattern"},
         query' \in Queries, printed' \in Seq(Seq(Nat)),
         words' \in Seq(1..Len(lexicon)), stage' \in 0..Len(words'), lines' \in Seq(1..line_count),
         pc' = "merge" => {left', right'} \subseteq Seq(1..line_count),
         pc' = "pattern" => {left', right'} \subseteq Seq(Records)
  PROVE  TypeOK' /\ OffsetsInv' /\ LexiconInv' /\ OccInv' /\ CacheInv' /\ PhaseInv'
<1>1. /\ OffsetsInv' /\ LexiconInv' /\ OccInv'
      /\ Records' = Records /\ Buckets' = Buckets
      /\ \A w : Postings(w)' = Postings(w)
      /\ text' = text /\ input_pos' = input_pos /\ offsets' = offsets
      /\ line_count' = line_count /\ lexicon' = lexicon /\ occ' = occ
  BY IndexFrame DEF EngineInv
<1>2. DOMAIN lexicon = 1..Len(lexicon) /\ \A w \in DOMAIN lexicon : Postings(w) \in Seq(Records)
  BY LexiconIs, PostingsAre DEF EngineInv
<1>3. /\ text \in Texts /\ input_pos \in 0..Len(text) /\ offsets \in Seq(0..Len(text))
      /\ line_count \in 0..Len(text) /\ lexicon \in Seq(Seq(Chars)) /\ occ \in [Buckets -> Seq(Records)]
  BY DEF EngineInv, TypeOK
<1>4. DOMAIN cache' \subseteq 1..Len(lexicon) /\ \A w \in DOMAIN cache' : cache'[w] \in Seq(Records)
  BY <1>2 DEF CachesKept
<1> HIDE DEF Records
<1>5. TypeOK'
  BY <1>1, <1>3, <1>4 DEF TypeOK
<1>6. CacheInv'
  BY <1>1 DEF CacheInv, CachesKept
<1>7. PhaseInv'
  <2>1. input_pos = Len(text)
    BY DEF EngineInv, PhaseInv
  <2> QED BY <1>1, <2>1 DEF PhaseInv
<1> QED BY <1>1, <1>5, <1>6, <1>7

LEMMA ReplyHolds ==
  ASSUME EngineInv, UNCHANGED index, pc # "index", CachesKept, query' \in Queries,
         NEW tokens \in Seq(Seq(Nat)), Reply(tokens), Lists(tokens, RightAnswer(query'))
  PROVE  EngineInv'
<1>1. /\ printed' = Append(tokens, BlankLine) /\ pc' = "read"
      /\ words' = <<>> /\ stage' = 0 /\ lines' = <<>>
  BY DEF Reply
<1>2. BlankLine \in Seq(Nat)
  BY DEF BlankLine
<1> DEFINE all == Append(tokens, BlankLine)
<1>3. all \in Seq(Seq(Nat)) /\ Len(all) = Len(tokens) + 1 /\ Len(tokens) \in Nat
  BY <1>2
<1>4. all # <<>> /\ Last(all) = BlankLine /\ Front(all) = tokens
  <2>1. all[Len(tokens) + 1] = BlankLine /\ \A i \in 1..Len(tokens) : all[i] = tokens[i]
    BY <1>2
  <2>2. Front(all) = SubSeq(all, 1, Len(tokens))
    BY <1>3 DEF Front
  <2>3. Front(all) = tokens
    <3> HIDE DEF all
    <3>1. \A i \in 1..Len(tokens) : all[i] \in Seq(Nat)
      BY <1>3, ElementOfSeq
    <3>2. /\ SubSeq(all, 1, Len(tokens)) \in Seq(Seq(Nat))
          /\ Len(SubSeq(all, 1, Len(tokens))) = IF 1 <= Len(tokens) THEN Len(tokens) - 1 + 1 ELSE 0
          /\ \A i \in 1..Len(tokens) - 1 + 1 : SubSeq(all, 1, Len(tokens))[i] = all[1 + i - 1]
      BY <1>3, <3>1, SubSeqProperties
    <3>3. /\ (IF 1 <= Len(tokens) THEN Len(tokens) - 1 + 1 ELSE 0) = Len(tokens)
          /\ Len(tokens) - 1 + 1 = Len(tokens) /\ \A i \in 1..Len(tokens) : 1 + i - 1 = i
      BY <1>3
    <3>4. Len(Front(all)) = Len(tokens) /\ \A i \in 1..Len(tokens) : Front(all)[i] = tokens[i]
      BY <2>1, <2>2, <3>2, <3>3
    <3> QED BY <1>3, <2>2, <3>2, <3>4, SeqEqual
  <2> HIDE DEF all
  <2> QED BY <1>3, <2>1, <2>3 DEF Last
<1> HIDE DEF all
<1>5. printed' = all
  BY <1>1 DEF all
<1>6. AnswersAreRight'
  <2>1. RightAnswer(query)' = RightAnswer(query')
    BY AnswerFrame DEF index
  <2>2. Lists(Front(printed'), RightAnswer(query)')
    BY <1>4, <1>5, <2>1
  <2> QED BY <1>4, <1>5, <2>2 DEF AnswersAreRight, BlankLine
<1>7. TypeOK' /\ OffsetsInv' /\ LexiconInv' /\ OccInv' /\ CacheInv' /\ PhaseInv'
  <2>1. words' \in Seq(1..Len(lexicon)) /\ stage' \in 0..Len(words') /\ lines' \in Seq(1..line_count)
    BY <1>1
  <2> QED BY <1>1, <1>3, <1>5, <2>1, ServingHolds
<1>8. MergeInv' /\ PatternInv'
  BY <1>1 DEF MergeInv, PatternInv
<1> QED BY <1>6, <1>7, <1>8 DEF EngineInv

LEMMA BlankHolds ==
  ASSUME EngineInv, UNCHANGED index, pc # "index", query' \in Queries, ReplyBlank, RightAnswer(query') = {}
  PROVE  EngineInv'
<1>1. Reply(<<>>) /\ cache' = cache
  BY DEF ReplyBlank
<1>2. CachesKept
  BY <1>1, LexiconIs DEF CachesKept, EngineInv, CacheInv, TypeOK
<1>3. <<>> \in Seq(Seq(Nat)) /\ Lists(<<>>, {})
  BY DEF Lists, ToSet
<1> QED BY <1>1, <1>2, <1>3, ReplyHolds

-----------------------------------------------------------------------------
(* Words of a query, and where they stand.                                 *)

LEMMA QueryIs ==
  ASSUME NEW q \in Queries
  PROVE  /\ q \in Seq(Chars) /\ ~Has(q, {Newline}) /\ Len(q) \in Nat /\ DOMAIN q = 1..Len(q)
         /\ \A i \in 1..Len(q) : q[i] \in Chars /\ q[i] # Newline
<1>1. q \in Seq(Chars \ {Newline})
  BY EngineAssumption
<1>2. q \in Seq(Chars)
  BY <1>1, SeqMonotonic
<1>3. Len(q) \in Nat /\ DOMAIN q = 1..Len(q)
  BY <1>2
<1>4. \A i \in 1..Len(q) : q[i] \in Chars \ {Newline}
  BY <1>1, ElementOfSeq
<1> QED BY <1>2, <1>3, <1>4 DEF Has

LEMMA WordFound ==
  ASSUME EngineInv, pc # "index", NEW s, GoodWord(s), NEW w \in FindExisting(s)
  PROVE  /\ w \in DOMAIN lexicon /\ lexicon[w] = LowerOf(s)
         /\ ToSet(Postings(w)) = RecordsOf(w)
         /\ Refs(ToSet(Postings(w))) = Places(s) /\ Places(lexicon[w]) = Places(s)
<1> USE DEF EngineInv
<1>1. w \in DOMAIN lexicon /\ lexicon[w] = LowerOf(s)
  BY DEF FindExisting, Lookup
<1>2. /\ s \in Seq(Chars) /\ LowerOf(s) \in Seq(Chars) /\ LowerOf(LowerOf(s)) = LowerOf(s)
  BY GoodWordIs DEF GoodWord
<1>3. \A i : StandsAt(LowerOf(s), text, i) <=> StandsAt(s, text, i)
  BY <1>2, StandsInAnyCase
<1>4. Places(lexicon[w]) = Places(s)
  BY <1>1, <1>3 DEF Places
<1>5. input_pos = Len(text)
  BY DEF PhaseInv
<1>6. {x \in Places(lexicon[w]) : x[1] <= line_count} = Places(lexicon[w])
  BY <1>5, AllIsRead
<1>7. Refs(RecordsOf(w)) = Places(lexicon[w]) /\ ToSet(Postings(w)) = RecordsOf(w)
  BY <1>1, <1>6, RecordsAndPlaces, PostingsAre
<1> QED BY <1>1, <1>4, <1>7

(***************************************************************************)
(* An occurrence of a word in a line that was read has an entry.           *)
(***************************************************************************)
LEMMA StandingIsFound ==
  ASSUME EngineInv, NEW s, GoodWord(s), NEW n \in 1..line_count, NEW i \in DOMAIN StoredLine(n),
         StandsAt(s, StoredLine(n), i)
  PROVE  FindExisting(s) # {}
<1> DEFINE d == StoredLine(n)
<1>1. d \in Seq(Chars) /\ ~Has(d, {Newline})
  BY LineIs DEF EngineInv
<1>2. i \in DOMAIN d /\ StandsAt(s, d, i)
  OBVIOUS
<1>3. s \in Seq(Chars) /\ s # <<>> /\ ~Has(s, Breaks)
  BY DEF GoodWord
<1>4. \A k \in WordStarts(d) : Lookup(lexicon, WordAt(d, k)) # {}
  BY DEF EngineInv, LexiconInv
<1> HIDE DEF d
<1>5. i \in WordStarts(d) /\ LowerOf(WordAt(d, i)) = LowerOf(s)
  BY <1>1, <1>2, <1>3, WordStands DEF WordStarts
<1>6. Lookup(lexicon, WordAt(d, i)) = FindExisting(s)
  BY <1>5 DEF Lookup, FindExisting
<1> QED BY <1>4, <1>5, <1>6

LEMMA WordNotFound ==
  ASSUME EngineInv, pc # "index", NEW s, GoodWord(s), FindExisting(s) = {}
  PROVE  Places(s) = {}
<1>1. SUFFICES ASSUME NEW x \in Places(s)
               PROVE  FALSE
  OBVIOUS
<1>2. input_pos = Len(text) /\ TypeOK /\ OffsetsInv
  BY DEF EngineInv, PhaseInv
<1>3. x[1] <= line_count
  BY <1>2, AllIsRead
<1>4. PlaceInLines(s, x)
  BY <1>2, <1>3, PlacesAre, GoodWordIs
<1>5. PICK n \in 1..line_count : \E i \in DOMAIN StoredLine(n) : StandsAt(s, StoredLine(n), i)
  BY <1>4 DEF PlaceInLines
<1> QED BY <1>5, StandingIsFound

(***************************************************************************)
(* The pieces of a query are the words that the scanning loop finds.       *)
(***************************************************************************)
LEMMA PieceIs ==
  ASSUME NEW q \in Queries, NEW at \in Pieces(q)
  PROVE  at[1] \in WordStarts(q) /\ Piece(q, at) = WordAt(q, at[1]) /\ at = <<at[1], at[2]>>
         /\ at[1] \in Nat /\ at[2] \in Nat /\ Len(Piece(q, at)) = at[2] - at[1] + 1
<1> DEFINE i == at[1]
           z == at[2]
           s == Piece(q, at)
<1>1. /\ q \in Seq(Chars) /\ ~Has(q, {Newline}) /\ Len(q) \in Nat /\ DOMAIN q = 1..Len(q)
      /\ \A k \in 1..Len(q) : q[k] \in Chars /\ q[k] # Newline
  BY QueryIs
<1>2. at \in (DOMAIN q) \X (DOMAIN q) /\ i <= z /\ ~Has(s, Breaks) /\ StandsAt(s, q, i)
  BY DEF Pieces
<1>3. i \in DOMAIN q /\ i \in 1..Len(q) /\ z \in 1..Len(q) /\ at = <<i, z>>
  BY <1>1, <1>2
<1>4. s = SubSeq(q, i, z)
  BY DEF Piece
<1> HIDE DEF i, z, s
<1>5. i \in Nat /\ z \in Nat
  BY <1>1, <1>3
<1>6. s \in Seq(Chars) /\ Len(s) = z - i + 1 /\ \A k \in 1..z - i + 1 : s[k] = q[i + k - 1]
  <2>1. \A k \in i..z : q[k] \in Chars
    BY <1>1, <1>3
  <2> QED BY <1>2, <1>4, <1>5, <2>1, SubSeqProperties
<1>7. s # <<>>
  BY <1>2, <1>5, <1>6
<1>8. StartsWord(q, i) /\ LowerOf(WordAt(q, i)) = LowerOf(s)
  BY <1>1, <1>2, <1>3, <1>6, <1>7, WordStands
<1>9. PICK e \in i - 1..Len(q) :
           /\ WordAt(q, i) \in Seq(Chars)
           /\ Len(WordAt(q, i)) = e - i + 1
           /\ \A k \in 1..e - i + 1 : WordAt(q, i)[k] = q[i + k - 1]
  BY <1>1, <1>3, WordAtIs
<1>10. Len(WordAt(q, i)) = Len(s)
  BY <1>6, <1>8, <1>9, LowersAgree
<1>11. s = WordAt(q, i)
  <2>1. e - i + 1 = z - i + 1
    BY <1>6, <1>9, <1>10
  <2>2. \A k \in 1..Len(s) : s[k] = WordAt(q, i)[k]
    BY <1>6, <1>9, <2>1
  <2> QED BY <1>6, <1>9, <1>10, <2>2, SeqEqual
<1> QED BY <1>3, <1>5, <1>6, <1>8, <1>11 DEF WordStarts, i, z, s

LEMMA WordIsPiece ==
  ASSUME NEW q \in Queries, NEW i \in WordStarts(q)
  PROVE  \E at \in Pieces(q) : at[1] = i
<1>1. /\ q \in Seq(Chars) /\ ~Has(q, {Newline}) /\ Len(q) \in Nat /\ DOMAIN q = 1..Len(q)
  BY QueryIs
<1> DEFINE w == WordAt(q, i)
<1>2. i \in DOMAIN q /\ i \in 1..Len(q) /\ StartsWord(q, i) /\ GoodWord(w)
  BY <1>1, WordIs
<1>3. w \in Seq(Chars) /\ w # <<>> /\ ~Has(w, Breaks)
  BY <1>2 DEF GoodWord
<1>4. PICK e \in i - 1..Len(q) : w = SubSeq(q, i, e) /\ Len(w) = e - i + 1
  BY <1>1, <1>2, WordAtIs
<1>5. Len(w) # 0
  BY <1>3, EmptySeq
<1>6. StandsAt(w, q, i)
  BY <1>1, <1>2, <1>3, WordStands
<1> HIDE DEF w
<1>7. i <= e /\ e \in DOMAIN q
  BY <1>1, <1>2, <1>4, <1>5
<1> DEFINE at == <<i, e>>
<1>8. Piece(q, at) = w /\ at[1] = i /\ at[2] = e
  BY <1>4 DEF Piece
<1>9. at \in (DOMAIN q) \X (DOMAIN q)
  BY <1>2, <1>7
<1> HIDE DEF at
<1>10. at \in Pieces(q)
  BY <1>3, <1>6, <1>7, <1>8, <1>9 DEF Pieces
<1> QED BY <1>8, <1>10

QueryWords(q) == {WordAt(q, i) : i \in WordStarts(q)}

LEMMA WordsAnswerIs ==
  ASSUME NEW q \in Queries
  PROVE  /\ CountWords(q) \in Nat
         /\ CountWords(q) = 0 => WordsAnswer(q) = {}
         /\ CountWords(q) = 1 => WordsAnswer(q) = UNION {Places(s) : s \in QueryWords(q)}
         /\ CountWords(q) > 1 => WordsAnswer(q) = {LineNo(n) : n \in LinesWith(QueryWords(q))}
<1> DEFINE P == Pieces(q)
           W == WordStarts(q)
           f == [at \in P |-> at[1]]
           ws == {Piece(q, at) : at \in P}
<1>1. W \subseteq 1..Len(q) /\ Len(q) \in Nat
  BY QueryIs DEF WordStarts
<1>2. IsFiniteSet(W) /\ Cardinality(W) \in Nat
  <2> HIDE DEF W
  <2> QED BY <1>1, SubsetOfInterval
<1>3. \A at \in P : /\ at[1] \in W /\ Piece(q, at) = WordAt(q, at[1]) /\ at = <<at[1], at[2]>>
                    /\ at[1] \in Nat /\ at[2] \in Nat /\ Len(Piece(q, at)) = at[2] - at[1] + 1
  BY PieceIs
<1>4. \A i \in W : \E at \in P : at[1] = i
  BY WordIsPiece
<1> HIDE DEF P, W
<1>5. f \in [P -> W]
  BY <1>3
<1>6. ASSUME NEW a \in P, NEW b \in P, f[a] = f[b]
      PROVE  a = b
  <2>1. a[1] = b[1]
    BY <1>6
  <2>2. Piece(q, a) = Piece(q, b)
    BY <1>3, <2>1
  <2>3. a[2] - a[1] + 1 = b[2] - b[1] + 1
    BY <1>3, <2>2
  <2>4. a[2] = b[2]
    BY <1>3, <2>1, <2>3
  <2> QED BY <1>3, <2>1, <2>4
<1>7. \A i \in W : \E at \in P : f[at] = i
  BY <1>4
<1> HIDE DEF f
<1>8. f \in Bijection(P, W)
  BY <1>5, <1>6, <1>7 DEF Bijection, Injection, IsInjective, Surjection
<1>9. ExistsBijection(P, W)
  BY <1>8 DEF ExistsBijection
<1>10. Cardinality(P) = Cardinality(W)
  <2>1. ExistsBijection(W, P)
    BY <1>9, Fun_ExistsBijSymmetric
  <2> QED BY <1>2, <2>1, FS_Bijection
<1>11. ws = QueryWords(q)
  BY <1>3, <1>4 DEF QueryWords, W
<1>12. CountWords(q) = Cardinality(P) /\ CountWords(q) \in Nat
  BY <1>2, <1>10 DEF CountWords, W
<1>13. WordsAnswer(q) = CASE Cardinality(P) = 0 -> {}
                          [] Cardinality(P) = 1 -> UNION {Places(s) : s \in ws}
                          [] OTHER -> {LineNo(n) : n \in LinesWith(ws)}
  BY DEF WordsAnswer, P
<1> HIDE DEF ws
<1>14. WordsAnswer(q) = CASE CountWords(q) = 0 -> {}
                          [] CountWords(q) = 1 -> UNION {Places(s) : s \in QueryWords(q)}
                          [] OTHER -> {LineNo(n) : n \in LinesWith(QueryWords(q))}
  BY <1>11, <1>12, <1>13
<1> DEFINE c == CountWords(q)
<1> HIDE DEF c
<1>15. c \in Nat /\ 0 # 1 /\ (c > 1 => c # 0 /\ c # 1)
  BY <1>12 DEF c
<1>16. c = 0 => WordsAnswer(q) = {}
  BY <1>14, <1>15, Zenon DEF c
<1>17. c = 1 => WordsAnswer(q) = UNION {Places(s) : s \in QueryWords(q)}
  BY <1>14, <1>15, Zenon DEF c
<1>18. c > 1 => WordsAnswer(q) = {LineNo(n) : n \in LinesWith(QueryWords(q))}
  BY <1>14, <1>15, Zenon DEF c
<1> QED BY <1>12, <1>16, <1>17, <1>18 DEF c

-----------------------------------------------------------------------------
(* A single word, and a phrase.                                            *)

LEMMA CacheListsPlaces ==
  ASSUME EngineInv, pc # "index", NEW s, GoodWord(s), NEW w \in FindExisting(s)
  PROVE  LineRefs(Postings(w)) \in Seq(Seq(Nat)) /\ Lists(LineRefs(Postings(w)), Places(s))
<1>1. w \in DOMAIN lexicon /\ Refs(ToSet(Postings(w))) = Places(s)
  BY WordFound
<1>2. Postings(w) \in Seq(Records) /\ Sorted(Postings(w))
  BY <1>1, PostingsAre DEF EngineInv
<1> QED BY <1>1, <1>2, RefsAreListed

LEMMA SingleHolds ==
  ASSUME EngineInv, UNCHANGED index, pc = "read", NEW q \in Queries, query' = q,
         ~Has(q, {Quote}), ~Has(q, {Star}), CountWords(q) = 1, HandleSingle(q)
  PROVE  EngineInv'
<1>1. PICK i \in WordStarts(q) :
         \/ FindExisting(WordAt(q, i)) = {} /\ ReplyBlank
         \/ \E w \in FindExisting(WordAt(q, i)) :
              /\ cache' = WithCaches({w})
              /\ Reply(LineRefs(cache'[w]))
  BY DEF HandleSingle
<1> DEFINE s == WordAt(q, i)
<1>2. GoodWord(s)
  BY QueryIs, WordIs
<1>3. WordStarts(q) = {i}
  <2>1. Cardinality(WordStarts(q)) = 1 /\ WordStarts(q) \subseteq 1..Len(q) /\ Len(q) \in Nat
    BY QueryIs DEF CountWords, WordStarts
  <2>2. IsFiniteSet(WordStarts(q))
    BY <2>1, SubsetOfInterval
  <2>3. PICK j : WordStarts(q) = {j}
    BY <2>1, <2>2, FS_Singleton
  <2> QED BY <2>3
<1>4. RightAnswer(q) = Places(s)
  <2>1. RightAnswer(q) = UNION {Places(t) : t \in QueryWords(q)}
    BY WordsAnswerIs DEF RightAnswer
  <2>2. QueryWords(q) = {s}
    BY <1>3 DEF QueryWords
  <2> HIDE DEF s
  <2> QED BY <2>1, <2>2
<1> HIDE DEF s
<1>5. CASE FindExisting(s) = {} /\ ReplyBlank
  <2>1. Places(s) = {}
    BY <1>2, <1>5, WordNotFound
  <2> QED BY <1>4, <1>5, <2>1, BlankHolds
<1>6. CASE \E w \in FindExisting(s) : cache' = WithCaches({w}) /\ Reply(LineRefs(cache'[w]))
  <2>1. PICK w \in FindExisting(s) : cache' = WithCaches({w}) /\ Reply(LineRefs(cache'[w]))
    BY <1>6
  <2>2. w \in DOMAIN lexicon
    BY <1>2, WordFound
  <2>3. CachesKept /\ cache'[w] = Postings(w)
    BY <2>1, <2>2, CachesAreMade
  <2> DEFINE tokens == LineRefs(Postings(w))
  <2>4. tokens \in Seq(Seq(Nat)) /\ Lists(tokens, Places(s)) /\ Reply(tokens)
    BY <1>2, <2>1, <2>3, CacheListsPlaces
  <2> HIDE DEF tokens
  <2>5. Lists(tokens, RightAnswer(query'))
    BY <1>4, <2>4
  <2> QED BY <2>3, <2>4, <2>5, ReplyHolds
<1> QED BY <1>1, <1>5, <1>6 DEF s

LEMMA SelectedAre ==
  ASSUME NEW s \in Seq(Records), Sorted(s), NEW S, S \subseteq DOMAIN s
  PROVE  /\ ElementsAt(s, S) \in Seq(Records) /\ Sorted(ElementsAt(s, S))
         /\ ToSet(ElementsAt(s, S)) = {s[i] : i \in S}
<1> DEFINE e == ElementsAt(s, S)
<1>1. S \subseteq 1..Len(s) /\ S \in SUBSET Nat /\ IsFiniteSet(S)
  BY LenProperties, SubsetOfInterval
<1>2. \A i \in S : s[i] \in Records
  BY <1>1, ElementOfSeq
<1>3. Picked(e, s, S, Records)
  BY <1>1, <1>2, ElementsAtIs
<1> HIDE DEF e, Records
<1>4. /\ e \in Seq(Records) /\ DOMAIN e = 1..Len(e)
      /\ \A x : x \in ToSet(e) <=> \E i \in S : x = s[i]
      /\ \A m, n \in 1..Len(e) : m < n => \E i, j \in S : i < j /\ e[m] = s[i] /\ e[n] = s[j]
  BY <1>3 DEF Picked
<1>5. ASSUME NEW m \in 1..Len(e), NEW n \in 1..Len(e), m < n
      PROVE  Before(e[m], e[n])
  <2>1. PICK i, j \in S : i < j /\ e[m] = s[i] /\ e[n] = s[j]
    BY <1>4, <1>5
  <2> QED BY <2>1 DEF Sorted
<1>6. ToSet(e) = {s[i] : i \in S}
  BY <1>4
<1> QED BY <1>4, <1>5, <1>6 DEF Sorted, e

Phrase(q) == SubSeq(q, 2, Len(q) - 1)
PhraseOK(p) == p \in Seq(Chars) /\ p # <<>> /\ ~Has(p, {Newline}) /\ p[1] \notin Separators

LEMMA PhraseIs ==
  ASSUME NEW q \in Queries, IsPhrase(q)
  PROVE  PhraseOK(Phrase(q)) /\ GoodWord(WordAt(Phrase(q), 1))
<1> DEFINE p == Phrase(q)
<1>1. /\ q \in Seq(Chars) /\ Len(q) \in Nat
      /\ \A i \in 1..Len(q) : q[i] \in Chars /\ q[i] # Newline
  BY QueryIs
<1>2. Len(q) > 2 /\ p[1] \notin Separators
  BY DEF IsPhrase, Phrase
<1>3. p = SubSeq(q, 2, Len(q) - 1)
  BY DEF Phrase
<1> HIDE DEF p
<1> DEFINE n == Len(q) - 2
<1>4. p \in Seq(Chars) /\ Len(p) = n /\ n \in Nat /\ n > 0 /\ \A k \in 1..n : p[k] = q[k + 1]
  <2>1. \A k \in 2..Len(q) - 1 : q[k] \in Chars
    BY <1>1
  <2>2. /\ p \in Seq(Chars) /\ Len(p) = IF 2 <= Len(q) - 1 THEN Len(q) - 1 - 2 + 1 ELSE 0
        /\ \A k \in 1..Len(q) - 1 - 2 + 1 : p[k] = q[2 + k - 1]
    BY <1>1, <1>3, <2>1, SubSeqProperties
  <2>3. /\ (IF 2 <= Len(q) - 1 THEN Len(q) - 1 - 2 + 1 ELSE 0) = n
        /\ Len(q) - 1 - 2 + 1 = n /\ n \in Nat /\ n > 0
        /\ \A k \in 1..n : 2 + k - 1 = k + 1
    BY <1>1, <1>2
  <2> HIDE DEF n
  <2> QED BY <2>2, <2>3
<1>5. p # <<>> /\ DOMAIN p = 1..n /\ 1 \in DOMAIN p
  BY <1>4
<1>6. ~Has(p, {Newline})
  <2>1. \A k \in 1..n : k + 1 \in 1..Len(q)
    BY <1>1
  <2> HIDE DEF n
  <2> QED BY <1>1, <1>4, <1>5, <2>1 DEF Has
<1>7. 1 \in WordStarts(p)
  BY <1>2, <1>5 DEF WordStarts, StartsWord
<1>8. GoodWord(WordAt(p, 1))
  BY <1>4, <1>6, <1>7, WordIs
<1> QED BY <1>2, <1>4, <1>5, <1>6, <1>8 DEF PhraseOK, p

(***************************************************************************)
(* Where a phrase stands its first word stands.                            *)
(***************************************************************************)
LEMMA FirstWordStands ==
  ASSUME NEW p, PhraseOK(p), NEW d \in Seq(Chars), ~Has(d, {Newline}), NEW i \in DOMAIN d,
         StandsAt(p, d, i)
  PROVE  StandsAt(WordAt(p, 1), d, i)
<1> DEFINE w == WordAt(p, 1)
           n == Len(p)
           m == Len(d)
           end == i + n - 1
<1>1. /\ p \in Seq(Chars) /\ p # <<>> /\ DOMAIN p = 1..n /\ n \in Nat /\ 1 \in DOMAIN p
      /\ \A k \in 1..n : p[k] \in Chars
  <2>1. p \in Seq(Chars) /\ p # <<>>
    BY DEF PhraseOK
  <2>2. n # 0 /\ n \in Nat /\ DOMAIN p = 1..n
    BY <2>1, EmptySeq
  <2> QED BY <2>1, <2>2, ElementOfSeq
<1>2. PICK e \in 1 - 1..n :
           /\ w \in Seq(Chars)
           /\ Len(w) = e - 1 + 1
           /\ \A k \in 1..e - 1 + 1 : w[k] = p[1 + k - 1]
           /\ e < n => p[e + 1] \in Separators
  BY <1>1, WordAtIs
<1> HIDE DEF w
<1>3. e \in Nat /\ e <= n /\ Len(w) = e /\ DOMAIN w = 1..e /\ \A k \in 1..e : w[k] = p[k]
  <2>1. e - 1 + 1 = e /\ 1 - 1 = 0 /\ \A k \in 1..e : 1 + k - 1 = k
    BY <1>1, <1>2
  <2>2. e \in Nat /\ e <= n
    BY <1>1, <1>2
  <2> QED BY <1>2, <2>1, <2>2
<1>4. i \in Nat /\ i >= 1 /\ i <= m /\ m \in Nat /\ \A k \in 1..m : d[k] \in Chars
  BY ElementOfSeq
<1>5. /\ end <= m
      /\ \A k \in 1..n : Lower[d[i + k - 1]] = Lower[p[k]]
      /\ i > 1 => d[i - 1] \in Breaks
      /\ end < m => d[end + 1] \in Breaks
  BY <1>1 DEF StandsAt
<1> DEFINE we == i + e - 1
<1>6. we <= end
  BY <1>1, <1>3, <1>4
<1>7. we < m => d[we + 1] \in Breaks
  <2>1. CASE e < n
    <3>1. p[e + 1] \in Separators /\ e + 1 \in 1..n
      BY <1>1, <1>2, <1>3, <2>1
    <3>2. i + (e + 1) - 1 = we + 1 /\ we + 1 \in 1..m
      BY <1>1, <1>3, <1>4, <1>5, <2>1, SMTT(40)
    <3> DEFINE k == e + 1
    <3>3. Lower[d[i + k - 1]] = Lower[p[k]]
      BY <1>5, <3>1
    <3>4. Lower[d[we + 1]] = Lower[p[e + 1]]
      BY <3>2, <3>3
    <3>5. d[we + 1] \in Separators
      BY <1>1, <1>4, <3>1, <3>2, <3>4, SameLower
    <3> QED BY <3>5 DEF Breaks
  <2>2. CASE e = n
    BY <1>5, <2>2
  <2> HIDE DEF we, m, n
  <2>3. e < n \/ e = n
    BY <1>1, <1>3
  <2> QED BY <2>1, <2>2, <2>3
<1>8. we <= m
  BY <1>1, <1>3, <1>4, <1>5, <1>6
<1>9. \A k \in 1..e : Lower[d[i + k - 1]] = Lower[w[k]]
  <2>1. \A k \in 1..e : k \in 1..n
    BY <1>1, <1>3
  <2> QED BY <1>3, <1>5, <2>1
<1> HIDE DEF m, end, n
<1>10. i + Len(w) - 1 = we
  BY <1>3
<1> HIDE DEF we
<1>11. StandsAt(w, d, i)
  BY <1>3, <1>5, <1>7, <1>8, <1>9, <1>10 DEF StandsAt, m
<1> QED BY <1>11 DEF w

(***************************************************************************)
(* The comparison with the text decides whether a phrase stands where its  *)
(* first word stands.                                                      *)
(***************************************************************************)
LEMMA PhraseMatchIs ==
  ASSUME EngineInv, NEW p, PhraseOK(p), NEW r \in Records, Occurs(r)
  PROVE  PhraseMatches(r, p) <=> StandsAt(p, StoredLine(r.line), r.start + 1)
<1> DEFINE d == StoredLine(r.line)
           i == r.start + 1
           n == Len(p)
           m == Len(d)
           end == r.start + n
           part == SubSeq(d, i, end)
<1>1. r.line \in 1..line_count /\ r.start \in 0..Len(text) - 1 /\ r.word \in 1..Len(lexicon)
  BY RecordIs DEF Records
<1>2. d \in Seq(Chars) /\ ~Has(d, {Newline}) /\ m \in Nat /\ DOMAIN d = 1..m
  BY <1>1, LineIs DEF EngineInv
<1>3. i \in DOMAIN d /\ (i > 1 => d[i - 1] \in Breaks)
  BY DEF Occurs, StandsAt
<1>4. PhraseMatches(r, p) <=> /\ end <= m
                              /\ LowerOf(part) = LowerOf(p)
                              /\ end = m \/ d[end + 1] \in Separators
  BY DEF PhraseMatches, HasValidEnd
<1> HIDE DEF d
<1>5. /\ p \in Seq(Chars) /\ p # <<>> /\ DOMAIN p = 1..n /\ n \in Nat /\ n # 0
  <2>1. p \in Seq(Chars) /\ p # <<>>
    BY DEF PhraseOK
  <2> QED BY <2>1, EmptySeq
<1>6. \A k \in 1..m : d[k] \in Chars /\ d[k] # Newline
  BY <1>2, ElementOfSeq DEF Has
<1>7. r.start \in Nat /\ i \in Nat /\ i + n - 1 = end /\ end \in Nat /\ Len(text) \in Nat
  <2>1. Len(text) \in Nat
    BY TextIs DEF EngineInv
  <2> QED BY <1>1, <1>5, <2>1
<1> HIDE DEF end, i
<1>8. ASSUME end <= m
      PROVE  LowerOf(part) = LowerOf(p) <=> \A k \in 1..n : Lower[d[i + k - 1]] = Lower[p[k]]
  <2>1. i \in Int /\ end \in Int /\ \A k \in i..end : d[k] \in Chars
    BY <1>2, <1>3, <1>6, <1>7, <1>8
  <2>2. /\ part \in Seq(Chars) /\ Len(part) = IF i <= end THEN end - i + 1 ELSE 0
        /\ \A k \in 1..end - i + 1 : part[k] = d[i + k - 1]
    BY <2>1, SubSeqProperties
  <2>3. end - i + 1 = n /\ (IF i <= end THEN end - i + 1 ELSE 0) = n
    BY <1>5, <1>7
  <2> HIDE DEF part, n
  <2>4. part \in Seq(Chars) /\ Len(part) = n /\ \A k \in 1..n : part[k] = d[i + k - 1]
    BY <2>2, <2>3
  <2>5. LowerOf(part) = LowerOf(p) <=> Len(part) = Len(p) /\ \A k \in 1..Len(part) : Lower[part[k]] = Lower[p[k]]
    BY <1>5, <2>4, LowersAgree
  <2> QED BY <2>4, <2>5 DEF n
<1>9. end < m => (d[end + 1] \in Breaks <=> d[end + 1] \in Separators)
  <2>1. end < m => end + 1 \in 1..m
    BY <1>2, <1>7
  <2> QED BY <1>6, <2>1 DEF Breaks
<1> HIDE DEF part
<1>10. StandsAt(p, d, i) <=>
         /\ end <= m
         /\ \A k \in 1..n : Lower[d[i + k - 1]] = Lower[p[k]]
         /\ i > 1 => d[i - 1] \in Breaks
         /\ end < m => d[end + 1] \in Breaks
  BY <1>5, <1>7 DEF StandsAt
<1> HIDE DEF m, n
<1>11. end <= m => ((end = m \/ d[end + 1] \in Separators) <=> (end < m => d[end + 1] \in Breaks))
  <2>1. CASE end < m
    BY <1>2, <1>7, <1>9, <2>1
  <2>2. CASE end = m
    BY <1>2, <1>7, <2>2
  <2> QED BY <1>2, <1>7, <2>1, <2>2
<1>12. PhraseMatches(r, p) <=> StandsAt(p, d, i)
  BY <1>3, <1>4, <1>8, <1>10, <1>11
<1> QED BY <1>12 DEF d, i

LEMMA PhrasePlaces ==
  ASSUME EngineInv, pc # "index", NEW p, PhraseOK(p), GoodWord(WordAt(p, 1)),
         NEW w \in FindExisting(WordAt(p, 1))
  PROVE  Refs({r \in ToSet(Postings(w)) : PhraseMatches(r, p)}) = Places(p)
<1> DEFINE first == WordAt(p, 1)
<1>1. /\ ToSet(Postings(w)) = RecordsOf(w) /\ Refs(RecordsOf(w)) = Places(first)
  BY WordFound
<1>2. input_pos = Len(text) /\ TypeOK /\ OffsetsInv
  BY DEF EngineInv, PhaseInv
<1>3. p \in Seq(Chars) /\ p # <<>> /\ ~Has(p, {Newline})
  BY DEF PhraseOK
<1>4. first \in Seq(Chars) /\ first # <<>> /\ ~Has(first, {Newline})
  BY GoodWordIs
<1>5. \A s : \A x \in Places(s) : x[1] <= line_count
  BY <1>2, AllIsRead
<1>6. \A x : (x \in Places(p) <=> PlaceInLines(p, x)) /\ (x \in Places(first) <=> PlaceInLines(first, x))
  <2> HIDE DEF first
  <2> QED BY <1>2, <1>3, <1>4, <1>5, PlacesAre
<1>7. \A r \in RecordsOf(w) : /\ r \in Records /\ Occurs(r)
                              /\ r.line \in 1..line_count
                              /\ r.start + 1 \in DOMAIN StoredLine(r.line)
                              /\ (r.start + 1) - 1 = r.start
  <2>1. ASSUME NEW r \in RecordsOf(w)
        PROVE  /\ r \in Records /\ Occurs(r)
               /\ r.line \in 1..line_count
               /\ r.start + 1 \in DOMAIN StoredLine(r.line)
               /\ (r.start + 1) - 1 = r.start
    <3>1. r \in Records /\ Occurs(r)
      BY DEF RecordsOf
    <3>2. r.line \in 1..line_count /\ r.start \in 0..Len(text) - 1 /\ Len(text) \in Nat
      BY <1>2, <3>1, RecordIs, TextIs DEF Records
    <3>3. r.start + 1 \in DOMAIN StoredLine(r.line)
      BY <3>1 DEF Occurs
    <3> QED BY <3>1, <3>2, <3>3
  <2> QED BY <2>1
<1>8. ASSUME NEW r \in RecordsOf(w), PhraseMatches(r, p)
      PROVE  LineRef(r) \in Places(p)
  <2> DEFINE i == r.start + 1
             n == r.line
  <2>1. n \in 1..line_count /\ i \in DOMAIN StoredLine(n) /\ StandsAt(p, StoredLine(n), i)
    BY <1>7, <1>8, PhraseMatchIs
  <2>2. LineRef(r) = <<n, i - 1>>
    BY <1>7 DEF LineRef
  <2> HIDE DEF i, n
  <2>3. PlaceInLines(p, LineRef(r))
    BY <2>1, <2>2 DEF PlaceInLines
  <2> QED BY <1>6, <2>3
<1>9. ASSUME NEW x \in Places(p)
      PROVE  \E r \in RecordsOf(w) : PhraseMatches(r, p) /\ x = LineRef(r)
  <2>1. PICK n \in 1..line_count : \E i \in DOMAIN StoredLine(n) :
          StandsAt(p, StoredLine(n), i) /\ x = <<n, i - 1>>
    BY <1>6 DEF PlaceInLines
  <2>2. PICK i \in DOMAIN StoredLine(n) : StandsAt(p, StoredLine(n), i) /\ x = <<n, i - 1>>
    BY <2>1
  <2>3. StandsAt(first, StoredLine(n), i) /\ i \in Nat
    <3>1. StoredLine(n) \in Seq(Chars) /\ ~Has(StoredLine(n), {Newline}) /\ i \in 1..Len(StoredLine(n))
      BY <1>2, LineIs
    <3>2. StandsAt(first, StoredLine(n), i)
      BY <2>2, <3>1, FirstWordStands
    <3> QED BY <3>1, <3>2
  <2>4. x \in Places(first)
    BY <1>6, <2>2, <2>3 DEF PlaceInLines
  <2>5. PICK r \in RecordsOf(w) : x = LineRef(r)
    BY <1>1, <2>4 DEF Refs
  <2>6. r.line = n /\ r.start = i - 1
    BY <2>2, <2>5 DEF LineRef
  <2>7. r.start + 1 = i
    BY <2>3, <2>6
  <2>8. PhraseMatches(r, p)
    BY <1>7, <2>2, <2>6, <2>7, PhraseMatchIs
  <2> QED BY <2>5, <2>8
<1> QED BY <1>1, <1>8, <1>9 DEF Refs

LEMMA PhraseNotFound ==
  ASSUME EngineInv, pc # "index", NEW p, PhraseOK(p), GoodWord(WordAt(p, 1)),
         FindExisting(WordAt(p, 1)) = {}
  PROVE  Places(p) = {}
<1>1. SUFFICES ASSUME NEW x \in Places(p)
               PROVE  FALSE
  OBVIOUS
<1>2. input_pos = Len(text) /\ TypeOK /\ OffsetsInv
  BY DEF EngineInv, PhaseInv
<1>3. p \in Seq(Chars) /\ p # <<>> /\ ~Has(p, {Newline})
  BY DEF PhraseOK
<1>4. x[1] <= line_count
  BY <1>2, AllIsRead
<1>5. PlaceInLines(p, x)
  BY <1>2, <1>3, <1>4, PlacesAre
<1>6. PICK n \in 1..line_count : \E i \in DOMAIN StoredLine(n) : StandsAt(p, StoredLine(n), i)
  BY <1>5 DEF PlaceInLines
<1>7. PICK i \in DOMAIN StoredLine(n) : StandsAt(p, StoredLine(n), i)
  BY <1>6
<1>8. StandsAt(WordAt(p, 1), StoredLine(n), i)
  <2>1. StoredLine(n) \in Seq(Chars) /\ ~Has(StoredLine(n), {Newline})
    BY <1>2, LineIs
  <2> QED BY <1>7, <2>1, FirstWordStands
<1> QED BY <1>8, StandingIsFound

LEMMA PhraseHolds ==
  ASSUME EngineInv, UNCHANGED index, pc = "read", NEW q \in Queries, query' = q,
         Has(q, {Quote}), HandlePhrase(q)
  PROVE  EngineInv'
<1> DEFINE p == Phrase(q)
           found == IF IsPhrase(q) THEN FindExisting(WordAt(p, 1)) ELSE {}
           stored(w) == cache'[w]
           matches(w) == {i \in DOMAIN stored(w) : PhraseMatches(stored(w)[i], p)}
<1>1. \/ found = {} /\ ReplyBlank
      \/ \E w \in found : /\ cache' = WithCaches({w})
                          /\ Reply(LineRefs(ElementsAt(stored(w), matches(w))))
  BY DEF HandlePhrase, Phrase
<1>2. RightAnswer(q) = IF IsPhrase(q) THEN Places(p) ELSE {}
  BY DEF RightAnswer, PhraseAnswer, Phrase
<1>3. IsPhrase(q) => PhraseOK(p) /\ GoodWord(WordAt(p, 1))
  BY PhraseIs
<1>4. CASE found = {} /\ ReplyBlank
  <2>1. RightAnswer(q) = {}
    <3>1. CASE IsPhrase(q)
      <4>1. FindExisting(WordAt(p, 1)) = {}
        BY <1>4, <3>1
      <4> HIDE DEF p
      <4> QED BY <1>2, <1>3, <3>1, <4>1, PhraseNotFound
    <3>2. CASE ~IsPhrase(q)
      BY <1>2, <3>2
    <3> QED BY <3>1, <3>2
  <2> QED BY <1>4, <2>1, BlankHolds
<1>5. CASE \E w \in found : /\ cache' = WithCaches({w})
                            /\ Reply(LineRefs(ElementsAt(stored(w), matches(w))))
  <2>1. PICK w \in found : /\ cache' = WithCaches({w})
                            /\ Reply(LineRefs(ElementsAt(stored(w), matches(w))))
    BY <1>5
  <2>2. IsPhrase(q) /\ w \in FindExisting(WordAt(p, 1))
    <3>1. IsPhrase(q)
      BY <2>1
    <3> QED BY <2>1, <3>1
  <2>3. PhraseOK(p) /\ GoodWord(WordAt(p, 1)) /\ RightAnswer(q) = Places(p)
    BY <1>2, <1>3, <2>2
  <2> HIDE DEF p, found
  <2>4. w \in DOMAIN lexicon
    BY <2>2, <2>3, WordFound
  <2>5. CachesKept /\ cache'[w] = Postings(w)
    BY <2>1, <2>4, CachesAreMade
  <2> DEFINE s == Postings(w)
             S == {i \in DOMAIN s : PhraseMatches(s[i], p)}
             e == ElementsAt(s, S)
  <2>6. Reply(LineRefs(e))
    BY <2>1, <2>5
  <2>7. s \in Seq(Records) /\ Sorted(s)
    BY <2>4, PostingsAre DEF EngineInv
  <2>8. Refs({r \in ToSet(s) : PhraseMatches(r, p)}) = Places(p)
    BY <2>2, <2>3, PhrasePlaces
  <2>9. S \subseteq DOMAIN s /\ {s[i] : i \in S} = {r \in ToSet(s) : PhraseMatches(r, p)}
    BY DEF ToSet
  <2> HIDE DEF s, S
  <2>10. e \in Seq(Records) /\ Sorted(e) /\ ToSet(e) = {s[i] : i \in S}
    BY <2>7, <2>9, SelectedAre
  <2> HIDE DEF e
  <2>11. LineRefs(e) \in Seq(Seq(Nat)) /\ Lists(LineRefs(e), Places(p))
    BY <2>8, <2>9, <2>10, RefsAreListed
  <2> QED BY <2>3, <2>5, <2>6, <2>11, ReplyHolds
<1> QED BY <1>1, <1>4, <1>5

-----------------------------------------------------------------------------
(* Several words.                                                          *)

LEMMA LineNosList ==
  ASSUME NEW ns \in Seq(Nat), Increasing(ns)
  PROVE  /\ LineNos(ns) \in Seq(Seq(Nat))
         /\ Lists(LineNos(ns), {LineNo(n) : n \in ToSet(ns)})
<1> DEFINE t == LineNos(ns)
<1>1. Len(ns) \in Nat /\ DOMAIN ns = 1..Len(ns) /\ \A i \in 1..Len(ns) : ns[i] \in Nat
  BY ElementOfSeq
<1>2. \A n \in Nat : LineNo(n) \in Seq(Nat) /\ LineNo(n)[1] = n
  BY DEF LineNo
<1>3. t = [i \in 1..Len(ns) |-> LineNo(ns[i])]
  BY <1>1 DEF LineNos
<1> HIDE DEF t
<1>4. t \in [1..Len(ns) -> Seq(Nat)]
  BY <1>1, <1>2, <1>3
<1>5. t \in Seq(Seq(Nat)) /\ DOMAIN t = 1..Len(ns) /\ \A i \in 1..Len(ns) : t[i] = LineNo(ns[i])
  BY <1>1, <1>3, <1>4
<1>6. ToSet(t) = {LineNo(n) : n \in ToSet(ns)}
  BY <1>1, <1>5 DEF ToSet
<1>7. ASSUME NEW i \in 1..Len(ns), NEW j \in 1..Len(ns), i < j
      PROVE  Earlier(t[i], t[j])
  <2>1. ns[i] < ns[j] /\ t[i][1] = ns[i] /\ t[j][1] = ns[j]
    BY <1>1, <1>2, <1>5, <1>7 DEF Increasing
  <2> QED BY <2>1 DEF Earlier
<1>8. Lists(t, {LineNo(n) : n \in ToSet(ns)})
  BY <1>5, <1>6, <1>7 DEF Lists
<1> QED BY <1>5, <1>8 DEF t

(***************************************************************************)
(* line_number_source_next delivers each line of the records once.         *)
(***************************************************************************)
LEMMA WordSourceIs ==
  ASSUME NEW s \in Seq(Records), Sorted(s), line_count \in Nat
  PROVE  /\ WordSource(s) \in Seq(1..line_count) /\ Increasing(WordSource(s))
         /\ ToSet(WordSource(s)) = {r.line : r \in ToSet(s)}
<1> DEFINE n == Len(s)
           S == {i \in DOMAIN s : i = 1 \/ s[i].line # s[i - 1].line}
           f == EveryRecord(s)
           e == WordSource(s)
<1>1. n \in Nat /\ DOMAIN s = 1..n /\ \A i \in 1..n : s[i] \in Records
  BY LenProperties, ElementOfSeq
<1>2. \A i \in 1..n : s[i].line \in 1..line_count /\ s[i].line \in Nat
  BY <1>1, RecordIs DEF Records
<1>3. \A i \in 1..n : f[i] = s[i].line
  BY <1>1 DEF EveryRecord
<1>4. \A i \in S : i \in 1..n /\ (i = 1 \/ s[i].line # s[i - 1].line)
  BY <1>1
<1>5. S \subseteq 1..n /\ S \in SUBSET Nat /\ IsFiniteSet(S)
  <2>1. S \subseteq 1..n
    BY <1>1
  <2> HIDE DEF S
  <2> QED BY <1>1, <2>1, SubsetOfInterval
<1>6. \A i, j \in 1..n : i < j => Before(s[i], s[j])
  BY <1>1 DEF Sorted
<1>7. \A i \in 1..n : i \in S <=> (i = 1 \/ s[i].line # s[i - 1].line)
  BY <1>1
<1>8. e = ElementsAt(f, S)
  BY DEF WordSource
<1> HIDE DEF S, f, e, n
<1>9. ASSUME NEW i \in S, NEW j \in S, i < j
      PROVE  f[i] < f[j]
  <2>1. i \in 1..n /\ j \in 1..n /\ j # 1 /\ s[j].line # s[j - 1].line
    BY <1>1, <1>4, <1>5, <1>9
  <2>2. j - 1 \in 1..n /\ j - 1 < j /\ (i = j - 1 \/ i < j - 1)
    BY <1>1, <1>9, <2>1
  <2> DEFINE k == j - 1
  <2>3. k \in 1..n /\ k < j /\ (i = k \/ i < k) /\ s[j].line # s[k].line
    BY <2>1, <2>2
  <2> HIDE DEF k
  <2>4. s[k].line < s[j].line
    BY <1>6, <2>1, <2>3 DEF Before
  <2>5. s[i].line <= s[k].line
    <3>1. CASE i = k
      BY <1>2, <2>1, <3>1
    <3>2. CASE i < k
      BY <1>2, <1>6, <2>1, <2>3, <3>2 DEF Before
    <3> QED BY <2>3, <3>1, <3>2
  <2>6. s[i].line \in Nat /\ s[k].line \in Nat /\ s[j].line \in Nat
    BY <1>2, <2>1, <2>3
  <2>7. s[i].line < s[j].line
    BY <2>4, <2>5, <2>6
  <2> QED BY <1>3, <2>1, <2>7
<1>10. ASSUME NEW k \in 1..n
       PROVE  \E i \in S : f[i] = s[k].line
  <2> DEFINE same == {i \in 1..n : s[i].line = s[k].line}
  <2>1. same \in SUBSET Nat /\ k \in same
    BY <1>1
  <2>2. PICK i \in same : \A j \in same : i <= j
    BY <2>1, LeastExists
  <2>3. i \in 1..n /\ s[i].line = s[k].line /\ \A j \in 1..n : s[j].line = s[k].line => i <= j
    BY <2>2
  <2> HIDE DEF same
  <2>4. i # 1 => i - 1 \in 1..n /\ ~(i <= i - 1)
    BY <1>1, <2>3
  <2>5. i \in S
    BY <1>7, <2>3, <2>4
  <2> QED BY <1>3, <2>3, <2>5
<1>11. \A i \in S : f[i] \in 1..line_count
  BY <1>2, <1>3, <1>4
<1>12. Picked(e, f, S, 1..line_count)
  BY <1>5, <1>8, <1>11, ElementsAtIs
<1>13. /\ e \in Seq(1..line_count) /\ Len(e) \in Nat /\ DOMAIN e = 1..Len(e)
       /\ \A x : x \in ToSet(e) <=> \E i \in S : x = f[i]
       /\ \A a, b \in 1..Len(e) : a < b => \E i, j \in S : i < j /\ e[a] = f[i] /\ e[b] = f[j]
  BY <1>12 DEF Picked
<1>14. Increasing(e)
  BY <1>9, <1>13 DEF Increasing
<1>15. ToSet(e) = {r.line : r \in ToSet(s)}
  <2>1. ASSUME NEW x \in ToSet(e)
        PROVE  \E r \in ToSet(s) : x = r.line
    <3>1. PICK i \in S : x = f[i]
      BY <1>13
    <3>2. i \in 1..n /\ x = s[i].line
      BY <1>3, <1>4, <3>1
    <3> QED BY <1>1, <3>2 DEF ToSet
  <2>2. ASSUME NEW r \in ToSet(s)
        PROVE  r.line \in ToSet(e)
    <3>1. PICK k \in 1..n : r = s[k]
      BY <1>1 DEF ToSet
    <3>2. PICK i \in S : f[i] = s[k].line
      BY <1>10
    <3> QED BY <1>13, <3>1, <3>2
  <2> QED BY <2>1, <2>2
<1> QED BY <1>13, <1>14, <1>15 DEF e

LEMMA LinesWithBoth ==
  ASSUME NEW A, NEW B
  PROVE  LinesWith(A \cup B) = LinesWith(A) \cap LinesWith(B)
  BY DEF LinesWith

LEMMA WordLines ==
  ASSUME EngineInv, pc # "index", NEW w \in DOMAIN lexicon
  PROVE  /\ WordSource(Postings(w)) \in Seq(1..line_count)
         /\ Increasing(WordSource(Postings(w)))
         /\ ToSet(WordSource(Postings(w))) = LinesWith({lexicon[w]})
<1> DEFINE p == Postings(w)
<1>1. TypeOK /\ OffsetsInv /\ LexiconInv /\ OccInv /\ input_pos = Len(text) /\ line_count \in Nat
  BY TextIs DEF EngineInv, PhaseInv
<1>2. p \in Seq(Records) /\ Sorted(p) /\ ToSet(p) = RecordsOf(w)
  BY <1>1, PostingsAre
<1>3. /\ AllLines = 1..line_count
      /\ \A x \in Places(lexicon[w]) : x[1] <= line_count
  BY <1>1, AllIsRead
<1>4. Refs(RecordsOf(w)) = Places(lexicon[w])
  BY <1>1, <1>3, RecordsAndPlaces
<1> HIDE DEF p
<1>5. /\ WordSource(p) \in Seq(1..line_count) /\ Increasing(WordSource(p))
      /\ ToSet(WordSource(p)) = {r.line : r \in RecordsOf(w)}
  BY <1>1, <1>2, WordSourceIs
<1>6. \A r \in RecordsOf(w) : r.line \in 1..line_count /\ LineRef(r)[1] = r.line
  <2>1. \A r \in RecordsOf(w) : r \in Records
    BY DEF RecordsOf
  <2> QED BY <2>1, RecordIs DEF Records, LineRef
<1>7. {r.line : r \in RecordsOf(w)} = LinesWith({lexicon[w]})
  <2>1. ASSUME NEW r \in RecordsOf(w)
        PROVE  r.line \in LinesWith({lexicon[w]})
    <3>1. LineRef(r) \in Places(lexicon[w])
      BY <1>4 DEF Refs
    <3> QED BY <1>3, <1>6, <3>1 DEF LinesWith
  <2>2. ASSUME NEW n \in LinesWith({lexicon[w]})
        PROVE  \E r \in RecordsOf(w) : n = r.line
    <3>1. PICK x \in Places(lexicon[w]) : x[1] = n
      BY DEF LinesWith
    <3>2. PICK r \in RecordsOf(w) : x = LineRef(r)
      BY <1>4, <3>1 DEF Refs
    <3> QED BY <1>6, <3>1, <3>2
  <2> QED BY <2>1, <2>2
<1> QED BY <1>5, <1>7 DEF p

(***************************************************************************)
(* What a query asks for does not depend on its upper and lower case.      *)
(***************************************************************************)
LowerWords(q) == {LowerOf(WordAt(q, i)) : i \in WordStarts(q)}

LEMMA LinesInAnyCase ==
  ASSUME NEW q \in Queries
  PROVE  LinesWith(QueryWords(q)) = LinesWith(LowerWords(q))
<1>1. ASSUME NEW i \in WordStarts(q)
      PROVE  Places(LowerOf(WordAt(q, i))) = Places(WordAt(q, i))
  <2> DEFINE s == WordAt(q, i)
  <2>1. GoodWord(s)
    BY QueryIs, WordIs
  <2> HIDE DEF s
  <2>2. s \in Seq(Chars) /\ LowerOf(s) \in Seq(Chars) /\ LowerOf(LowerOf(s)) = LowerOf(s)
    BY <2>1, GoodWordIs DEF GoodWord
  <2>3. \A j : StandsAt(LowerOf(s), text, j) <=> StandsAt(s, text, j)
    BY <2>2, StandsInAnyCase
  <2>4. Places(LowerOf(s)) = Places(s)
    BY <2>3 DEF Places
  <2> QED BY <2>4 DEF s
<1> DEFINE P(s) == Places(s)
<1>2. \A n : (\A s \in QueryWords(q) : \E x \in P(s) : x[1] = n)
             <=> (\A s \in LowerWords(q) : \E x \in P(s) : x[1] = n)
  <2>1. \A i \in WordStarts(q) : P(LowerOf(WordAt(q, i))) = P(WordAt(q, i))
    BY <1>1
  <2> HIDE DEF P
  <2> QED BY <2>1 DEF QueryWords, LowerWords
<1> QED BY <1>2 DEF LinesWith

(***************************************************************************)
(* The ids of the words of a query, each of them once.                     *)
(***************************************************************************)
Collected(q, ids) ==
  /\ ids \in Seq(1..Len(lexicon)) /\ Len(ids) \in Nat /\ Len(ids) >= 1 /\ DOMAIN ids = 1..Len(ids)
  /\ ToSet(ids) \subseteq DOMAIN lexicon
  /\ {lexicon[w] : w \in ToSet(ids)} = LowerWords(q)

LEMMA IdsAreCollected ==
  ASSUME EngineInv, NEW q \in Queries, CountWords(q) > 1,
         \A i \in WordStarts(q) : FindExisting(WordAt(q, i)) # {}
  PROVE  Collected(q, CollectQueryWords(q))
<1> DEFINE Id(i) == IdOf(lexicon, WordAt(q, i))
           W == WordStarts(q)
           f == [i \in DOMAIN q |-> Id(i)]
           S == {i \in W : \A k \in W : k < i => Id(k) # Id(i)}
           e == CollectQueryWords(q)
           L == Len(lexicon)
<1>1. e = ElementsAt(f, S)
  BY DEF CollectQueryWords
<1>2. L \in Nat /\ DOMAIN lexicon = 1..L /\ \A v, w \in DOMAIN lexicon : lexicon[v] = lexicon[w] => v = w
  BY LexiconIs DEF EngineInv
<1>3. W \subseteq 1..Len(q) /\ Len(q) \in Nat /\ W \subseteq DOMAIN q
  BY QueryIs DEF WordStarts
<1>4. IsFiniteSet(W) /\ Cardinality(W) \in Nat /\ W \in SUBSET Nat
  <2> HIDE DEF W
  <2> QED BY <1>3, SubsetOfInterval
<1>5. \A i \in W : Id(i) \in 1..L /\ lexicon[Id(i)] = LowerOf(WordAt(q, i))
  BY <1>2, IdIs DEF FindExisting
<1>6. \A i \in W : f[i] = Id(i)
  BY <1>3
<1> HIDE DEF W
<1>7. PICK i0 \in W : TRUE
  <2>1. W # {}
    <3>1. Cardinality(W) # 0
      BY <1>4 DEF CountWords, W
    <3> QED BY <3>1, FS_EmptySet
  <2> QED BY <2>1
<1>8. ASSUME NEW i \in W
      PROVE  \E k \in S : Id(k) = Id(i)
  <2> DEFINE same == {k \in W : Id(k) = Id(i)}
  <2>1. same \in SUBSET Nat /\ i \in same
    BY <1>4
  <2>2. PICK k \in same : \A j \in same : k <= j
    BY <2>1, LeastExists
  <2>3. k \in W /\ Id(k) = Id(i) /\ k \in Nat
    BY <2>1, <2>2
  <2>4. ASSUME NEW j \in W, j < k, Id(j) = Id(k)
        PROVE  FALSE
    <3>1. j \in same /\ j \in Nat
      BY <1>4, <2>3, <2>4
    <3>2. k <= j
      BY <2>2, <3>1
    <3> QED BY <2>3, <2>4, <3>1, <3>2
  <2>5. k \in S
    BY <2>3, <2>4
  <2> QED BY <2>3, <2>5
<1>9. S \subseteq W
  OBVIOUS
<1> HIDE DEF S, f, Id, L, e
<1>10. IsFiniteSet(S) /\ S \in SUBSET Nat
  BY <1>4, <1>9, FS_Subset
<1>11. \A i \in S : f[i] \in 1..L
  BY <1>5, <1>6, <1>9
<1>12. Picked(e, f, S, 1..L)
  BY <1>1, <1>10, <1>11, ElementsAtIs
<1>13. /\ e \in Seq(1..L) /\ Len(e) \in Nat /\ DOMAIN e = 1..Len(e)
       /\ \A x : x \in ToSet(e) <=> \E i \in S : x = f[i]
  BY <1>12 DEF Picked
<1>14. \A x : x \in ToSet(e) <=> \E i \in W : x = Id(i)
  BY <1>6, <1>8, <1>9, <1>13
<1>15. Len(e) >= 1
  <2>1. Id(i0) \in ToSet(e)
    BY <1>14
  <2>2. DOMAIN e # {}
    BY <2>1 DEF ToSet
  <2> QED BY <1>13, <2>2
<1>16. ToSet(e) \subseteq DOMAIN lexicon
  BY <1>2, <1>5, <1>14
<1>17. {lexicon[w] : w \in ToSet(e)} = LowerWords(q)
  <2>1. \A i \in W : lexicon[Id(i)] = LowerOf(WordAt(q, i))
    BY <1>5
  <2>2. LowerWords(q) = {LowerOf(WordAt(q, i)) : i \in W}
    BY DEF LowerWords, W
  <2> QED BY <1>14, <2>1, <2>2
<1> QED BY <1>13, <1>15, <1>16, <1>17 DEF Collected, e, L

(***************************************************************************)
(* The insertion sort puts the ids into another order, and no id is lost.  *)
(***************************************************************************)
Reordered(s, ids, T) == s \in Seq(T) /\ Len(s) = Len(ids) /\ ToSet(s) = ToSet(ids)

LEMMA SortKeepsIds ==
  ASSUME NEW T, NEW ids \in Seq(T), NEW caches, \A w \in ToSet(ids) : Len(caches[w]) \in Nat
  PROVE  Reordered(SortByCacheSize(ids, caches), ids, T)
<1> DEFINE N == Len(ids)
           D == 1..N
           Count(i) == Len(caches[ids[i]])
           First(i, k) == Count(i) < Count(k) \/ (Count(i) = Count(k) /\ i < k)
           Firsts(k) == {i \in D : First(i, k)}
           rank == [k \in D |-> Cardinality(Firsts(k)) + 1]
           at == [n \in D |-> CHOOSE k \in D : Cardinality(Firsts(k)) = n - 1]
           sorted == SortByCacheSize(ids, caches)
<1>1. N \in Nat /\ DOMAIN ids = D /\ \A i \in D : ids[i] \in T
  BY ElementOfSeq
<1>2. sorted = [n \in D |-> ids[at[n]]]
  BY <1>1 DEF SortByCacheSize
<1>3. IsFiniteSet(D) /\ Cardinality(D) = N
  <2> HIDE DEF N
  <2> QED BY <1>1, IntervalIs
<1>4. \A i \in D : Count(i) \in Nat /\ i \in Nat
  BY <1>1 DEF ToSet
<1>5. \A i, j, k \in D : /\ First(i, j) /\ First(j, k) => First(i, k)
                         /\ ~First(i, i)
                         /\ i = j \/ First(i, j) \/ First(j, i)
  <2> HIDE DEF Count, D
  <2> QED BY <1>4
<1>6. \A k \in D : IsFiniteSet(Firsts(k)) /\ Cardinality(Firsts(k)) \in Nat /\ Cardinality(Firsts(k)) < N
  <2> SUFFICES ASSUME NEW k \in D
               PROVE  IsFiniteSet(Firsts(k)) /\ Cardinality(Firsts(k)) \in Nat /\ Cardinality(Firsts(k)) < N
    OBVIOUS
  <2>1. Firsts(k) \in SUBSET D /\ k \notin Firsts(k)
    <3> HIDE DEF First
    <3> QED BY <1>5
  <2> HIDE DEF Firsts, D
  <2>2. /\ IsFiniteSet(Firsts(k)) /\ Cardinality(Firsts(k)) <= Cardinality(D)
        /\ Cardinality(Firsts(k)) = Cardinality(D) => Firsts(k) = D
    BY <1>3, <2>1, FS_Subset
  <2>3. Cardinality(Firsts(k)) \in Nat
    BY <2>2, FS_CardinalityType
  <2>4. Cardinality(Firsts(k)) # Cardinality(D)
    BY <2>1, <2>2
  <2> HIDE DEF N
  <2> QED BY <1>1, <1>3, <2>2, <2>3, <2>4
<1>7. ASSUME NEW x \in D, NEW y \in D, First(x, y)
      PROVE  Cardinality(Firsts(x)) < Cardinality(Firsts(y))
  <2>1. Firsts(x) \in SUBSET Firsts(y) /\ x \in Firsts(y) /\ x \notin Firsts(x)
    <3> HIDE DEF First, D
    <3> QED BY <1>5, <1>7
  <2>2. IsFiniteSet(Firsts(y)) /\ Cardinality(Firsts(x)) \in Nat /\ Cardinality(Firsts(y)) \in Nat
    BY <1>6
  <2> HIDE DEF Firsts
  <2>3. /\ Cardinality(Firsts(x)) <= Cardinality(Firsts(y))
        /\ Cardinality(Firsts(x)) = Cardinality(Firsts(y)) => Firsts(x) = Firsts(y)
    BY <2>1, <2>2, FS_Subset
  <2> QED BY <2>1, <2>2, <2>3
<1> HIDE DEF First
<1>8. \A k \in D : rank[k] = Cardinality(Firsts(k)) + 1
  OBVIOUS
<1> HIDE DEF Firsts, rank
<1>9. rank \in [D -> 1..Cardinality(D)]
  <2>1. rank = [k \in D |-> Cardinality(Firsts(k)) + 1]
    BY DEF rank
  <2>2. \A k \in D : Cardinality(Firsts(k)) + 1 \in 1..N
    BY <1>1, <1>6
  <2> QED BY <1>3, <2>1, <2>2
<1>10. ASSUME NEW x \in D, NEW y \in D, rank[x] = rank[y]
       PROVE  x = y
  <2>1. Cardinality(Firsts(x)) = Cardinality(Firsts(y)) /\ Cardinality(Firsts(x)) \in Nat
    <3>1. /\ Cardinality(Firsts(x)) \in Nat /\ Cardinality(Firsts(y)) \in Nat
          /\ Cardinality(Firsts(x)) + 1 = Cardinality(Firsts(y)) + 1
      BY <1>6, <1>8, <1>10
    <3> QED BY <3>1
  <2>2. ~First(x, y) /\ ~First(y, x)
    BY <1>7, <2>1
  <2> QED BY <1>5, <2>2
<1> HIDE DEF D
<1>11. \A n \in 1..Cardinality(D) : \E x \in D : rank[x] = n
  BY <1>3, <1>9, <1>10, RanksAreAll
<1>12. \A k \in D, n \in D : Cardinality(Firsts(k)) = n - 1 <=> rank[k] = n
  <2>1. \A n \in D : n \in Nat
    BY <1>1 DEF D
  <2> QED BY <1>6, <1>8, <2>1
<1>13. \A n \in D : at[n] \in D /\ rank[at[n]] = n
  <2> SUFFICES ASSUME NEW n \in D PROVE at[n] \in D /\ rank[at[n]] = n
    OBVIOUS
  <2>1. n \in 1..Cardinality(D)
    BY <1>3 DEF D
  <2>2. \E k \in D : Cardinality(Firsts(k)) = n - 1
    BY <1>11, <1>12, <2>1
  <2>3. at[n] \in D /\ Cardinality(Firsts(at[n])) = n - 1
    BY <2>2
  <2> HIDE DEF at
  <2> QED BY <1>12, <2>3
<1>14. \A k \in D : \E n \in D : at[n] = k
  <2> SUFFICES ASSUME NEW k \in D PROVE \E n \in D : at[n] = k
    OBVIOUS
  <2> HIDE DEF at
  <2>1. rank[k] \in D
    BY <1>3, <1>9 DEF D
  <2>2. at[rank[k]] = k
    BY <1>10, <1>13, <2>1
  <2> QED BY <2>1, <2>2
<1> HIDE DEF at, sorted
<1>15. sorted \in [D -> T] /\ \A n \in D : sorted[n] = ids[at[n]]
  BY <1>1, <1>2, <1>13
<1>16. sorted \in Seq(T) /\ Len(sorted) = N /\ DOMAIN sorted = D
  <2> HIDE DEF N
  <2> QED BY <1>1, <1>15 DEF D
<1>17. ToSet(sorted) = ToSet(ids)
  <2> HIDE DEF N
  <2>1. ASSUME NEW n \in D
        PROVE  sorted[n] \in ToSet(ids)
    BY <1>1, <1>13, <1>15, <2>1 DEF ToSet
  <2>2. ASSUME NEW k \in D
        PROVE  ids[k] \in ToSet(sorted)
    <3>1. PICK n \in D : at[n] = k
      BY <1>14
    <3>2. sorted[n] = ids[k]
      BY <1>15, <3>1
    <3> QED BY <1>16, <3>2 DEF ToSet
  <2>3. ToSet(ids) = {ids[k] : k \in D} /\ ToSet(sorted) = {sorted[n] : n \in D}
    BY <1>1, <1>16 DEF ToSet
  <2> QED BY <2>1, <2>2, <2>3
<1> QED BY <1>16, <1>17 DEF sorted, N, Reordered

LEMMA MultiHolds ==
  ASSUME EngineInv, UNCHANGED index, pc = "read", NEW q \in Queries, query' = q,
         ~Has(q, {Quote}), ~Has(q, {Star}), CountWords(q) > 1, HandleMulti(q)
  PROVE  EngineInv'
<1> DEFINE known == \A i \in WordStarts(q) : FindExisting(WordAt(q, i)) # {}
           ids == CollectQueryWords(q)
           sorted == SortByCacheSize(ids, cache')
<1>1. \/ ~known /\ ReplyBlank
      \/ /\ known
         /\ cache' = WithCaches(ToSet(ids))
         /\ \/ Len(ids) = 1 /\ Reply(LineNos(WordSource(cache'[ids[1]])))
            \/ /\ Len(ids) > 1
               /\ words' = sorted
               /\ stage' = 2
               /\ left' = WordSource(cache'[words'[1]])
               /\ right' = WordSource(cache'[words'[2]])
               /\ lines' = <<>>
               /\ printed' = <<>>
               /\ pc' = "merge"
  BY DEF HandleMulti
<1>2. RightAnswer(q) = {LineNo(n) : n \in LinesWith(QueryWords(q))}
  BY WordsAnswerIs DEF RightAnswer
<1>3. LinesWith(QueryWords(q)) = LinesWith(LowerWords(q))
  BY LinesInAnyCase
<1>4. known => Collected(q, ids)
  BY IdsAreCollected
<1>5. CASE ~known /\ ReplyBlank
  <2>1. PICK i \in WordStarts(q) : FindExisting(WordAt(q, i)) = {}
    BY <1>5
  <2>2. GoodWord(WordAt(q, i)) /\ WordAt(q, i) \in QueryWords(q)
    BY QueryIs, WordIs DEF QueryWords
  <2>3. Places(WordAt(q, i)) = {}
    BY <2>1, <2>2, WordNotFound
  <2>4. LinesWith(QueryWords(q)) = {}
    BY <2>2, <2>3 DEF LinesWith
  <2> QED BY <1>2, <1>5, <2>4, BlankHolds
<1> HIDE DEF known, ids, sorted
<1>6. ASSUME known, cache' = WithCaches(ToSet(ids))
      PROVE  /\ ids \in Seq(1..Len(lexicon)) /\ Len(ids) \in Nat /\ Len(ids) >= 1 /\ DOMAIN ids = 1..Len(ids)
             /\ ToSet(ids) \subseteq DOMAIN lexicon
             /\ {lexicon[w] : w \in ToSet(ids)} = LowerWords(q)
             /\ CachesKept /\ ToSet(ids) \subseteq DOMAIN cache'
             /\ \A w \in ToSet(ids) : /\ w \in DOMAIN lexicon /\ cache'[w] = Postings(w)
                                      /\ WordSource(cache'[w]) \in Seq(1..line_count)
                                      /\ Increasing(WordSource(cache'[w]))
                                      /\ ToSet(WordSource(cache'[w])) = LinesWith({lexicon[w]})
  <2>1. /\ ids \in Seq(1..Len(lexicon)) /\ Len(ids) \in Nat /\ Len(ids) >= 1 /\ DOMAIN ids = 1..Len(ids)
        /\ ToSet(ids) \subseteq DOMAIN lexicon
        /\ {lexicon[w] : w \in ToSet(ids)} = LowerWords(q)
    BY <1>4, <1>6 DEF Collected
  <2>2. /\ CachesKept /\ ToSet(ids) \subseteq DOMAIN cache'
        /\ \A w \in ToSet(ids) : w \in DOMAIN lexicon /\ cache'[w] = Postings(w)
    BY <1>6, <2>1, CachesAreMade
  <2>3. \A w \in ToSet(ids) : /\ WordSource(Postings(w)) \in Seq(1..line_count)
                              /\ Increasing(WordSource(Postings(w)))
                              /\ ToSet(WordSource(Postings(w))) = LinesWith({lexicon[w]})
    BY <2>2, WordLines
  <2> QED BY <2>1, <2>2, <2>3
<1>7. CASE /\ known
           /\ cache' = WithCaches(ToSet(ids))
           /\ Len(ids) = 1 /\ Reply(LineNos(WordSource(cache'[ids[1]])))
  <2>1. ToSet(ids) = {ids[1]} /\ ids[1] \in ToSet(ids)
    <3>1. DOMAIN ids = 1..1
      BY <1>6, <1>7
    <3>2. 1..1 = {1}
      OBVIOUS
    <3> QED BY <3>1, <3>2 DEF ToSet
  <2> DEFINE ns == WordSource(cache'[ids[1]])
  <2>2. /\ ns \in Seq(1..line_count) /\ Increasing(ns) /\ ToSet(ns) = LinesWith({lexicon[ids[1]]})
        /\ CachesKept /\ {lexicon[w] : w \in ToSet(ids)} = LowerWords(q)
    BY <1>6, <1>7, <2>1
  <2>3. LowerWords(q) = {lexicon[ids[1]]}
    BY <2>1, <2>2
  <2> HIDE DEF ns
  <2>4. ns \in Seq(Nat)
    <3>1. 1..line_count \subseteq Nat
      BY TextIs DEF EngineInv
    <3> QED BY <2>2, <3>1, SeqMonotonic
  <2>5. /\ LineNos(ns) \in Seq(Seq(Nat))
        /\ Lists(LineNos(ns), RightAnswer(q))
    BY <1>2, <1>3, <2>2, <2>3, <2>4, LineNosList
  <2>6. Reply(LineNos(ns))
    BY <1>7 DEF ns
  <2> QED BY <2>2, <2>5, <2>6, ReplyHolds
<1>8. CASE /\ known
           /\ cache' = WithCaches(ToSet(ids))
           /\ Len(ids) > 1
           /\ words' = sorted
           /\ stage' = 2
           /\ left' = WordSource(cache'[words'[1]])
           /\ right' = WordSource(cache'[words'[2]])
           /\ lines' = <<>>
           /\ printed' = <<>>
           /\ pc' = "merge"
  <2>1. /\ sorted \in Seq(1..Len(lexicon)) /\ Len(sorted) = Len(ids) /\ ToSet(sorted) = ToSet(ids)
    <3>1. \A w \in ToSet(ids) : Postings(w) \in Seq(Records)
      BY <1>6, <1>8, PostingsAre DEF EngineInv
    <3>2. \A w \in ToSet(ids) : Len(cache'[w]) \in Nat
      <4> HIDE DEF Records
      <4> QED BY <1>6, <1>8, <3>1
    <3>3. Reordered(sorted, ids, 1..Len(lexicon))
      <4>1. ids \in Seq(1..Len(lexicon))
        BY <1>6, <1>8
      <4> DEFINE L == 1..Len(lexicon)
      <4> HIDE DEF L
      <4> QED BY <3>2, <4>1, SortKeepsIds DEF sorted, L
    <3> QED BY <3>3 DEF Reordered
  <2>2. Len(words') \in Nat /\ Len(words') >= 2 /\ words' \in Seq(1..Len(lexicon)) /\ ToSet(words') = ToSet(ids)
        /\ DOMAIN words' = 1..Len(words')
    BY <1>6, <1>8, <2>1
  <2>3. words'[1] \in ToSet(ids) /\ words'[2] \in ToSet(ids)
    <3>1. 1 \in 1..Len(words') /\ 2 \in 1..Len(words')
      BY <2>2
    <3> QED BY <2>2, <3>1 DEF ToSet
  <2>4. /\ left' \in Seq(1..line_count) /\ Increasing(left') /\ ToSet(left') = LinesWith({lexicon[words'[1]]})
        /\ right' \in Seq(1..line_count) /\ Increasing(right') /\ ToSet(right') = LinesWith({lexicon[words'[2]]})
        /\ CachesKept
    BY <1>6, <1>8, <2>3
  <2>5. line_count' = line_count /\ lexicon' = lexicon /\ text' = text
    BY DEF index
  <2>6. TypeOK' /\ OffsetsInv' /\ LexiconInv' /\ OccInv' /\ CacheInv' /\ PhaseInv'
    <3>1. stage' \in 0..Len(words')
      BY <1>8, <2>2
    <3>2. printed' \in Seq(Seq(Nat)) /\ lines' \in Seq(1..line_count)
      BY <1>8
    <3>3. {left', right'} \subseteq Seq(1..line_count)
      BY <2>4
    <3> QED BY <1>8, <2>2, <2>4, <3>1, <3>2, <3>3, ServingHolds
  <2>7. Written' = <<>>
    BY <1>8 DEF Written
  <2>8. ToSet(Written') = {} /\ Increasing(Written)'
    BY <2>7 DEF ToSet, Increasing
  <2>9. {lexicon'[words'[k]] : k \in 1..stage'} = {lexicon[words'[1]]} \cup {lexicon[words'[2]]}
    <3>1. 1..stage' = {1, 2}
      BY <1>8
    <3> QED BY <2>5, <3>1
  <2>10. LinesWith(StageWords)' = ToSet(left') \cap ToSet(right')
    <3>1. LinesWith(StageWords)' = LinesWith({lexicon[words'[1]]} \cup {lexicon[words'[2]]})
      BY <2>5, <2>9, AnswerFrame
    <3> QED BY <2>4, <3>1, LinesWithBoth
  <2>11. {lexicon'[w] : w \in ToSet(words')} = {LowerOf(WordAt(query', i)) : i \in WordStarts(query')}
    BY <1>6, <1>8, <2>2, <2>5 DEF LowerWords
  <2>12. ToSet(words') \subseteq DOMAIN cache' /\ stage' \in 2..Len(words')
    BY <1>6, <1>8, <2>2
  <2>13. ~Has(q, {Quote, Star})
    BY DEF Has
  <2>14. IF LastStage' THEN lines' = <<>> /\ printed' = LineNos(Written') ELSE printed' = <<>>
    BY <1>8, <2>7 DEF LineNos
  <2>15. MergeInv'
    BY <2>4, <2>8, <2>10, <2>11, <2>12, <2>13, <2>14 DEF MergeInv, Increasing
  <2>16. PatternInv' /\ AnswersAreRight'
    BY <1>8 DEF PatternInv, AnswersAreRight
  <2> QED BY <2>6, <2>15, <2>16 DEF EngineInv
<1> QED BY <1>1, <1>5, <1>7, <1>8

-----------------------------------------------------------------------------
(* Intersections.                                                          *)

LEMMA HeadAndTail ==
  ASSUME NEW T, T \subseteq Nat, NEW s \in Seq(T), s # <<>>, Increasing(s)
  PROVE  /\ Head(s) \in T /\ Tail(s) \in Seq(T) /\ Increasing(Tail(s))
         /\ ToSet(s) = {Head(s)} \cup ToSet(Tail(s))
         /\ \A m \in ToSet(Tail(s)) : Head(s) < m /\ m \in T
<1> DEFINE n == Len(s)
           t == Tail(s)
<1>1. n \in Nat /\ DOMAIN s = 1..n /\ n # 0 /\ \A i \in 1..n : s[i] \in T
  BY EmptySeq, ElementOfSeq
<1>2. Head(s) = s[1] /\ t \in Seq(T) /\ Len(t) = n - 1 /\ \A i \in 1..n - 1 : t[i] = s[i + 1]
  BY HeadTailProperties
<1> HIDE DEF n, t
<1>3. DOMAIN t = 1..n - 1
  BY <1>2
<1>4. 1 \in 1..n /\ \A i \in 1..n - 1 : i + 1 \in 1..n /\ 1 < i + 1
  BY <1>1
<1>5. \A i \in 1..n : i = 1 \/ \E j \in 1..n - 1 : i = j + 1
  <2>1. \A i \in 1..n : i = 1 \/ (i - 1 \in 1..n - 1 /\ i = (i - 1) + 1)
    BY <1>1
  <2> QED BY <2>1
<1>6. Increasing(t)
  <2>1. ASSUME NEW i \in 1..n - 1, NEW j \in 1..n - 1, i < j
        PROVE  t[i] < t[j]
    <3>1. i + 1 < j + 1 /\ i + 1 \in 1..n /\ j + 1 \in 1..n
      BY <1>1, <2>1
    <3> QED BY <1>1, <1>2, <3>1 DEF Increasing
  <2> QED BY <1>3, <2>1 DEF Increasing
<1>7. ToSet(s) = {s[i] : i \in 1..n} /\ ToSet(t) = {t[i] : i \in 1..n - 1}
  BY <1>1, <1>3 DEF ToSet
<1>8. ToSet(s) = {s[1]} \cup ToSet(t)
  <2>1. \A i \in 1..n : s[i] \in {s[1]} \cup ToSet(t)
    BY <1>2, <1>5, <1>7
  <2>2. \A i \in 1..n - 1 : t[i] \in ToSet(s)
    BY <1>2, <1>4, <1>7
  <2> QED BY <1>4, <1>7, <2>1, <2>2
<1>9. \A m \in ToSet(t) : s[1] < m /\ m \in T
  <2>1. ASSUME NEW i \in 1..n - 1
        PROVE  s[1] < t[i] /\ t[i] \in T
    BY <1>1, <1>2, <1>4 DEF Increasing
  <2> QED BY <1>7, <2>1
<1> QED BY <1>1, <1>2, <1>4, <1>6, <1>8, <1>9 DEF t

Appended(t, s, n, T) == t \in Seq(T) /\ Increasing(t) /\ ToSet(t) = ToSet(s) \cup {n}

LEMMA AppendIs ==
  ASSUME NEW T, T \subseteq Nat, NEW s \in Seq(T), Increasing(s), NEW n \in T,
         \A m \in ToSet(s) : m < n
  PROVE  Appended(Append(s, n), s, n, T)
<1> DEFINE k == Len(s)
           t == Append(s, n)
<1>1. k \in Nat /\ DOMAIN s = 1..k
  OBVIOUS
<1>2. t \in Seq(T) /\ Len(t) = k + 1 /\ t[k + 1] = n /\ \A i \in 1..k : t[i] = s[i]
  BY AppendProperties
<1> HIDE DEF k, t
<1>3. DOMAIN t = 1..k + 1
  BY <1>2
<1>4. \A i \in 1..k + 1 : i = k + 1 \/ i \in 1..k
  BY <1>1
<1>5. k + 1 \in 1..k + 1 /\ \A i \in 1..k : i \in 1..k + 1
  BY <1>1
<1>6. ToSet(s) = {s[i] : i \in 1..k} /\ ToSet(t) = {t[i] : i \in 1..k + 1}
  BY <1>1, <1>3 DEF ToSet
<1>7. ToSet(t) = ToSet(s) \cup {n}
  <2>1. \A i \in 1..k + 1 : t[i] \in ToSet(s) \cup {n}
    BY <1>2, <1>4, <1>6
  <2>2. \A i \in 1..k : s[i] \in ToSet(t)
    BY <1>2, <1>5, <1>6
  <2> QED BY <1>2, <1>5, <1>6, <2>1, <2>2
<1>8. ASSUME NEW i \in 1..k + 1, NEW j \in 1..k + 1, i < j
      PROVE  t[i] < t[j]
  <2>1. i \in 1..k
    BY <1>1, <1>8
  <2>2. CASE j = k + 1
    BY <1>2, <1>6, <2>1, <2>2
  <2>3. CASE j \in 1..k
    BY <1>1, <1>2, <1>8, <2>1, <2>3 DEF Increasing
  <2> QED BY <1>4, <2>2, <2>3
<1> QED BY <1>2, <1>3, <1>7, <1>8 DEF Increasing, t, Appended

(***************************************************************************)
(* What an intersection relies on.                                         *)
(***************************************************************************)
MergeFacts ==
  /\ line_count \in Nat /\ 1..line_count \subseteq Nat
  /\ left \in Seq(1..line_count) /\ right \in Seq(1..line_count) /\ lines \in Seq(1..line_count)
  /\ Written \in Seq(1..line_count)
  /\ printed \in Seq(Seq(Nat)) /\ query \in Queries
  /\ words \in Seq(1..Len(lexicon)) /\ Len(words) \in Nat /\ DOMAIN words = 1..Len(words)
  /\ stage \in 2..Len(words)
  /\ Increasing(left) /\ Increasing(right) /\ Increasing(Written)
  /\ \A n \in ToSet(Written), m \in ToSet(left) \cup ToSet(right) : n < m
  /\ ToSet(Written) \cup (ToSet(left) \cap ToSet(right)) = LinesWith(StageWords)
  /\ IF LastStage THEN lines = <<>> /\ printed = LineNos(Written) ELSE printed = <<>>
  /\ ToSet(words) \subseteq DOMAIN cache
  /\ DOMAIN cache \subseteq DOMAIN lexicon
  /\ {lexicon[w] : w \in ToSet(words)} = LowerWords(query)
  /\ ~Has(query, {Quote, Star}) /\ CountWords(query) > 1

LEMMA MergeFactsHold ==
  ASSUME EngineInv, pc = "merge"
  PROVE  MergeFacts
<1>1. MergeInv /\ query \in Queries
  BY DEF EngineInv, PhaseInv
<1>2. /\ {left, right} \subseteq Seq(1..line_count) /\ lines \in Seq(1..line_count)
      /\ printed \in Seq(Seq(Nat)) /\ words \in Seq(1..Len(lexicon))
      /\ DOMAIN cache \subseteq 1..Len(lexicon)
  BY DEF EngineInv, TypeOK
<1>3. line_count \in Nat /\ 1..line_count \subseteq Nat
  <2>1. line_count \in Nat
    BY TextIs DEF EngineInv
  <2> QED BY <2>1
<1>4. Len(words) \in Nat /\ DOMAIN words = 1..Len(words)
  BY <1>2
<1>5. AllLines = 1..line_count
  BY AllIsRead DEF EngineInv, PhaseInv
<1>6. ToSet(Written) \subseteq 1..line_count
  <2>1. ToSet(Written) \subseteq LinesWith(StageWords)
    BY <1>1 DEF MergeInv
  <2> QED BY <1>5, <2>1 DEF LinesWith
<1>7. Written \in Seq(1..line_count)
  <2>1. CASE LastStage
    <3> DEFINE n == Len(printed)
    <3>1. n \in Nat /\ DOMAIN printed = 1..n
      BY <1>2
    <3>2. Written = [i \in 1..n |-> printed[i][1]]
      BY <2>1, <3>1 DEF Written
    <3> HIDE DEF n
    <3>3. \A i \in 1..n : printed[i][1] \in ToSet(Written)
      BY <3>2 DEF ToSet
    <3>4. \A i \in 1..n : printed[i][1] \in 1..line_count
      BY <1>6, <3>3
    <3>5. Written \in [1..n -> 1..line_count]
      BY <3>2, <3>4
    <3> DEFINE T == 1..line_count
    <3>6. Written \in [1..n -> T]
      BY <3>5
    <3> HIDE DEF T
    <3>7. Written \in Seq(T)
      BY <3>1, <3>6
    <3> QED BY <3>7 DEF T
  <2>2. CASE ~LastStage
    BY <1>2, <2>2 DEF Written
  <2> QED BY <2>1, <2>2
<1>8. DOMAIN cache \subseteq DOMAIN lexicon
  BY <1>2, LexiconIs DEF EngineInv
<1> QED BY <1>1, <1>2, <1>3, <1>4, <1>7, <1>8 DEF MergeInv, MergeFacts, LowerWords

LEMMA CachesStay ==
  ASSUME EngineInv, cache' = cache
  PROVE  CachesKept
<1>1. DOMAIN cache \subseteq DOMAIN lexicon
  BY LexiconIs DEF EngineInv, TypeOK
<1> QED BY <1>1 DEF CachesKept, EngineInv, CacheInv

(***************************************************************************)
(* Emit writes one more line.                                              *)
(***************************************************************************)
LEMMA EmitIs ==
  ASSUME MergeFacts, NEW n \in 1..line_count, Emit(n), UNCHANGED <<words, stage>>
  PROVE  /\ Written' = Append(Written, n)
         /\ lines' \in Seq(1..line_count) /\ printed' \in Seq(Seq(Nat))
         /\ IF LastStage THEN lines' = <<>> /\ printed' = LineNos(Written') ELSE printed' = <<>>
<1>1. LastStage' = LastStage
  BY DEF LastStage
<1>2. CASE LastStage
  <2>1. printed' = Append(printed, LineNo(n)) /\ lines' = lines /\ lines = <<>> /\ printed = LineNos(Written)
    BY <1>2 DEF Emit, MergeFacts
  <2> DEFINE k == Len(printed)
             W == Written
             t == Append(W, n)
  <2>2. /\ n \in Nat /\ LineNo(n) \in Seq(Nat) /\ LineNo(n)[1] = n
        /\ W \in Seq(1..line_count) /\ printed \in Seq(Seq(Nat)) /\ k \in Nat /\ DOMAIN printed = 1..k
    BY DEF MergeFacts, LineNo
  <2>3. printed' \in Seq(Seq(Nat)) /\ Len(printed') = k + 1 /\ printed'[k + 1] = LineNo(n)
        /\ \A i \in 1..k : printed'[i] = printed[i]
    BY <2>1, <2>2, AppendProperties
  <2>4. DOMAIN W = 1..k /\ Len(W) = k /\ \A i \in 1..k : W[i] = printed[i][1] /\ printed[i] = LineNo(W[i])
    <3>1. W = [i \in 1..k |-> printed[i][1]]
      BY <1>2, <2>2 DEF Written
    <3> HIDE DEF W, k
    <3>2. DOMAIN W = 1..k /\ Len(W) = k
      BY <2>2, <3>1
    <3>3. printed = [i \in 1..k |-> LineNo(W[i])]
      BY <2>1, <3>2 DEF LineNos, W
    <3> QED BY <3>1, <3>2, <3>3
  <2>5. t \in Seq(1..line_count) /\ Len(t) = k + 1 /\ t[k + 1] = n /\ \A i \in 1..k : t[i] = W[i]
    BY <2>2, <2>4, AppendProperties
  <2>6. DOMAIN t = 1..k + 1 /\ DOMAIN printed' = 1..k + 1
    BY <2>2, <2>3, <2>5
  <2>7. Written' = [i \in 1..k + 1 |-> printed'[i][1]]
    BY <1>1, <1>2, <2>6 DEF Written
  <2> HIDE DEF t, W, k
  <2>8. \A i \in 1..k + 1 : i = k + 1 \/ i \in 1..k
    BY <2>2
  <2>9. \A i \in 1..k + 1 : printed'[i][1] = t[i] /\ printed'[i] = LineNo(t[i])
    BY <2>2, <2>3, <2>4, <2>5, <2>8
  <2>10. Written' = t
    <3>1. t = [i \in 1..k + 1 |-> t[i]]
      BY <2>5, <2>6
    <3> QED BY <2>7, <2>9, <3>1
  <2>11. printed' = LineNos(t)
    <3>1. LineNos(t) = [i \in 1..k + 1 |-> LineNo(t[i])]
      BY <2>6 DEF LineNos
    <3>2. printed' = [i \in 1..k + 1 |-> printed'[i]]
      BY <2>3, <2>6
    <3> QED BY <2>9, <3>1, <3>2
  <2>12. lines' = <<>> /\ lines' \in Seq(1..line_count)
    BY <2>1
  <2> QED BY <1>2, <2>3, <2>10, <2>11, <2>12 DEF t, W
<1>3. CASE ~LastStage
  <2>1. lines' = Append(lines, n) /\ printed' = printed /\ printed = <<>> /\ Written = lines /\ Written' = lines'
    BY <1>1, <1>3 DEF Emit, MergeFacts, Written
  <2>2. lines' \in Seq(1..line_count)
    BY <2>1, AppendProperties DEF MergeFacts
  <2>3. printed' \in Seq(Seq(Nat))
    BY <2>1 DEF MergeFacts
  <2> QED BY <1>3, <2>1, <2>2, <2>3
<1> QED BY <1>2, <1>3

LEMMA MergeStepHolds ==
  ASSUME EngineInv, MergeStep
  PROVE  EngineInv'
<1>1. /\ pc = "merge" /\ left # <<>> /\ right # <<>>
      /\ pc' = "merge" /\ UNCHANGED index /\ cache' = cache /\ query' = query /\ words' = words /\ stage' = stage
      /\ text' = text /\ lexicon' = lexicon /\ line_count' = line_count
      /\ \/ /\ Head(left) = Head(right)
            /\ Emit(Head(left))
            /\ left' = Tail(left) /\ right' = Tail(right)
         \/ /\ Head(left) < Head(right)
            /\ left' = Tail(left)
            /\ right' = right /\ lines' = lines /\ printed' = printed
         \/ /\ Head(left) > Head(right)
            /\ right' = Tail(right)
            /\ left' = left /\ lines' = lines /\ printed' = printed
  BY DEF MergeStep, index
<1> DEFINE T == 1..line_count
           h == Head(left)
           k == Head(right)
<1>2. MergeFacts
  BY <1>1, MergeFactsHold
<1>3. /\ T \subseteq Nat /\ left \in Seq(T) /\ right \in Seq(T) /\ lines \in Seq(T) /\ Written \in Seq(T)
      /\ Increasing(left) /\ Increasing(right) /\ Increasing(Written)
      /\ \A n \in ToSet(Written), m \in ToSet(left) \cup ToSet(right) : n < m
      /\ ToSet(Written) \cup (ToSet(left) \cap ToSet(right)) = LinesWith(StageWords)
      /\ printed \in Seq(Seq(Nat)) /\ query \in Queries
      /\ words \in Seq(1..Len(lexicon)) /\ stage \in 2..Len(words)
      /\ IF LastStage THEN lines = <<>> /\ printed = LineNos(Written) ELSE printed = <<>>
  BY <1>2 DEF MergeFacts
<1> HIDE DEF T
<1>4. /\ h \in T /\ Tail(left) \in Seq(T) /\ Increasing(Tail(left))
      /\ ToSet(left) = {h} \cup ToSet(Tail(left))
      /\ \A m \in ToSet(Tail(left)) : h < m /\ m \in T
  BY <1>1, <1>3, HeadAndTail
<1>5. /\ k \in T /\ Tail(right) \in Seq(T) /\ Increasing(Tail(right))
      /\ ToSet(right) = {k} \cup ToSet(Tail(right))
      /\ \A m \in ToSet(Tail(right)) : k < m /\ m \in T
  BY <1>1, <1>3, HeadAndTail
<1> HIDE DEF h, k
<1>6. \A m \in T : m \in Nat
  BY <1>3
<1> DEFINE Good ==
             /\ left' \in Seq(T) /\ right' \in Seq(T) /\ lines' \in Seq(T) /\ printed' \in Seq(Seq(Nat))
             /\ Increasing(left') /\ Increasing(right') /\ Increasing(Written')
             /\ \A n \in ToSet(Written'), m \in ToSet(left') \cup ToSet(right') : n < m
             /\ ToSet(Written') \cup (ToSet(left') \cap ToSet(right')) = LinesWith(StageWords)
             /\ IF LastStage THEN lines' = <<>> /\ printed' = LineNos(Written') ELSE printed' = <<>>
<1>7. ASSUME /\ h = k /\ Emit(h) /\ left' = Tail(left) /\ right' = Tail(right)
      PROVE  Good
  <2>1. /\ Written' = Append(Written, h)
        /\ lines' \in Seq(T) /\ printed' \in Seq(Seq(Nat))
        /\ IF LastStage THEN lines' = <<>> /\ printed' = LineNos(Written') ELSE printed' = <<>>
    BY <1>1, <1>2, <1>4, <1>7, EmitIs DEF T
  <2>2. \A m \in ToSet(Written) : m < h
    BY <1>3, <1>4
  <2>3. Increasing(Written') /\ ToSet(Written') = ToSet(Written) \cup {h}
    <3>1. Increasing(Append(Written, h)) /\ ToSet(Append(Written, h)) = ToSet(Written) \cup {h}
      <4>1. T \subseteq Nat /\ Written \in Seq(T) /\ Increasing(Written) /\ h \in T
        BY <1>3, <1>4
      <4>2. Appended(Append(Written, h), Written, h, T)
        BY <4>1, <2>2, AppendIs
      <4> QED BY <4>2 DEF Appended
    <3> QED BY <2>1, <3>1
  <2>4. \A n \in ToSet(Written'), m \in ToSet(left') \cup ToSet(right') : n < m
    BY <1>3, <1>4, <1>5, <1>7, <2>3
  <2>5. h \notin ToSet(Tail(left)) /\ h \notin ToSet(Tail(right))
    BY <1>4, <1>5, <1>6, <1>7
  <2>6. ToSet(Written') \cup (ToSet(left') \cap ToSet(right')) =
          ToSet(Written) \cup (ToSet(left) \cap ToSet(right))
    BY <1>4, <1>5, <1>7, <2>3, <2>5
  <2>7. left' \in Seq(T) /\ right' \in Seq(T) /\ Increasing(left') /\ Increasing(right')
    BY <1>4, <1>5, <1>7
  <2>8. ToSet(Written') \cup (ToSet(left') \cap ToSet(right')) = LinesWith(StageWords)
    BY <1>3, <2>6
  <2> QED BY <2>1, <2>3, <2>4, <2>7, <2>8
<1>8. Written' = Written \/ ~(UNCHANGED <<lines, printed>>)
  BY <1>1 DEF Written, LastStage
<1>9. ASSUME /\ h < k /\ left' = Tail(left)
           /\ right' = right /\ lines' = lines /\ printed' = printed
      PROVE  Good
  <2>1. Written' = Written
    BY <1>8, <1>9
  <2>2. h \notin ToSet(right)
    BY <1>4, <1>5, <1>6, <1>9
  <2>3. ToSet(left') \cap ToSet(right') = ToSet(left) \cap ToSet(right)
    BY <1>4, <1>9, <2>2
  <2>4. \A n \in ToSet(Written'), m \in ToSet(left') \cup ToSet(right') : n < m
    BY <1>3, <1>4, <1>9, <2>1
  <2>5. /\ left' \in Seq(T) /\ right' \in Seq(T) /\ lines' \in Seq(T) /\ printed' \in Seq(Seq(Nat))
        /\ Increasing(left') /\ Increasing(right') /\ Increasing(Written')
    BY <1>3, <1>4, <1>9, <2>1
  <2>6. ToSet(Written') \cup (ToSet(left') \cap ToSet(right')) = LinesWith(StageWords)
    BY <1>3, <2>1, <2>3
  <2>7. IF LastStage THEN lines' = <<>> /\ printed' = LineNos(Written') ELSE printed' = <<>>
    BY <1>3, <1>9, <2>1
  <2> QED BY <2>4, <2>5, <2>6, <2>7
<1>10. ASSUME /\ h > k /\ right' = Tail(right)
            /\ left' = left /\ lines' = lines /\ printed' = printed
      PROVE  Good
  <2>1. Written' = Written
    BY <1>8, <1>10
  <2>2. k \notin ToSet(left)
    BY <1>4, <1>5, <1>6, <1>10
  <2>3. ToSet(left') \cap ToSet(right') = ToSet(left) \cap ToSet(right)
    BY <1>5, <1>10, <2>2
  <2>4. \A n \in ToSet(Written'), m \in ToSet(left') \cup ToSet(right') : n < m
    BY <1>3, <1>5, <1>10, <2>1
  <2>5. /\ left' \in Seq(T) /\ right' \in Seq(T) /\ lines' \in Seq(T) /\ printed' \in Seq(Seq(Nat))
        /\ Increasing(left') /\ Increasing(right') /\ Increasing(Written')
    BY <1>3, <1>5, <1>10, <2>1
  <2>6. ToSet(Written') \cup (ToSet(left') \cap ToSet(right')) = LinesWith(StageWords)
    BY <1>3, <2>1, <2>3
  <2>7. IF LastStage THEN lines' = <<>> /\ printed' = LineNos(Written') ELSE printed' = <<>>
    BY <1>3, <1>10, <2>1
  <2> QED BY <2>4, <2>5, <2>6, <2>7
<1>11. Good
  <2>1. \/ h = k /\ Emit(h) /\ left' = Tail(left) /\ right' = Tail(right)
        \/ h < k /\ left' = Tail(left) /\ right' = right /\ lines' = lines /\ printed' = printed
        \/ h > k /\ right' = Tail(right) /\ left' = left /\ lines' = lines /\ printed' = printed
    BY <1>1 DEF h, k
  <2> HIDE DEF Good
  <2> QED BY <1>7, <1>9, <1>10, <2>1
<1>12. /\ left' \in Seq(T) /\ right' \in Seq(T) /\ lines' \in Seq(T) /\ printed' \in Seq(Seq(Nat))
       /\ Increasing(left') /\ Increasing(right') /\ Increasing(Written')
       /\ \A n \in ToSet(Written'), m \in ToSet(left') \cup ToSet(right') : n < m
       /\ ToSet(Written') \cup (ToSet(left') \cap ToSet(right')) = LinesWith(StageWords)
       /\ IF LastStage THEN lines' = <<>> /\ printed' = LineNos(Written') ELSE printed' = <<>>
  BY <1>11
<1> HIDE DEF Good
<1>13. TypeOK' /\ OffsetsInv' /\ LexiconInv' /\ OccInv' /\ CacheInv' /\ PhaseInv'
  <2>1. {left', right'} \subseteq Seq(1..line_count) /\ lines' \in Seq(1..line_count)
    BY <1>12 DEF T
  <2>2. words' \in Seq(1..Len(lexicon)) /\ stage' \in 0..Len(words') /\ query' \in Queries
    BY <1>1, <1>3
  <2>3. CachesKept
    BY <1>1, CachesStay
  <2> QED BY <1>1, <1>12, <2>1, <2>2, <2>3, ServingHolds
<1>14. LinesWith(StageWords)' = LinesWith(StageWords)
  <2>1. StageWords = {lexicon'[words'[i]] : i \in 1..stage'}
    BY <1>1 DEF StageWords
  <2> QED BY <1>1, <2>1, AnswerFrame
<1>15. MergeInv'
  <2>1. MergeInv
    BY DEF EngineInv
  <2>2. LastStage' = LastStage
    BY <1>1 DEF LastStage
  <2>3. /\ ~Has(query', {Quote, Star}) /\ CountWords(query') > 1
        /\ {lexicon'[w] : w \in ToSet(words')} = {LowerOf(WordAt(query', i)) : i \in WordStarts(query')}
        /\ ToSet(words') \subseteq DOMAIN cache'
        /\ stage' \in 2..Len(words')
    BY <1>1, <1>3, <2>1 DEF MergeInv
  <2>4. ToSet(Written') \cup (ToSet(left') \cap ToSet(right')) = LinesWith(StageWords)'
    BY <1>12, <1>14
  <2>5. Increasing(left)' /\ Increasing(right)' /\ Increasing(Written)'
    BY <1>12 DEF Increasing
  <2>6. IF LastStage' THEN lines' = <<>> /\ printed' = LineNos(Written') ELSE printed' = <<>>
    BY <1>12, <2>2
  <2> QED BY <1>12, <2>3, <2>4, <2>5, <2>6 DEF MergeInv
<1>16. PatternInv' /\ AnswersAreRight'
  BY <1>1 DEF PatternInv, AnswersAreRight
<1> QED BY <1>13, <1>15, <1>16 DEF EngineInv

LEMMA NextStageHolds ==
  ASSUME EngineInv, NextStage
  PROVE  EngineInv'
<1>1. /\ pc = "merge" /\ StreamsEnded /\ ~LastStage
      /\ stage' = stage + 1 /\ left' = lines
      /\ right' = WordSource(cache[words[stage + 1]]) /\ lines' = <<>>
      /\ pc' = "merge" /\ UNCHANGED index /\ cache' = cache /\ query' = query /\ words' = words
      /\ printed' = printed
      /\ text' = text /\ lexicon' = lexicon /\ line_count' = line_count
  BY DEF NextStage, index
<1>2. MergeFacts
  BY <1>1, MergeFactsHold
<1>3. /\ left \in Seq(1..line_count) /\ right \in Seq(1..line_count) /\ lines \in Seq(1..line_count)
      /\ query \in Queries /\ words \in Seq(1..Len(lexicon)) /\ Len(words) \in Nat /\ DOMAIN words = 1..Len(words)
      /\ stage \in 2..Len(words) /\ printed = <<>> /\ Written = lines /\ Increasing(lines)
      /\ ToSet(lines) \cup (ToSet(left) \cap ToSet(right)) = LinesWith(StageWords)
      /\ ToSet(words) \subseteq DOMAIN cache /\ DOMAIN cache \subseteq DOMAIN lexicon
  <2>1. Written = lines
    BY <1>1 DEF Written
  <2> QED BY <1>1, <1>2, <2>1 DEF MergeFacts
<1> DEFINE w == words[stage + 1]
<1>4. stage + 1 \in 1..Len(words) /\ stage + 1 \in 2..Len(words) /\ stage \in Nat
  <2>1. stage # Len(words)
    BY <1>1 DEF LastStage
  <2> DEFINE L == Len(words)
  <2>2. L \in Nat /\ stage \in 2..L /\ stage # L
    BY <1>3, <2>1
  <2> HIDE DEF L
  <2>3. stage \in Nat /\ stage + 1 \in 1..L /\ stage + 1 \in 2..L
    BY <2>2
  <2> QED BY <2>3 DEF L
<1>5. w \in DOMAIN cache /\ w \in DOMAIN lexicon
  BY <1>3, <1>4 DEF ToSet
<1> HIDE DEF w
<1>6. right' = WordSource(Postings(w))
  <2>1. cache[w] = Postings(w)
    BY <1>5 DEF EngineInv, CacheInv
  <2> QED BY <1>1, <2>1 DEF w
<1>7. right' \in Seq(1..line_count) /\ Increasing(right') /\ ToSet(right') = LinesWith({lexicon[w]})
  BY <1>1, <1>5, <1>6, WordLines
<1>8. ToSet(lines) = LinesWith(StageWords)
  <2>1. ToSet(left) = {} \/ ToSet(right) = {}
    BY <1>1 DEF StreamsEnded, ToSet
  <2> QED BY <1>3, <2>1
<1>9. LinesWith(StageWords)' = ToSet(left') \cap ToSet(right')
  <2>1. {lexicon'[words'[i]] : i \in 1..stage'} = StageWords \cup {lexicon[w]}
    <3>1. 1..stage + 1 = (1..stage) \cup {stage + 1}
      BY <1>4
    <3>2. {lexicon'[words'[i]] : i \in 1..stage'} = {lexicon[words[i]] : i \in (1..stage) \cup {stage + 1}}
      BY <1>1, <3>1
    <3> QED BY <3>2 DEF StageWords, w
  <2>2. LinesWith(StageWords)' = LinesWith(StageWords \cup {lexicon[w]})
    BY <1>1, <2>1, AnswerFrame
  <2> QED BY <1>1, <1>7, <1>8, <2>2, LinesWithBoth
<1>10. TypeOK' /\ OffsetsInv' /\ LexiconInv' /\ OccInv' /\ CacheInv' /\ PhaseInv'
  <2>1. {left', right'} \subseteq Seq(1..line_count) /\ lines' \in Seq(1..line_count)
    BY <1>1, <1>3, <1>7
  <2>2. words' \in Seq(1..Len(lexicon)) /\ stage' \in 0..Len(words') /\ query' \in Queries
    BY <1>1, <1>3, <1>4
  <2>3. printed' \in Seq(Seq(Nat))
    BY <1>1, <1>3
  <2>4. CachesKept
    BY <1>1, CachesStay
  <2> QED BY <1>1, <2>1, <2>2, <2>3, <2>4, ServingHolds
<1>11. MergeInv'
  <2>1. MergeInv
    BY DEF EngineInv
  <2>2. /\ ~Has(query', {Quote, Star}) /\ CountWords(query') > 1
        /\ {lexicon'[v] : v \in ToSet(words')} = {LowerOf(WordAt(query', i)) : i \in WordStarts(query')}
        /\ ToSet(words') \subseteq DOMAIN cache'
    BY <1>1, <2>1 DEF MergeInv
  <2>3. stage' \in 2..Len(words')
    BY <1>1, <1>4
  <2>4. Written' = <<>>
    BY <1>1, <1>3 DEF Written
  <2>5. ToSet(Written') = {} /\ Increasing(Written)'
    BY <2>4 DEF ToSet, Increasing
  <2>6. Increasing(left)' /\ Increasing(right)'
    BY <1>1, <1>3, <1>7 DEF Increasing
  <2>7. lines' = <<>> /\ printed' = <<>> /\ LineNos(<<>>) = <<>>
    BY <1>1, <1>3 DEF LineNos
  <2> QED BY <1>9, <2>2, <2>3, <2>4, <2>5, <2>6, <2>7 DEF MergeInv
<1>12. PatternInv' /\ AnswersAreRight'
  BY <1>1 DEF PatternInv, AnswersAreRight
<1> QED BY <1>10, <1>11, <1>12 DEF EngineInv

(***************************************************************************)
(* The answer is complete after the last stage, and when nothing is left   *)
(* to intersect.                                                           *)
(***************************************************************************)
LEMMA FinishMergeHolds ==
  ASSUME EngineInv, FinishMerge
  PROVE  EngineInv'
<1>1. /\ pc = "merge" /\ StreamsEnded /\ (LastStage \/ lines = <<>>) /\ Reply(printed)
      /\ UNCHANGED index /\ cache' = cache /\ query' = query
  BY DEF FinishMerge
<1>2. MergeFacts
  BY <1>1, MergeFactsHold
<1>3. /\ query \in Queries /\ printed \in Seq(Seq(Nat)) /\ stage \in 2..Len(words)
      /\ Written \in Seq(1..line_count) /\ Increasing(Written) /\ 1..line_count \subseteq Nat
      /\ ToSet(Written) \cup (ToSet(left) \cap ToSet(right)) = LinesWith(StageWords)
      /\ Len(words) \in Nat /\ DOMAIN words = 1..Len(words)
      /\ {lexicon[w] : w \in ToSet(words)} = LowerWords(query)
      /\ IF LastStage THEN lines = <<>> /\ printed = LineNos(Written) ELSE printed = <<>>
      /\ ~Has(query, {Quote, Star}) /\ CountWords(query) > 1
  BY <1>2 DEF MergeFacts
<1>4. ToSet(Written) = LinesWith(StageWords)
  <2>1. ToSet(left) = {} \/ ToSet(right) = {}
    BY <1>1 DEF StreamsEnded, ToSet
  <2> QED BY <1>3, <2>1
<1>5. RightAnswer(query) = {LineNo(n) : n \in LinesWith(LowerWords(query))}
  <2>1. ~Has(query, {Quote}) /\ ~Has(query, {Star})
    BY <1>3 DEF Has
  <2>2. WordsAnswer(query) = {LineNo(n) : n \in LinesWith(QueryWords(query))}
    BY <1>3, WordsAnswerIs
  <2> QED BY <1>3, <2>1, <2>2, LinesInAnyCase DEF RightAnswer
<1>6. Lists(printed, RightAnswer(query))
  <2>1. CASE LastStage
    <3>1. StageWords = LowerWords(query)
      BY <1>3, <2>1 DEF StageWords, LastStage, ToSet
    <3>2. Written \in Seq(Nat)
      BY <1>3, SeqMonotonic
    <3>3. Lists(LineNos(Written), {LineNo(n) : n \in ToSet(Written)})
      BY <1>3, <3>2, LineNosList
    <3> QED BY <1>3, <1>4, <1>5, <2>1, <3>1, <3>3
  <2>2. CASE ~LastStage
    <3>1. LinesWith(StageWords) = {}
      <4>1. Written = <<>>
        BY <1>1, <2>2 DEF Written
      <4> QED BY <1>4, <4>1 DEF ToSet
    <3>2. StageWords \subseteq LowerWords(query)
      BY <1>3 DEF StageWords, ToSet
    <3>3. LinesWith(LowerWords(query)) = {}
      <4>1. LowerWords(query) = StageWords \cup LowerWords(query)
        BY <3>2
      <4> QED BY <3>1, <4>1, LinesWithBoth
    <3>4. Lists(<<>>, {})
      BY DEF Lists, ToSet
    <3> QED BY <1>3, <1>5, <2>2, <3>3, <3>4
  <2> QED BY <2>1, <2>2
<1>7. CachesKept
  BY <1>1, CachesStay
<1> QED BY <1>1, <1>3, <1>6, <1>7, ReplyHolds

LEMMA MergesHold ==
  ASSUME EngineInv
  PROVE  MergeLosesNothing
<1> SUFFICES ASSUME pc = "merge"
             PROVE  /\ ToSet(Written) \cup (ToSet(left) \cap ToSet(right)) = LinesWith(StageWords)
                    /\ \A i, j \in DOMAIN Written : i < j => Written[i] < Written[j]
                    /\ ~StreamsEnded => \A i \in DOMAIN Written :
                         Written[i] < Head(left) /\ Written[i] < Head(right)
  BY DEF MergeLosesNothing, StageWords
<1>1. MergeFacts
  BY MergeFactsHold
<1>2. ASSUME ~StreamsEnded
      PROVE  Head(left) \in ToSet(left) /\ Head(right) \in ToSet(right)
  <2>1. left # <<>> /\ right # <<>>
    BY <1>2 DEF StreamsEnded
  <2> DEFINE T == 1..line_count
  <2>2. /\ T \subseteq Nat
        /\ left \in Seq(T) /\ right \in Seq(T)
        /\ Increasing(left) /\ Increasing(right)
    BY <1>1 DEF MergeFacts
  <2> HIDE DEF T
  <2>3. Head(left) \in ToSet(left)
    BY <2>1, <2>2, HeadAndTail
  <2>4. Head(right) \in ToSet(right)
    BY <2>1, <2>2, HeadAndTail
  <2> QED BY <2>3, <2>4
<1>3. \A i \in DOMAIN Written : Written[i] \in ToSet(Written)
  BY DEF ToSet
<1> QED BY <1>1, <1>2, <1>3 DEF MergeFacts, Increasing

-----------------------------------------------------------------------------
(* Patterns.                                                               *)

LEMMA PatternWordsAre ==
  ASSUME NEW q \in Queries, IsPattern(q), Has(q, {Star})
  PROVE  GoodWord(LeftWord(q)) /\ GoodWord(RightWord(q))
<1> DEFINE n == Len(q)
           stars == {i \in DOMAIN q : q[i] = Star}
           at == StarAt(q)
<1>1. /\ q \in Seq(Chars) /\ n \in Nat /\ DOMAIN q = 1..n
      /\ \A i \in 1..n : q[i] \in Chars /\ q[i] # Newline
  BY QueryIs
<1>2. at \in 1..n
  <2>1. stars \in SUBSET Nat
    BY <1>1
  <2>2. stars # {}
    BY DEF Has
  <2>3. at = Min(stars)
    <3>1. at = IF \E i \in 1..n : q[i] = Star THEN Min(stars) ELSE 0
      BY <1>1 DEF StarAt, SelectInSeq
    <3>2. \E i \in 1..n : q[i] = Star
      BY <1>1, <2>2
    <3> QED BY <3>1, <3>2
  <2>4. Min(stars) \in stars
    BY <2>1, <2>2, MinIs
  <2> QED BY <1>1, <2>3, <2>4
<1>3. /\ LeftWord(q) = SubSeq(q, 1, at - 1) /\ RightWord(q) = SubSeq(q, at + 1, n)
      /\ LeftWord(q) # <<>> /\ RightWord(q) # <<>> /\ ~Has(q, Separators)
  BY DEF LeftWord, RightWord, IsPattern
<1>4. \A i \in 1..n : q[i] \notin Breaks
  BY <1>1, <1>3 DEF Has, Breaks
<1> HIDE DEF at, n
<1>5. ASSUME NEW a \in 1..n + 1, NEW z \in 0..n
      PROVE  SubSeq(q, a, z) \in Seq(Chars) /\ ~Has(SubSeq(q, a, z), Breaks)
  <2> DEFINE s == SubSeq(q, a, z)
  <2>1. a \in Int /\ z \in Int /\ \A k \in a..z : k \in 1..n
    BY <1>1
  <2>2. \A k \in a..z : q[k] \in Chars
    BY <1>1, <2>1
  <2>3. /\ s \in Seq(Chars) /\ Len(s) = IF a <= z THEN z - a + 1 ELSE 0
        /\ \A k \in 1..z - a + 1 : s[k] = q[a + k - 1]
    BY <2>1, <2>2, SubSeqProperties
  <2> HIDE DEF s
  <2>4. \A k \in 1..Len(s) : k \in 1..z - a + 1 /\ a + k - 1 \in 1..n
    BY <1>1, <2>1, <2>3
  <2>5. DOMAIN s = 1..Len(s)
    BY <2>3
  <2>6. \A k \in DOMAIN s : s[k] \notin Breaks
    BY <1>4, <2>3, <2>4, <2>5
  <2> QED BY <2>3, <2>6 DEF Has, s
<1>6. 1 \in 1..n + 1 /\ at - 1 \in 0..n /\ at + 1 \in 1..n + 1 /\ n \in 0..n
  BY <1>1, <1>2
<1> QED BY <1>3, <1>5, <1>6 DEF GoodWord

(***************************************************************************)
(* A reader's group: what is left after it, and its last record.           *)
(***************************************************************************)
Grouped(s, t, z) ==
  /\ Head(s) \in ToSet(s) /\ Head(s) \in Records
  /\ \A r \in ToSet(s) : r.line >= Head(s).line
  /\ \A r \in ToSet(s) : r.line = Head(s).line => r.start >= Head(s).start
  /\ t \in Seq(Records) /\ Sorted(t) /\ ToSet(t) = {r \in ToSet(s) : r.line > Head(s).line}
  /\ z \in ToSet(s) /\ z.line = Head(s).line
  /\ \A r \in ToSet(s) : r.line = Head(s).line => r.start <= z.start

LEMMA MaxIs ==
  ASSUME NEW n \in Nat, NEW S, S \subseteq 1..n, S # {}
  PROVE  Max(S) \in S /\ \A y \in S : y <= Max(S)
<1> DEFINE D == {n - y : y \in S}
<1>1. D \in SUBSET Nat /\ D # {}
  <2>1. \A y \in S : n - y \in Nat
    <3>1. \A y \in 1..n : n - y \in Nat
      OBVIOUS
    <3> QED BY <3>1
  <2>2. PICK y \in S : TRUE
    OBVIOUS
  <2>3. n - y \in D
    OBVIOUS
  <2> QED BY <2>1, <2>3
<1>2. PICK d \in D : \A e \in D : d <= e
  BY <1>1, LeastExists
<1>3. PICK x \in S : d = n - x
  BY <1>2
<1>4. \A y \in S : y <= x
  <2> SUFFICES ASSUME NEW y \in S PROVE y <= x
    OBVIOUS
  <2>1. n - x <= n - y
    BY <1>2, <1>3
  <2> QED BY <2>1
<1> QED BY <1>3, <1>4 DEF Max

LEMMA GroupIs ==
  ASSUME TypeOK, NEW s \in Seq(Records), Sorted(s), s # <<>>
  PROVE  Grouped(s, SkipGroup(s), LastOfGroup(s))
<1> DEFINE n == Len(s)
           h == Head(s)
           off == {i \in 1..n : s[i].line # h.line}
           on == {i \in 1..n : s[i].line = h.line}
           t == SkipGroup(s)
           z == LastOfGroup(s)
<1>1. n \in Nat /\ n # 0 /\ DOMAIN s = 1..n /\ \A i \in 1..n : s[i] \in Records
  <2> HIDE DEF Records
  <2> QED BY EmptySeq, ElementOfSeq
<1>2. h = s[1] /\ 1 \in 1..n
  <2> HIDE DEF Records
  <2> QED BY <1>1, HeadTailProperties
<1>3. \A i \in 1..n : s[i].line \in Nat /\ s[i].start \in Nat
  <2>1. line_count \in Nat /\ Len(text) \in Nat
    BY TextIs
  <2>2. \A i \in 1..n : s[i].line \in 1..line_count /\ s[i].start \in 0..Len(text) - 1
    BY <1>1, RecordIs DEF Records
  <2> HIDE DEF n
  <2>3. \A x \in 1..line_count : x \in Nat
    BY <2>1
  <2>4. \A x \in 0..Len(text) - 1 : x \in Nat
    BY <2>1
  <2> QED BY <2>2, <2>3, <2>4
<1>4. \A i, j \in 1..n : i < j => Before(s[i], s[j])
  BY <1>1 DEF Sorted
<1>5. t = IF off # {} THEN SubSeq(s, Min(off), n) ELSE <<>>
  <2> DEFINE next == IF off # {} THEN Min(off) ELSE 0
  <2>1. t = IF next = 0 THEN <<>> ELSE SubSeq(s, next, n)
    BY <1>1 DEF SkipGroup, SelectInSeq
  <2>2. off # {} => Min(off) # 0
    <3>1. off \in SUBSET Nat /\ 0 \notin off
      OBVIOUS
    <3> HIDE DEF off
    <3> QED BY <3>1, MinIs
  <2> HIDE DEF off
  <2> QED BY <2>1, <2>2
<1>6. z = s[Max(on)]
  <2>1. on # {}
    BY <1>2
  <2> QED BY <1>1, <1>2, <2>1 DEF LastOfGroup, SelectLastInSeq
<1> HIDE DEF h, n, t, z, Records
<1>7. \A i \in 1..n : s[i].line >= h.line /\ (s[i].line = h.line => s[i].start >= h.start)
  <2> SUFFICES ASSUME NEW i \in 1..n
               PROVE  s[i].line >= h.line /\ (s[i].line = h.line => s[i].start >= h.start)
    OBVIOUS
  <2>1. i = 1 \/ 1 < i
    BY <1>1
  <2>2. CASE i = 1
    BY <1>2, <1>3, <2>2
  <2>3. CASE 1 < i
    BY <1>2, <1>3, <1>4, <2>3 DEF Before
  <2> QED BY <2>1, <2>2, <2>3
<1>8. ToSet(s) = {s[i] : i \in 1..n}
  BY <1>1 DEF ToSet
<1>9. z \in ToSet(s) /\ z.line = h.line /\ \A i \in 1..n : s[i].line = h.line => s[i].start <= z.start
  <2>1. on \subseteq 1..n /\ on # {}
    BY <1>2
  <2> DEFINE m == Max(on)
  <2>2. m \in on /\ \A y \in on : y <= m
    <3> HIDE DEF on
    <3> QED BY <1>1, <2>1, MaxIs
  <2>3. m \in 1..n /\ z = s[m] /\ s[m].line = h.line
    BY <1>6, <2>2
  <2> HIDE DEF m
  <2>4. ASSUME NEW i \in 1..n, s[i].line = h.line
        PROVE  s[i].start <= z.start
    <3>1. i <= m
      BY <2>2, <2>4
    <3>2. i = m \/ i < m
      BY <2>3, <3>1
    <3>3. CASE i = m
      BY <1>3, <2>3, <3>3
    <3>4. CASE i < m
      BY <1>3, <1>4, <2>3, <2>4, <3>4 DEF Before
    <3> QED BY <3>2, <3>3, <3>4
  <2> QED BY <1>8, <2>3, <2>4
<1>10. t \in Seq(Records) /\ Sorted(t) /\ ToSet(t) = {r \in ToSet(s) : r.line > h.line}
  <2>1. CASE off = {}
    <3>1. t = <<>> /\ \A i \in 1..n : s[i].line = h.line
      BY <1>5, <2>1
    <3>2. \A i \in 1..n : ~(s[i].line > h.line)
      BY <1>2, <1>3, <3>1
    <3>3. ToSet(t) = {} /\ Sorted(t) /\ t \in Seq(Records)
      BY <3>1 DEF ToSet, Sorted
    <3> QED BY <1>8, <3>2, <3>3
  <2>2. CASE off # {}
    <3> DEFINE a == Min(off)
    <3>1. a \in off /\ \A y \in off : a <= y
      <4>1. off \in SUBSET Nat
        BY <1>1
      <4> HIDE DEF off
      <4> QED BY <2>2, <4>1, MinIs
    <3>2. a \in 1..n /\ s[a].line # h.line /\ t = SubSeq(s, a, n)
      BY <1>5, <2>2, <3>1
    <3>3. \A y \in 1..n : s[y].line # h.line => a <= y
      BY <3>1
    <3> HIDE DEF a, off
    <3>4. /\ t \in Seq(Records) /\ Len(t) = n - a + 1 /\ \A k \in 1..n - a + 1 : t[k] = s[a + k - 1]
      <4>1. \A k \in a..n : s[k] \in Records
        BY <1>1, <3>2
      <4> QED BY <1>1, <3>2, <4>1, SubSeqProperties
    <3> DEFINE m == n - a + 1
    <3>5. m \in Nat /\ DOMAIN t = 1..m /\ \A k \in 1..m : t[k] = s[a + k - 1] /\ a + k - 1 \in a..n
      <4>1. m \in Nat /\ \A k \in 1..m : a + k - 1 \in a..n
        BY <1>1, <3>2
      <4> QED BY <3>4, <4>1
    <3>6. \A i \in a..n : i - a + 1 \in 1..m /\ a + (i - a + 1) - 1 = i
      BY <1>1, <3>2
    <3>7. \A i, j \in 1..m : i < j => a + i - 1 < a + j - 1
      BY <1>1, <3>2
    <3> HIDE DEF m
    <3>8. Sorted(t)
      <4>1. ASSUME NEW i \in 1..m, NEW j \in 1..m, i < j
            PROVE  Before(t[i], t[j])
        <5>1. a + i - 1 \in 1..n /\ a + j - 1 \in 1..n /\ a + i - 1 < a + j - 1
          <6>1. \A k \in a..n : k \in 1..n
            BY <1>1, <3>2
          <6> QED BY <3>5, <3>7, <4>1, <6>1
        <5> QED BY <1>4, <3>5, <5>1
      <4> QED BY <3>5, <4>1 DEF Sorted
    <3>9. ASSUME NEW i \in 1..n
          PROVE  s[i].line > h.line <=> i \in a..n
      <4>1. CASE i \in a..n
        <5>1. s[a].line > h.line
          BY <1>2, <1>3, <1>7, <3>2
        <5>2. i = a \/ a < i
          BY <1>1, <3>2, <4>1
        <5>3. CASE i = a
          BY <4>1, <5>1, <5>3
        <5>4. CASE a < i
          <6>1. s[a].line <= s[i].line
            BY <1>3, <1>4, <3>2, <5>4 DEF Before
          <6>2. s[a].line \in Nat /\ s[i].line \in Nat /\ h.line \in Nat
            BY <1>2, <1>3, <3>2
          <6> QED BY <4>1, <5>1, <6>1, <6>2
        <5> QED BY <5>2, <5>3, <5>4
      <4>2. CASE i \notin a..n
        <5>1. ~(a <= i)
          BY <1>1, <3>2, <4>2
        <5>2. s[i].line = h.line
          BY <3>3, <5>1
        <5> QED BY <1>3, <4>2, <5>2
      <4> QED BY <4>1, <4>2
    <3>10. ToSet(t) = {s[i] : i \in a..n}
      <4>1. \A k \in 1..m : t[k] \in {s[i] : i \in a..n}
        BY <3>5
      <4>2. \A i \in a..n : s[i] \in ToSet(t)
        <5> SUFFICES ASSUME NEW i \in a..n PROVE s[i] \in ToSet(t)
          OBVIOUS
        <5> DEFINE k == i - a + 1
        <5>1. k \in 1..m /\ a + k - 1 = i
          BY <3>6
        <5> HIDE DEF k
        <5>2. t[k] = s[i]
          BY <3>5, <5>1
        <5> QED BY <3>5, <5>1, <5>2 DEF ToSet
      <4>3. ToSet(t) = {t[k] : k \in 1..m}
        BY <3>5 DEF ToSet
      <4> QED BY <4>1, <4>2, <4>3
    <3>11. ToSet(t) = {r \in ToSet(s) : r.line > h.line}
      <4>1. \A i \in a..n : i \in 1..n
        BY <1>1, <3>2
      <4> QED BY <1>8, <3>9, <3>10, <4>1
    <3> QED BY <3>4, <3>8, <3>11
  <2> QED BY <2>1, <2>2
<1>11. h \in ToSet(s) /\ h \in Records
  BY <1>1, <1>2, <1>8
<1>12. /\ \A r \in ToSet(s) : r.line >= h.line
       /\ \A r \in ToSet(s) : r.line = h.line => r.start >= h.start
       /\ \A r \in ToSet(s) : r.line = h.line => r.start <= z.start
  BY <1>7, <1>8, <1>9
<1> QED BY <1>9, <1>10, <1>11, <1>12 DEF Grouped, h, t, z

LEMMA PatternAnswerIs ==
  ASSUME EngineInv, pc # "index", NEW q \in Queries, IsPattern(q), Has(q, {Star}), ~Has(q, {Quote})
  PROVE  /\ GoodWord(LeftWord(q)) /\ GoodWord(RightWord(q))
         /\ (FindExisting(LeftWord(q)) = {} \/ FindExisting(RightWord(q)) = {}) => RightAnswer(q) = {}
         /\ \A l \in FindExisting(LeftWord(q)), r \in FindExisting(RightWord(q)) :
              RightAnswer(q) = {LineNo(x.line) : x \in {y \in RecordsOf(l) :
                                 \E z \in RecordsOf(r) : z.line = y.line /\ z.start > y.start}}
<1>1. GoodWord(LeftWord(q)) /\ GoodWord(RightWord(q))
  BY PatternWordsAre
<1>2. RightAnswer(q) = {LineNo(x[1]) : x \in {y \in Places(LeftWord(q)) :
                               \E z \in Places(RightWord(q)) : Follows(z, y)}}
  BY DEF RightAnswer, PatternAnswer
<1>3. ASSUME FindExisting(LeftWord(q)) = {} \/ FindExisting(RightWord(q)) = {}
      PROVE  RightAnswer(q) = {}
  <2>1. Places(LeftWord(q)) = {} \/ Places(RightWord(q)) = {}
    BY <1>1, <1>3, WordNotFound
  <2> QED BY <1>2, <2>1
<1>4. ASSUME NEW l \in FindExisting(LeftWord(q)), NEW r \in FindExisting(RightWord(q))
      PROVE  RightAnswer(q) = {LineNo(x.line) : x \in {y \in RecordsOf(l) :
                                 \E z \in RecordsOf(r) : z.line = y.line /\ z.start > y.start}}
  <2> DEFINE A == RecordsOf(l)
             B == RecordsOf(r)
  <2>1. Places(LeftWord(q)) = Refs(A) /\ Places(RightWord(q)) = Refs(B)
    BY <1>1, WordFound
  <2> HIDE DEF A, B
  <2>2. \A x : LineRef(x)[1] = x.line /\ LineRef(x)[2] = x.start
    BY DEF LineRef
  <2>3. \A y, z : Follows(LineRef(z), LineRef(y)) <=> (z.line = y.line /\ z.start > y.start)
    BY <2>2 DEF Follows
  <2>4. ASSUME NEW x \in RightAnswer(q)
        PROVE  \E y \in A : x = LineNo(y.line) /\ \E z \in B : z.line = y.line /\ z.start > y.start
    <3>1. PICK u \in Refs(A) : x = LineNo(u[1]) /\ \E v \in Refs(B) : Follows(v, u)
      BY <1>2, <2>1
    <3>2. PICK v \in Refs(B) : Follows(v, u)
      BY <3>1
    <3>3. PICK y \in A : u = LineRef(y)
      BY DEF Refs
    <3>4. PICK z \in B : v = LineRef(z)
      BY DEF Refs
    <3> QED BY <2>2, <2>3, <3>1, <3>2, <3>3, <3>4
  <2>5. ASSUME NEW y \in A, NEW z \in B, z.line = y.line, z.start > y.start
        PROVE  LineNo(y.line) \in RightAnswer(q)
    <3>1. LineRef(y) \in Refs(A) /\ LineRef(z) \in Refs(B) /\ Follows(LineRef(z), LineRef(y))
      BY <2>3, <2>5 DEF Refs
    <3>2. LineNo(LineRef(y)[1]) \in RightAnswer(q)
      BY <1>2, <2>1, <3>1
    <3> QED BY <2>2, <3>2
  <2>6. RightAnswer(q) = {LineNo(x.line) : x \in {y \in A : \E z \in B : z.line = y.line /\ z.start > y.start}}
    BY <2>4, <2>5
  <2> QED BY <2>6 DEF A, B
<1> QED BY <1>1, <1>3, <1>4

(***************************************************************************)
(* The two readers of a pattern, and the lines that have been printed.     *)
(***************************************************************************)
Wanted(l, r, nl, nr) == {m \in PatternLines(l, r) : m <= nl \/ m <= nr}
Halfway(l, r, nl, nr, lf, rt, pr) ==
  /\ l \in DOMAIN cache /\ r \in DOMAIN cache /\ nl \in 0..line_count /\ nr \in 0..line_count
  /\ lexicon[l] = LowerOf(LeftWord(query)) /\ lexicon[r] = LowerOf(RightWord(query))
  /\ lf \in Seq(Records) /\ rt \in Seq(Records) /\ Sorted(lf) /\ Sorted(rt)
  /\ pr \in Seq(Seq(Nat)) /\ \A i, j \in DOMAIN pr : i < j => Earlier(pr[i], pr[j])
  /\ ToSet(lf) = Remaining(cache[l], nl)
  /\ ToSet(rt) = Remaining(cache[r], nr)
  /\ ToSet(pr) = {LineNo(n) : n \in Wanted(l, r, nl, nr)}

LEMMA HalfwayIs ==
  ASSUME EngineInv, pc = "pattern"
  PROVE  /\ \E l, r, nl, nr : Halfway(l, r, nl, nr, left, right, printed)
         /\ query \in Queries /\ IsPattern(query) /\ Has(query, {Star}) /\ ~Has(query, {Quote})
<1>1. left \in Seq(Records) /\ right \in Seq(Records) /\ printed \in Seq(Seq(Nat))
  BY DEF EngineInv, TypeOK
<1>2. query \in Queries /\ PatternInv
  BY DEF EngineInv, PhaseInv
<1> HIDE DEF Records
<1>3. /\ ~Has(query, {Quote}) /\ Has(query, {Star}) /\ IsPattern(query)
      /\ Sorted(left) /\ Sorted(right)
      /\ \A i, j \in DOMAIN printed : i < j => Earlier(printed[i], printed[j])
      /\ \E l, r \in DOMAIN cache, nl, nr \in 0..line_count :
           /\ lexicon[l] = LowerOf(LeftWord(query)) /\ lexicon[r] = LowerOf(RightWord(query))
           /\ ToSet(left) = Remaining(cache[l], nl)
           /\ ToSet(right) = Remaining(cache[r], nr)
           /\ ToSet(printed) = {LineNo(n) : n \in Wanted(l, r, nl, nr)}
  BY <1>2 DEF PatternInv, Wanted
<1>4. PICK l \in DOMAIN cache, r \in DOMAIN cache, nl \in 0..line_count, nr \in 0..line_count :
           /\ lexicon[l] = LowerOf(LeftWord(query)) /\ lexicon[r] = LowerOf(RightWord(query))
           /\ ToSet(left) = Remaining(cache[l], nl)
           /\ ToSet(right) = Remaining(cache[r], nr)
           /\ ToSet(printed) = {LineNo(n) : n \in Wanted(l, r, nl, nr)}
  BY <1>3
<1>5. Halfway(l, r, nl, nr, left, right, printed)
  BY <1>1, <1>3, <1>4 DEF Halfway
<1> QED BY <1>2, <1>3, <1>5

(***************************************************************************)
(* A line before both readers' groups is decided, whichever moves on.      *)
(***************************************************************************)
LEMMA HalfwayFacts ==
  ASSUME EngineInv, NEW l, NEW r, NEW nl, NEW nr, NEW lf, NEW rt, NEW pr,
         Halfway(l, r, nl, nr, lf, rt, pr)
  PROVE  /\ nl \in Nat /\ nr \in Nat /\ line_count \in Nat
         /\ \A x \in ToSet(cache[l]) \cup ToSet(cache[r]) :
              x \in Records /\ x.line \in 1..line_count /\ x.line \in Nat /\ x.start \in Nat
         /\ \A x : x \in ToSet(lf) <=> x \in ToSet(cache[l]) /\ x.line > nl
         /\ \A x : x \in ToSet(rt) <=> x \in ToSet(cache[r]) /\ x.line > nr
         /\ \A m : m \in PatternLines(l, r) <=>
              \E x \in ToSet(cache[l]), y \in ToSet(cache[r]) : x.line = m /\ y.line = m /\ x.start < y.start
<1>1. line_count \in Nat /\ Len(text) \in Nat
  BY TextIs DEF EngineInv
<1>2. nl \in Nat /\ nr \in Nat
  BY <1>1 DEF Halfway
<1>3. cache[l] \in Seq(Records) /\ cache[r] \in Seq(Records)
  BY DEF Halfway, EngineInv, TypeOK
<1>4. ASSUME NEW x \in Records
      PROVE  x.line \in 1..line_count /\ x.line \in Nat /\ x.start \in Nat
  <2>1. x.line \in 1..line_count /\ x.start \in 0..Len(text) - 1
    BY RecordIs DEF Records
  <2> QED BY <1>1, <2>1
<1>5. \A x \in ToSet(cache[l]) \cup ToSet(cache[r]) : x \in Records
  <2> HIDE DEF Records
  <2> QED BY <1>3 DEF ToSet
<1>6. /\ \A x : x \in ToSet(lf) <=> x \in ToSet(cache[l]) /\ x.line > nl
      /\ \A x : x \in ToSet(rt) <=> x \in ToSet(cache[r]) /\ x.line > nr
  BY DEF Halfway, Remaining
<1>7. \A m : m \in PatternLines(l, r) <=>
        \E x \in ToSet(cache[l]), y \in ToSet(cache[r]) : x.line = m /\ y.line = m /\ x.start < y.start
  BY <1>4, <1>5 DEF PatternLines
<1> QED BY <1>1, <1>2, <1>4, <1>5, <1>6, <1>7

LEMMA LeftGroupIsPassed ==
  ASSUME EngineInv, NEW l, NEW r, NEW nl, NEW nr, NEW lf, NEW rt, NEW pr,
         Halfway(l, r, nl, nr, lf, rt, pr), lf # <<>>, rt # <<>>, Head(lf).line < Head(rt).line
  PROVE  Halfway(l, r, Head(lf).line, nr, SkipGroup(lf), rt, pr)
<1> DEFINE a == Head(lf)
           b == Head(rt)
           L == ToSet(cache[l])
           R == ToSet(cache[r])
           P == PatternLines(l, r)
           t == SkipGroup(lf)
<1>1. Grouped(lf, t, LastOfGroup(lf)) /\ Grouped(rt, SkipGroup(rt), LastOfGroup(rt))
  BY GroupIs DEF Halfway, EngineInv
<1>2. /\ a \in ToSet(lf) /\ b \in ToSet(rt)
      /\ \A x \in ToSet(rt) : x.line >= b.line
      /\ t \in Seq(Records) /\ Sorted(t) /\ ToSet(t) = {x \in ToSet(lf) : x.line > a.line}
  BY <1>1 DEF Grouped
<1>3. /\ nl \in Nat /\ nr \in Nat /\ line_count \in Nat
      /\ \A x \in L \cup R : x \in Records /\ x.line \in 1..line_count /\ x.line \in Nat /\ x.start \in Nat
      /\ \A x : x \in ToSet(lf) <=> x \in L /\ x.line > nl
      /\ \A x : x \in ToSet(rt) <=> x \in R /\ x.line > nr
      /\ \A m : m \in P <=> \E x \in L, y \in R : x.line = m /\ y.line = m /\ x.start < y.start
  BY HalfwayFacts
<1>4. a.line < b.line
  OBVIOUS
<1> HIDE DEF a, b, L, R, P, t
<1>5. a \in L /\ a.line > nl /\ a.line \in 1..line_count /\ a.line \in Nat /\ b \in R /\ b.line \in Nat
  BY <1>2, <1>3
<1>6. ToSet(t) = Remaining(cache[l], a.line)
  <2>1. ASSUME NEW x \in L, x.line > a.line
        PROVE  x.line > nl
    BY <1>3, <1>5, <2>1
  <2>2. \A x : x \in ToSet(t) <=> x \in L /\ x.line > a.line
    BY <1>2, <1>3, <2>1
  <2> QED BY <2>2 DEF Remaining, L
<1>7. Wanted(l, r, a.line, nr) = Wanted(l, r, nl, nr)
  <2>1. ASSUME NEW m \in P
        PROVE  (m <= a.line \/ m <= nr) <=> (m <= nl \/ m <= nr)
    <3>1. PICK x \in L, y \in R : x.line = m /\ y.line = m
      BY <1>3
    <3>2. m \in Nat
      BY <1>3, <3>1
    <3>3. m > nr => m >= b.line
      BY <1>2, <1>3, <3>1
    <3> QED BY <1>3, <1>4, <1>5, <3>2, <3>3
  <2> QED BY <2>1 DEF Wanted, P
<1>8. a.line \in 0..line_count
  BY <1>3, <1>5
<1>9. Halfway(l, r, a.line, nr, t, rt, pr)
  <2>1. ToSet(pr) = {LineNo(n) : n \in Wanted(l, r, a.line, nr)}
    BY <1>7 DEF Halfway
  <2> QED BY <1>2, <1>6, <1>8, <2>1 DEF Halfway
<1> QED BY <1>9 DEF a, t

LEMMA RightGroupIsPassed ==
  ASSUME EngineInv, NEW l, NEW r, NEW nl, NEW nr, NEW lf, NEW rt, NEW pr,
         Halfway(l, r, nl, nr, lf, rt, pr), lf # <<>>, rt # <<>>, Head(lf).line > Head(rt).line
  PROVE  Halfway(l, r, nl, Head(rt).line, lf, SkipGroup(rt), pr)
<1> DEFINE a == Head(lf)
           b == Head(rt)
           L == ToSet(cache[l])
           R == ToSet(cache[r])
           P == PatternLines(l, r)
           t == SkipGroup(rt)
<1>1. Grouped(lf, SkipGroup(lf), LastOfGroup(lf)) /\ Grouped(rt, t, LastOfGroup(rt))
  BY GroupIs DEF Halfway, EngineInv
<1>2. /\ a \in ToSet(lf) /\ b \in ToSet(rt)
      /\ \A x \in ToSet(lf) : x.line >= a.line
      /\ t \in Seq(Records) /\ Sorted(t) /\ ToSet(t) = {x \in ToSet(rt) : x.line > b.line}
  BY <1>1 DEF Grouped
<1>3. /\ nl \in Nat /\ nr \in Nat /\ line_count \in Nat
      /\ \A x \in L \cup R : x \in Records /\ x.line \in 1..line_count /\ x.line \in Nat /\ x.start \in Nat
      /\ \A x : x \in ToSet(lf) <=> x \in L /\ x.line > nl
      /\ \A x : x \in ToSet(rt) <=> x \in R /\ x.line > nr
      /\ \A m : m \in P <=> \E x \in L, y \in R : x.line = m /\ y.line = m /\ x.start < y.start
  BY HalfwayFacts
<1>4. a.line > b.line
  OBVIOUS
<1> HIDE DEF a, b, L, R, P, t
<1>5. b \in R /\ b.line > nr /\ b.line \in 1..line_count /\ b.line \in Nat /\ a \in L /\ a.line \in Nat
  BY <1>2, <1>3
<1>6. ToSet(t) = Remaining(cache[r], b.line)
  <2>1. ASSUME NEW x \in R, x.line > b.line
        PROVE  x.line > nr
    BY <1>3, <1>5, <2>1
  <2>2. \A x : x \in ToSet(t) <=> x \in R /\ x.line > b.line
    BY <1>2, <1>3, <2>1
  <2> QED BY <2>2 DEF Remaining, R
<1>7. Wanted(l, r, nl, b.line) = Wanted(l, r, nl, nr)
  <2>1. ASSUME NEW m \in P
        PROVE  (m <= nl \/ m <= b.line) <=> (m <= nl \/ m <= nr)
    <3>1. PICK x \in L, y \in R : x.line = m /\ y.line = m
      BY <1>3
    <3>2. m \in Nat
      BY <1>3, <3>1
    <3>3. m > nl => m >= a.line
      BY <1>2, <1>3, <3>1
    <3> QED BY <1>3, <1>4, <1>5, <3>2, <3>3
  <2> QED BY <2>1 DEF Wanted, P
<1>8. b.line \in 0..line_count
  BY <1>3, <1>5
<1>9. Halfway(l, r, nl, b.line, lf, t, pr)
  <2>1. ToSet(pr) = {LineNo(n) : n \in Wanted(l, r, nl, b.line)}
    BY <1>7 DEF Halfway
  <2> QED BY <1>2, <1>6, <1>8, <2>1 DEF Halfway
<1> QED BY <1>9 DEF b, t

(***************************************************************************)
(* On a common line the first record on the left and the last on the right *)
(* decide.                                                                 *)
(***************************************************************************)
LEMMA CommonLineIsDecided ==
  ASSUME EngineInv, NEW l, NEW r, NEW nl, NEW nr, NEW lf, NEW rt, NEW pr,
         Halfway(l, r, nl, nr, lf, rt, pr), lf # <<>>, rt # <<>>, Head(lf).line = Head(rt).line
  PROVE  Halfway(l, r, Head(lf).line, Head(lf).line, SkipGroup(lf), SkipGroup(rt),
                 IF InOrder(Head(lf), LastOfGroup(rt)) THEN Append(pr, LineNo(Head(lf).line)) ELSE pr)
<1> DEFINE a == Head(lf)
           b == Head(rt)
           z == LastOfGroup(rt)
           n == a.line
           L == ToSet(cache[l])
           R == ToSet(cache[r])
           P == PatternLines(l, r)
           t == SkipGroup(lf)
           u == SkipGroup(rt)
           new == IF InOrder(a, z) THEN Append(pr, LineNo(n)) ELSE pr
<1>1. Grouped(lf, t, LastOfGroup(lf)) /\ Grouped(rt, u, z)
  BY GroupIs DEF Halfway, EngineInv
<1>2. /\ a \in ToSet(lf) /\ b \in ToSet(rt) /\ z \in ToSet(rt) /\ b.line = n /\ z.line = n
      /\ \A x \in ToSet(lf) : x.line >= n
      /\ \A x \in ToSet(rt) : x.line >= n
      /\ \A x \in ToSet(lf) : x.line = n => x.start >= a.start
      /\ \A x \in ToSet(rt) : x.line = n => x.start <= z.start
      /\ t \in Seq(Records) /\ Sorted(t) /\ ToSet(t) = {x \in ToSet(lf) : x.line > n}
      /\ u \in Seq(Records) /\ Sorted(u) /\ ToSet(u) = {x \in ToSet(rt) : x.line > n}
  BY <1>1 DEF Grouped
<1>3. /\ nl \in Nat /\ nr \in Nat /\ line_count \in Nat
      /\ \A x \in L \cup R : x \in Records /\ x.line \in 1..line_count /\ x.line \in Nat /\ x.start \in Nat
      /\ \A x : x \in ToSet(lf) <=> x \in L /\ x.line > nl
      /\ \A x : x \in ToSet(rt) <=> x \in R /\ x.line > nr
      /\ \A m : m \in P <=> \E x \in L, y \in R : x.line = m /\ y.line = m /\ x.start < y.start
  BY HalfwayFacts
<1>4. InOrder(a, z) <=> a.start < z.start
  BY DEF InOrder
<1>5. /\ InOrder(a, z) => new = Append(pr, LineNo(n))
      /\ ~InOrder(a, z) => new = pr
  OBVIOUS
<1>6. a.line = n
  OBVIOUS
<1> HIDE DEF a, b, z, n, L, R, P, t, u, new
<1>7. a \in L /\ z \in R /\ n > nl /\ n > nr /\ n \in 1..line_count /\ n \in Nat
  BY <1>2, <1>3, <1>6
<1>8. ToSet(t) = Remaining(cache[l], n) /\ ToSet(u) = Remaining(cache[r], n)
  <2>1. ASSUME NEW x \in L \cup R, x.line > n
        PROVE  x.line > nl /\ x.line > nr
    BY <1>3, <1>7, <2>1
  <2>2. /\ \A x : x \in ToSet(t) <=> x \in L /\ x.line > n
        /\ \A x : x \in ToSet(u) <=> x \in R /\ x.line > n
    BY <1>2, <1>3, <2>1
  <2> QED BY <2>2 DEF Remaining, L, R
<1>9. n \in P <=> InOrder(a, z)
  <2>1. ASSUME n \in P
        PROVE  a.start < z.start
    <3>1. PICK x \in L, y \in R : x.line = n /\ y.line = n /\ x.start < y.start
      BY <1>3, <2>1
    <3>2. x \in ToSet(lf) /\ y \in ToSet(rt)
      BY <1>3, <1>7, <3>1
    <3>3. x.start >= a.start /\ y.start <= z.start
      BY <1>2, <3>1, <3>2
    <3>4. x.start \in Nat /\ y.start \in Nat /\ a.start \in Nat /\ z.start \in Nat
      BY <1>3, <1>7
    <3> QED BY <3>1, <3>3, <3>4
  <2>2. ASSUME a.start < z.start
        PROVE  n \in P
    BY <1>2, <1>3, <1>6, <1>7, <2>2
  <2> QED BY <1>4, <2>1, <2>2
<1>10. /\ \A m \in Wanted(l, r, nl, nr) : m \in Nat /\ m < n
       /\ \A m : m \in Wanted(l, r, n, n) <=> m \in Wanted(l, r, nl, nr) \/ (m = n /\ n \in P)
  <2>1. ASSUME NEW m \in P
        PROVE  /\ m \in Nat
               /\ (m <= nl \/ m <= nr) => m < n
               /\ m <= n => m = n \/ m <= nl \/ m <= nr
    <3>1. PICK x \in L, y \in R : x.line = m /\ y.line = m
      BY <1>3
    <3>2. m \in Nat
      BY <1>3, <3>1
    <3>3. m > nl => m >= n
      BY <1>2, <1>3, <3>1
    <3> QED BY <1>3, <1>7, <3>2, <3>3
  <2>2. /\ \A m : m \in Wanted(l, r, n, n) <=> m \in P /\ m <= n
        /\ \A m : m \in Wanted(l, r, nl, nr) <=> m \in P /\ (m <= nl \/ m <= nr)
    BY DEF Wanted, P
  <2>3. \A m \in Nat : m = n \/ m < n => m <= n
    BY <1>7
  <2> QED BY <1>7, <2>1, <2>2, <2>3
<1>11. /\ new \in Seq(Seq(Nat)) /\ \A i, j \in DOMAIN new : i < j => Earlier(new[i], new[j])
       /\ ToSet(new) = {LineNo(m) : m \in Wanted(l, r, n, n)}
  <2>1. /\ pr \in Seq(Seq(Nat)) /\ \A i, j \in DOMAIN pr : i < j => Earlier(pr[i], pr[j])
        /\ ToSet(pr) = {LineNo(m) : m \in Wanted(l, r, nl, nr)}
    BY DEF Halfway
  <2>2. CASE ~InOrder(a, z)
    <3>1. new = pr /\ n \notin P
      BY <1>5, <1>9, <2>2
    <3>2. Wanted(l, r, n, n) = Wanted(l, r, nl, nr)
      BY <1>10, <3>1
    <3> QED BY <2>1, <3>1, <3>2
  <2>3. CASE InOrder(a, z)
    <3> DEFINE k == Len(pr)
               e == LineNo(n)
    <3>1. k \in Nat /\ DOMAIN pr = 1..k /\ e \in Seq(Nat)
      BY <1>7, <2>1 DEF LineNo
    <3>2. new = Append(pr, e) /\ n \in P
      BY <1>5, <1>9, <2>3
    <3>3. new \in Seq(Seq(Nat)) /\ Len(new) = k + 1 /\ new[k + 1] = e /\ \A i \in 1..k : new[i] = pr[i]
      BY <2>1, <3>1, <3>2, AppendProperties
    <3>4. DOMAIN new = 1..k + 1
      BY <3>3
    <3>5. \A i \in 1..k : Earlier(pr[i], e)
      <4> SUFFICES ASSUME NEW i \in 1..k PROVE Earlier(pr[i], e)
        OBVIOUS
      <4>1. pr[i] \in ToSet(pr)
        BY <3>1 DEF ToSet
      <4>2. PICK m \in Wanted(l, r, nl, nr) : pr[i] = LineNo(m)
        BY <2>1, <4>1
      <4>3. m < n
        BY <1>10
      <4> QED BY <4>2, <4>3 DEF Earlier, LineNo
    <3> HIDE DEF k, e
    <3>6. /\ \A i \in 1..k + 1 : i = k + 1 \/ i \in 1..k
          /\ k + 1 \in 1..k + 1 /\ \A i \in 1..k : i \in 1..k + 1
          /\ \A i, j \in 1..k + 1 : i < j => i \in 1..k
      BY <3>1
    <3>7. ASSUME NEW i \in 1..k + 1, NEW j \in 1..k + 1, i < j
          PROVE  Earlier(new[i], new[j])
      <4>1. i \in 1..k /\ new[i] = pr[i]
        BY <3>3, <3>6, <3>7
      <4>2. CASE j = k + 1
        BY <3>3, <3>5, <4>1, <4>2
      <4>3. CASE j \in 1..k
        BY <2>1, <3>1, <3>3, <3>7, <4>1, <4>3
      <4> QED BY <3>6, <4>2, <4>3
    <3>8. ToSet(new) = ToSet(pr) \cup {e}
      <4>1. ToSet(new) = {new[i] : i \in 1..k + 1} /\ ToSet(pr) = {pr[i] : i \in 1..k}
        BY <3>1, <3>4 DEF ToSet
      <4>2. \A i \in 1..k + 1 : new[i] \in ToSet(pr) \cup {e}
        BY <3>3, <3>6, <4>1
      <4>3. \A i \in 1..k : pr[i] \in ToSet(new)
        BY <3>3, <3>6, <4>1
      <4>4. e \in ToSet(new)
        BY <3>3, <3>6, <4>1
      <4> QED BY <4>1, <4>2, <4>3, <4>4
    <3>9. Wanted(l, r, n, n) = Wanted(l, r, nl, nr) \cup {n}
      BY <1>10, <3>2
    <3>10. ToSet(new) = {LineNo(m) : m \in Wanted(l, r, n, n)}
      BY <2>1, <3>8, <3>9 DEF e
    <3> QED BY <3>3, <3>4, <3>7, <3>10
  <2> QED BY <2>2, <2>3
<1>12. n \in 0..line_count
  BY <1>3, <1>7
<1>13. Halfway(l, r, n, n, t, u, new)
  BY <1>2, <1>8, <1>11, <1>12 DEF Halfway
<1> QED BY <1>13 DEF a, n, t, u, z, new

LEMMA HalfwayHolds ==
  ASSUME EngineInv, UNCHANGED index, pc # "index", CachesKept, pc' = "pattern", UNCHANGED merge,
         query' \in Queries, IsPattern(query'), Has(query', {Star}), ~Has(query', {Quote}),
         NEW l, NEW r, NEW nl, NEW nr, Halfway(l, r, nl, nr, left, right, printed)'
  PROVE  EngineInv'
<1>1. /\ words \in Seq(1..Len(lexicon)) /\ stage \in 0..Len(words) /\ lines \in Seq(1..line_count)
      /\ words' = words /\ stage' = stage /\ lines' = lines /\ lexicon' = lexicon /\ line_count' = line_count
      /\ Records' = Records
  BY DEF EngineInv, TypeOK, merge, index, Records
<1>2. /\ l \in DOMAIN cache' /\ r \in DOMAIN cache' /\ nl \in 0..line_count' /\ nr \in 0..line_count'
      /\ lexicon'[l] = LowerOf(LeftWord(query')) /\ lexicon'[r] = LowerOf(RightWord(query'))
      /\ left' \in Seq(Records') /\ right' \in Seq(Records') /\ Sorted(left') /\ Sorted(right')
      /\ printed' \in Seq(Seq(Nat))
      /\ \A i, j \in DOMAIN printed' : i < j => Earlier(printed'[i], printed'[j])
      /\ ToSet(left') = Remaining(cache'[l], nl)
      /\ ToSet(right') = Remaining(cache'[r], nr)
      /\ ToSet(printed') = {LineNo(n) : n \in {m \in PatternLines(l, r)' : m <= nl \/ m <= nr}}
  <2> HIDE DEF Records
  <2> QED BY DEF Halfway, Wanted
<1>3. TypeOK' /\ OffsetsInv' /\ LexiconInv' /\ OccInv' /\ CacheInv' /\ PhaseInv'
  <2> HIDE DEF Records
  <2>1. {left', right'} \subseteq Seq(Records)
    BY <1>1, <1>2
  <2> QED BY <1>1, <1>2, <2>1, ServingHolds
<1>4. PatternInv'
  <2> HIDE DEF Records
  <2>1. (\E k, m \in DOMAIN cache, nk, nm \in 0..line_count :
           /\ lexicon[k] = LowerOf(LeftWord(query)) /\ lexicon[m] = LowerOf(RightWord(query))
           /\ ToSet(left) = Remaining(cache[k], nk)
           /\ ToSet(right) = Remaining(cache[m], nm)
           /\ ToSet(printed) = {LineNo(n) : n \in {x \in PatternLines(k, m) : x <= nk \/ x <= nm}})'
    <3>1. /\ l \in DOMAIN cache' /\ r \in DOMAIN cache' /\ nl \in 0..line_count' /\ nr \in 0..line_count'
          /\ lexicon'[l] = LowerOf(LeftWord(query')) /\ lexicon'[r] = LowerOf(RightWord(query'))
          /\ ToSet(left') = Remaining(cache'[l], nl)
          /\ ToSet(right') = Remaining(cache'[r], nr)
          /\ ToSet(printed') = {LineNo(n) : n \in {m \in PatternLines(l, r)' : m <= nl \/ m <= nr}}
      BY <1>2
    <3> USE <3>1
    <3> WITNESS l \in DOMAIN cache', r \in DOMAIN cache', nl \in 0..line_count', nr \in 0..line_count'
    <3> QED BY <3>1
  <2>2. (/\ ~Has(query, {Quote}) /\ Has(query, {Star}) /\ IsPattern(query)
         /\ Sorted(left) /\ Sorted(right)
         /\ \A i, j \in DOMAIN printed : i < j => Earlier(printed[i], printed[j]))'
    BY <1>2
  <2> QED BY <2>1, <2>2 DEF PatternInv
<1>5. MergeInv' /\ AnswersAreRight'
  BY DEF MergeInv, AnswersAreRight
<1> QED BY <1>3, <1>4, <1>5 DEF EngineInv

LEMMA PatternHolds ==
  ASSUME EngineInv, UNCHANGED index, pc = "read", NEW q \in Queries, query' = q,
         ~Has(q, {Quote}), Has(q, {Star}), HandlePattern(q)
  PROVE  EngineInv'
<1> DEFINE lefts == IF IsPattern(q) THEN FindExisting(LeftWord(q)) ELSE {}
           rights == IF IsPattern(q) THEN FindExisting(RightWord(q)) ELSE {}
<1>1. \/ (lefts = {} \/ rights = {}) /\ ReplyBlank
      \/ \E l \in lefts, r \in rights :
           /\ cache' = WithCaches({l, r})
           /\ left' = cache'[l]
           /\ right' = cache'[r]
           /\ printed' = <<>>
           /\ pc' = "pattern"
           /\ UNCHANGED merge
  BY DEF HandlePattern
<1>2. CASE (lefts = {} \/ rights = {}) /\ ReplyBlank
  <2>1. CASE IsPattern(q)
    <3>1. RightAnswer(q) = {}
      BY <1>2, <2>1, PatternAnswerIs
    <3> QED BY <1>2, <3>1, BlankHolds
  <2>2. CASE ~IsPattern(q)
    <3>1. RightAnswer(q) = {}
      BY <2>2 DEF RightAnswer, PatternAnswer
    <3> QED BY <1>2, <3>1, BlankHolds
  <2> QED BY <2>1, <2>2
<1>3. CASE \E l \in lefts, r \in rights :
           /\ cache' = WithCaches({l, r})
           /\ left' = cache'[l]
           /\ right' = cache'[r]
           /\ printed' = <<>>
           /\ pc' = "pattern"
           /\ UNCHANGED merge
  <2>1. PICK l \in lefts, r \in rights :
           /\ cache' = WithCaches({l, r})
           /\ left' = cache'[l]
           /\ right' = cache'[r]
           /\ printed' = <<>>
           /\ pc' = "pattern"
           /\ UNCHANGED merge
    BY <1>3
  <2>2. IsPattern(q) /\ l \in FindExisting(LeftWord(q)) /\ r \in FindExisting(RightWord(q))
    <3>1. IsPattern(q)
      BY <2>1
    <3> QED BY <2>1, <3>1
  <2> HIDE DEF lefts, rights
  <2>3. GoodWord(LeftWord(q)) /\ GoodWord(RightWord(q))
    BY <2>2, PatternAnswerIs
  <2>4. /\ l \in DOMAIN lexicon /\ lexicon[l] = LowerOf(LeftWord(q))
        /\ r \in DOMAIN lexicon /\ lexicon[r] = LowerOf(RightWord(q))
    BY <2>2, <2>3, WordFound
  <2>5. /\ CachesKept /\ l \in DOMAIN cache' /\ r \in DOMAIN cache'
        /\ cache'[l] = Postings(l) /\ cache'[r] = Postings(r)
    <3>1. {l, r} \subseteq DOMAIN lexicon /\ cache' = WithCaches({l, r})
      BY <2>1, <2>4
    <3> DEFINE ids == {l, r}
    <3>2. l \in ids /\ r \in ids
      OBVIOUS
    <3> HIDE DEF ids
    <3>3. /\ CachesKept /\ ids \subseteq DOMAIN cache'
          /\ \A w \in ids : w \in DOMAIN lexicon /\ cache'[w] = Postings(w)
      BY <3>1, CachesAreMade DEF ids
    <3> QED BY <3>2, <3>3
  <2>6. /\ left' \in Seq(Records) /\ right' \in Seq(Records) /\ Sorted(left') /\ Sorted(right')
    <3>1. /\ Postings(l) \in Seq(Records) /\ Sorted(Postings(l))
          /\ Postings(r) \in Seq(Records) /\ Sorted(Postings(r))
      BY <2>4, PostingsAre DEF EngineInv
    <3> HIDE DEF Records
    <3> QED BY <2>1, <2>5, <3>1
  <2>7. line_count \in Nat /\ 0 \in 0..line_count /\ \A n \in 1..line_count : n > 0 /\ ~(n <= 0)
    <3>1. line_count \in Nat
      BY TextIs DEF EngineInv
    <3> QED BY <3>1
  <2>8. \A s : s \in Seq(Records) => ToSet(s) = Remaining(s, 0)
    <3> SUFFICES ASSUME NEW s \in Seq(Records) PROVE ToSet(s) = Remaining(s, 0)
      OBVIOUS
    <3>1. \A x \in ToSet(s) : x \in Records
      <4> HIDE DEF Records
      <4> QED BY DEF ToSet
    <3>2. \A x \in Records : x.line \in 1..line_count
      BY RecordIs DEF Records
    <3> HIDE DEF Records
    <3> QED BY <2>7, <3>1, <3>2 DEF Remaining
  <2>9. ToSet(left') = Remaining(cache'[l], 0) /\ ToSet(right') = Remaining(cache'[r], 0)
    BY <2>1, <2>6, <2>8
  <2>10. lexicon' = lexicon /\ line_count' = line_count /\ Records' = Records
    BY DEF index, Records
  <2>11. Wanted(l, r, 0, 0)' = {}
    BY <2>7, <2>10 DEF Wanted, PatternLines
  <2>12. ToSet(printed') = {LineNo(n) : n \in Wanted(l, r, 0, 0)'}
    <3>1. ToSet(printed') = {}
      BY <2>1 DEF ToSet
    <3> QED BY <2>11, <3>1
  <2>13. /\ printed' \in Seq(Seq(Nat))
         /\ \A i, j \in DOMAIN printed' : i < j => Earlier(printed'[i], printed'[j])
    BY <2>1
  <2>14. lexicon[l] = LowerOf(LeftWord(query')) /\ lexicon[r] = LowerOf(RightWord(query'))
    BY <2>4
  <2>15. pc' = "pattern" /\ UNCHANGED merge /\ IsPattern(query')
    BY <2>1, <2>2
  <2> HIDE DEF Records
  <2>16. Halfway(l, r, 0, 0, left, right, printed)'
    BY <2>5, <2>6, <2>7, <2>9, <2>10, <2>12, <2>13, <2>14 DEF Halfway
  <2> QED BY <2>5, <2>15, <2>16, HalfwayHolds
<1> QED BY <1>1, <1>2, <1>3

LEMMA PatternStepHolds ==
  ASSUME EngineInv, PatternStep
  PROVE  EngineInv'
<1>1. /\ pc = "pattern" /\ left # <<>> /\ right # <<>>
      /\ pc' = "pattern" /\ UNCHANGED index /\ cache' = cache /\ query' = query /\ UNCHANGED merge
      /\ \/ /\ Head(left).line < Head(right).line
            /\ left' = SkipGroup(left) /\ right' = right /\ printed' = printed
         \/ /\ Head(left).line > Head(right).line
            /\ right' = SkipGroup(right) /\ left' = left /\ printed' = printed
         \/ /\ Head(left).line = Head(right).line
            /\ left' = SkipGroup(left) /\ right' = SkipGroup(right)
            /\ printed' = IF InOrder(Head(left), LastOfGroup(right))
                            THEN Append(printed, LineNo(Head(left).line)) ELSE printed
  BY DEF PatternStep
<1>2. query \in Queries /\ IsPattern(query) /\ Has(query, {Star}) /\ ~Has(query, {Quote})
  BY <1>1, HalfwayIs
<1>3. PICK l, r, nl, nr : Halfway(l, r, nl, nr, left, right, printed)
  BY <1>1, HalfwayIs
<1>4. \E ml, mr : Halfway(l, r, ml, mr, left', right', printed')
  <2>1. CASE /\ Head(left).line < Head(right).line
             /\ left' = SkipGroup(left) /\ right' = right /\ printed' = printed
    <3>1. Halfway(l, r, Head(left).line, nr, SkipGroup(left), right, printed)
      BY <1>1, <1>3, <2>1, LeftGroupIsPassed
    <3> QED BY <2>1, <3>1
  <2>2. CASE /\ Head(left).line > Head(right).line
             /\ right' = SkipGroup(right) /\ left' = left /\ printed' = printed
    <3>1. Halfway(l, r, nl, Head(right).line, left, SkipGroup(right), printed)
      BY <1>1, <1>3, <2>2, RightGroupIsPassed
    <3> QED BY <2>2, <3>1
  <2>3. CASE /\ Head(left).line = Head(right).line
             /\ left' = SkipGroup(left) /\ right' = SkipGroup(right)
             /\ printed' = IF InOrder(Head(left), LastOfGroup(right))
                             THEN Append(printed, LineNo(Head(left).line)) ELSE printed
    <3>1. Halfway(l, r, Head(left).line, Head(left).line, SkipGroup(left), SkipGroup(right),
                  IF InOrder(Head(left), LastOfGroup(right))
                    THEN Append(printed, LineNo(Head(left).line)) ELSE printed)
      BY <1>1, <1>3, <2>3, CommonLineIsDecided
    <3> QED BY <2>3, <3>1
  <2> QED BY <1>1, <2>1, <2>2, <2>3
<1>5. PICK ml, mr : Halfway(l, r, ml, mr, left', right', printed')
  BY <1>4
<1>6. lexicon' = lexicon /\ line_count' = line_count /\ Records' = Records
  BY <1>1 DEF index, Records
<1> HIDE DEF Records
<1>7. Wanted(l, r, ml, mr)' = Wanted(l, r, ml, mr)
  BY <1>1, <1>6 DEF Wanted, PatternLines
<1>8. Halfway(l, r, ml, mr, left, right, printed)'
  BY <1>1, <1>5, <1>6, <1>7 DEF Halfway
<1>9. CachesKept
  BY <1>1, CachesStay
<1> QED BY <1>1, <1>2, <1>8, <1>9, HalfwayHolds

LEMMA FinishPatternHolds ==
  ASSUME EngineInv, FinishPattern
  PROVE  EngineInv'
<1>1. /\ pc = "pattern" /\ StreamsEnded /\ Reply(printed)
      /\ UNCHANGED index /\ cache' = cache /\ query' = query
  BY DEF FinishPattern
<1>2. query \in Queries /\ IsPattern(query) /\ Has(query, {Star}) /\ ~Has(query, {Quote})
  BY <1>1, HalfwayIs
<1>3. PICK l, r, nl, nr : Halfway(l, r, nl, nr, left, right, printed)
  BY <1>1, HalfwayIs
<1> DEFINE A == ToSet(cache[l])
           B == ToSet(cache[r])
           P == PatternLines(l, r)
<1>4. /\ nl \in Nat /\ nr \in Nat
      /\ \A x \in A \cup B : x \in Records /\ x.line \in 1..line_count /\ x.line \in Nat /\ x.start \in Nat
      /\ \A x : x \in ToSet(left) <=> x \in A /\ x.line > nl
      /\ \A x : x \in ToSet(right) <=> x \in B /\ x.line > nr
      /\ \A m : m \in P <=> \E x \in A, y \in B : x.line = m /\ y.line = m /\ x.start < y.start
  BY <1>3, HalfwayFacts
<1>5. /\ l \in DOMAIN cache /\ r \in DOMAIN cache
      /\ lexicon[l] = LowerOf(LeftWord(query)) /\ lexicon[r] = LowerOf(RightWord(query))
      /\ printed \in Seq(Seq(Nat)) /\ \A i, j \in DOMAIN printed : i < j => Earlier(printed[i], printed[j])
      /\ ToSet(printed) = {LineNo(n) : n \in {m \in P : m <= nl \/ m <= nr}}
  BY <1>3 DEF Halfway, Wanted
<1>6. l \in FindExisting(LeftWord(query)) /\ r \in FindExisting(RightWord(query))
  <2>1. DOMAIN cache \subseteq DOMAIN lexicon
    BY LexiconIs DEF EngineInv, TypeOK
  <2> QED BY <1>5, <2>1 DEF FindExisting, Lookup
<1>7. A = RecordsOf(l) /\ B = RecordsOf(r)
  <2>1. GoodWord(LeftWord(query)) /\ GoodWord(RightWord(query))
    BY <1>1, <1>2, PatternAnswerIs
  <2>2. ToSet(Postings(l)) = RecordsOf(l) /\ ToSet(Postings(r)) = RecordsOf(r)
    BY <1>1, <1>6, <2>1, WordFound
  <2>3. cache[l] = Postings(l) /\ cache[r] = Postings(r)
    BY <1>5 DEF EngineInv, CacheInv
  <2> QED BY <2>2, <2>3
<1>8. RightAnswer(query) = {LineNo(x.line) : x \in {y \in RecordsOf(l) :
                             \E z \in RecordsOf(r) : z.line = y.line /\ z.start > y.start}}
  BY <1>1, <1>2, <1>6, PatternAnswerIs
<1> HIDE DEF A, B, P
<1>9. RightAnswer(query) = {LineNo(n) : n \in P}
  <2>1. \A x \in A, y \in B : x.start < y.start <=> y.start > x.start
    BY <1>4
  <2>2. \A n : n \in P <=> \E x \in A : x.line = n /\ \E y \in B : y.line = x.line /\ y.start > x.start
    BY <1>4, <2>1
  <2>3. RightAnswer(query) = {LineNo(x.line) : x \in {y \in A : \E z \in B : z.line = y.line /\ z.start > y.start}}
    BY <1>7, <1>8
  <2> QED BY <2>2, <2>3
<1>10. {m \in P : m <= nl \/ m <= nr} = P
  <2>1. ToSet(left) = {} \/ ToSet(right) = {}
    BY <1>1 DEF StreamsEnded, ToSet
  <2>2. ASSUME NEW m \in P
        PROVE  m <= nl \/ m <= nr
    <3>1. PICK x \in A, y \in B : x.line = m /\ y.line = m
      BY <1>4
    <3>2. m \in Nat /\ (~(m > nl) \/ ~(m > nr))
      BY <1>4, <2>1, <3>1
    <3> QED BY <1>4, <3>2
  <2> QED BY <2>2
<1>11. Lists(printed, RightAnswer(query'))
  <2>1. ToSet(printed) = RightAnswer(query)
    BY <1>5, <1>9, <1>10
  <2> QED BY <1>1, <1>5, <2>1 DEF Lists
<1>12. CachesKept
  BY <1>1, CachesStay
<1> QED BY <1>1, <1>2, <1>5, <1>11, <1>12, ReplyHolds

-----------------------------------------------------------------------------
(* The invariant holds at the start and is kept by every step.             *)

LEMMA InitHolds ==
  ASSUME Init
  PROVE  EngineInv
<1>1. text \in Seq(Chars) /\ Len(text) \in Nat /\ DOMAIN text = 1..Len(text)
  BY EngineAssumption DEF Init
<1>2. /\ text \in Texts /\ input_pos = 0 /\ offsets = <<0>> /\ line_count = 0 /\ lexicon = <<>>
      /\ occ = [b \in Buckets |-> <<>>] /\ cache = <<>> /\ pc = "index" /\ query = NoQuery
      /\ printed = <<>> /\ words = <<>> /\ stage = 0 /\ left = <<>> /\ right = <<>> /\ lines = <<>>
  BY DEF Init
<1>3. TypeOK
  <2>1. offsets \in Seq(0..Len(text)) /\ input_pos \in 0..Len(text) /\ line_count \in 0..Len(text)
    BY <1>1, <1>2
  <2>2. occ \in [Buckets -> Seq(Records)]
    <3> HIDE DEF Records, Buckets
    <3> QED BY <1>2
  <2>3. DOMAIN cache = {}
    BY <1>2
  <2>4. words \in Seq(1..Len(lexicon)) /\ stage \in 0..Len(words) /\ lines \in Seq(1..line_count)
    BY <1>2
  <2>5. lexicon \in Seq(Seq(Chars)) /\ printed \in Seq(Seq(Nat))
    BY <1>2
  <2> HIDE DEF Records, Buckets
  <2> QED BY <1>2, <2>1, <2>2, <2>3, <2>4, <2>5 DEF TypeOK
<1>4. OffsetsInv
  <2>1. Len(offsets) = line_count + 1 /\ offsets[line_count + 1] = input_pos
    BY <1>2
  <2>2. \A n \in 1..line_count : FALSE
    BY <1>2
  <2>3. CountBegins(input_pos) = line_count
    <3>1. {b \in Begins : b <= 0} = {}
      BY <1>1 DEF Begins
    <3> QED BY <1>2, <3>1, FS_EmptySet DEF CountBegins
  <2>4. input_pos < Len(text) => input_pos + 1 \in Begins
    BY <1>1, <1>2 DEF Begins
  <2>5. \A p \in 1..input_pos : FALSE
    BY <1>2
  <2> QED BY <2>1, <2>2, <2>3, <2>4, <2>5 DEF OffsetsInv
<1>5. LexiconInv
  <2>1. DOMAIN lexicon = {} /\ \A n \in 1..line_count : FALSE
    BY <1>2
  <2> QED BY <2>1 DEF LexiconInv
<1>6. OccInv
  <2>1. Records = {}
    <3>1. 1..line_count = {}
      BY <1>2
    <3>2. \A r \in Records : r.line \in 1..line_count
      BY RecordIs DEF Records
    <3> QED BY <3>1, <3>2
  <2>2. \A b \in Buckets : occ[b] = <<>>
    BY <1>2
  <2> HIDE DEF Records, Buckets
  <2> QED BY <2>1, <2>2 DEF OccInv, Sorted, ToSet
<1>7. CacheInv /\ PhaseInv /\ MergeInv /\ PatternInv /\ AnswersAreRight
  <2>1. DOMAIN cache = {}
    BY <1>2
  <2> QED BY <1>2, <2>1 DEF CacheInv, PhaseInv, MergeInv, PatternInv, AnswersAreRight
<1> QED BY <1>3, <1>4, <1>5, <1>6, <1>7 DEF EngineInv

(***************************************************************************)
(* The program starts to serve, and exits.                                 *)
(***************************************************************************)
LEMMA IdleHolds ==
  ASSUME EngineInv, UNCHANGED <<index, query, printed, merge, streams>>,
         pc' \in {"read", "exited"}, input_pos = Len(text),
         pc' = "read" => query = NoQuery,
         cache' = cache \/ cache' = <<>>
  PROVE  EngineInv'
<1>1. /\ OffsetsInv' /\ LexiconInv' /\ OccInv'
      /\ Records' = Records /\ Buckets' = Buckets
      /\ \A w : Postings(w)' = Postings(w)
      /\ text' = text /\ input_pos' = input_pos /\ offsets' = offsets
      /\ line_count' = line_count /\ lexicon' = lexicon /\ occ' = occ
  BY IndexFrame DEF EngineInv
<1>2. query' = query /\ printed' = printed /\ words' = words /\ stage' = stage /\ lines' = lines
  BY DEF merge
<1>3. DOMAIN cache' \subseteq DOMAIN cache /\ \A w \in DOMAIN cache' : cache'[w] = cache[w]
  <2>1. DOMAIN <<>> = {}
    OBVIOUS
  <2> QED BY <2>1
<1> HIDE DEF Records, Buckets
<1>4. TypeOK'
  <2>1. TypeOK
    BY DEF EngineInv
  <2>2. /\ text \in Texts /\ input_pos \in 0..Len(text) /\ offsets \in Seq(0..Len(text))
        /\ line_count \in 0..Len(text) /\ lexicon \in Seq(Seq(Chars)) /\ occ \in [Buckets -> Seq(Records)]
        /\ DOMAIN cache \subseteq 1..Len(lexicon) /\ \A w \in DOMAIN cache : cache[w] \in Seq(Records)
        /\ query \in Queries \cup {NoQuery} /\ printed \in Seq(Seq(Nat))
        /\ words \in Seq(1..Len(lexicon)) /\ stage \in 0..Len(words) /\ lines \in Seq(1..line_count)
    BY <2>1 DEF TypeOK
  <2>3. DOMAIN cache' \subseteq 1..Len(lexicon) /\ \A w \in DOMAIN cache' : cache'[w] \in Seq(Records)
    BY <1>3, <2>2
  <2> QED BY <1>1, <1>2, <2>2, <2>3 DEF TypeOK
<1>5. CacheInv'
  <2>1. \A w \in DOMAIN cache' : cache'[w] = Postings(w)
    BY <1>3 DEF EngineInv, CacheInv
  <2> QED BY <1>1, <2>1 DEF CacheInv
<1>6. PhaseInv' /\ MergeInv' /\ PatternInv' /\ AnswersAreRight'
  BY <1>1, <1>2 DEF PhaseInv, MergeInv, PatternInv, AnswersAreRight
<1> QED BY <1>1, <1>4, <1>5, <1>6 DEF EngineInv

LEMMA StutterHolds ==
  ASSUME EngineInv, UNCHANGED vars
  PROVE  EngineInv'
<1>1. /\ UNCHANGED index /\ cache' = cache /\ pc' = pc /\ query' = query /\ printed' = printed
      /\ words' = words /\ stage' = stage /\ lines' = lines /\ left' = left /\ right' = right
  BY DEF vars, merge, streams
<1>2. /\ OffsetsInv' /\ LexiconInv' /\ OccInv'
      /\ Records' = Records /\ Buckets' = Buckets
      /\ \A w : Postings(w)' = Postings(w)
      /\ text' = text /\ input_pos' = input_pos /\ offsets' = offsets
      /\ line_count' = line_count /\ lexicon' = lexicon /\ occ' = occ
  BY <1>1, IndexFrame DEF EngineInv
<1>3. TypeOK'
  <2>1. TypeOK
    BY DEF EngineInv
  <2> HIDE DEF Records, Buckets
  <2> QED BY <1>1, <1>2, <2>1 DEF TypeOK
<1>4. CacheInv' /\ PhaseInv'
  BY <1>1, <1>2 DEF EngineInv, CacheInv, PhaseInv
<1>5. MergeInv'
  <2>1. LinesWith(StageWords)' = LinesWith(StageWords)
    <3>1. {lexicon'[words'[k]] : k \in 1..stage'} = StageWords
      BY <1>1, <1>2 DEF StageWords
    <3> QED BY <1>2, <3>1, AnswerFrame
  <2>2. Written' = Written /\ (LastStage' <=> LastStage)
    BY <1>1 DEF Written, LastStage
  <2>3. MergeInv
    BY DEF EngineInv
  <2> QED BY <1>1, <1>2, <2>1, <2>2, <2>3 DEF MergeInv, Increasing
<1>6. PatternInv'
  <2>1. PatternInv
    BY DEF EngineInv
  <2> QED BY <1>1, <1>2, <2>1 DEF PatternInv, PatternLines, Remaining, Sorted, Before
<1>7. AnswersAreRight'
  <2>1. RightAnswer(query)' = RightAnswer(query)
    BY <1>1, <1>2, AnswerFrame
  <2>2. AnswersAreRight
    BY DEF EngineInv
  <2> QED BY <1>1, <2>1, <2>2 DEF AnswersAreRight
<1> QED BY <1>2, <1>3, <1>4, <1>5, <1>6, <1>7 DEF EngineInv

LEMMA QueryHolds ==
  ASSUME EngineInv, NEW q \in Queries, HandleQuery(q)
  PROVE  EngineInv'
<1>1. /\ pc = "read" /\ query' = q /\ UNCHANGED index
      /\ \/ Has(q, {Quote}) /\ HandlePhrase(q)
         \/ ~Has(q, {Quote}) /\ Has(q, {Star}) /\ HandlePattern(q)
         \/ /\ ~Has(q, {Quote, Star})
            /\ \/ CountWords(q) = 0 /\ ReplyBlank
               \/ CountWords(q) = 1 /\ HandleSingle(q)
               \/ CountWords(q) > 1 /\ HandleMulti(q)
  BY DEF HandleQuery
<1>2. ~Has(q, {Quote, Star}) => ~Has(q, {Quote}) /\ ~Has(q, {Star})
  BY DEF Has
<1>3. CASE Has(q, {Quote}) /\ HandlePhrase(q)
  BY <1>1, <1>3, PhraseHolds
<1>4. CASE ~Has(q, {Quote}) /\ Has(q, {Star}) /\ HandlePattern(q)
  BY <1>1, <1>4, PatternHolds
<1>5. CASE ~Has(q, {Quote, Star}) /\ CountWords(q) = 0 /\ ReplyBlank
  <2>1. RightAnswer(q) = {}
    BY <1>2, <1>5, WordsAnswerIs DEF RightAnswer
  <2> QED BY <1>1, <1>5, <2>1, BlankHolds
<1>6. CASE ~Has(q, {Quote, Star}) /\ CountWords(q) = 1 /\ HandleSingle(q)
  BY <1>1, <1>2, <1>6, SingleHolds
<1>7. CASE ~Has(q, {Quote, Star}) /\ CountWords(q) > 1 /\ HandleMulti(q)
  BY <1>1, <1>2, <1>7, MultiHolds
<1> QED BY <1>1, <1>3, <1>4, <1>5, <1>6, <1>7

(***************************************************************************)
(* The invariant, for all texts, queries, alphabets, hash functions and    *)
(* numbers of buckets: whatever process_line, the handlers of queries and  *)
(* the loops of the intersections do, it stays true.                       *)
(***************************************************************************)
THEOREM EngineIsInvariant == Spec => []EngineInv
<1>1. Init => EngineInv
  BY InitHolds
<1>2. EngineInv /\ [Next]_vars => EngineInv'
  <2> SUFFICES ASSUME EngineInv, Next \/ UNCHANGED vars
               PROVE  EngineInv'
    OBVIOUS
  <2>1. CASE IndexLine
    BY <2>1, IndexStepHolds
  <2>2. CASE StartServing
    <3>1. /\ UNCHANGED <<index, query, printed, merge, streams>>
          /\ pc = "index" /\ pc' = "read" /\ input_pos = Len(text) /\ cache' = cache
      BY <2>2 DEF StartServing
    <3>2. query = NoQuery
      BY <3>1 DEF EngineInv, PhaseInv
    <3> QED BY <3>1, <3>2, IdleHolds
  <2>3. CASE MergeStep
    BY <2>3, MergeStepHolds
  <2>4. CASE FinishMerge
    BY <2>4, FinishMergeHolds
  <2>5. CASE NextStage
    BY <2>5, NextStageHolds
  <2>6. CASE PatternStep
    BY <2>6, PatternStepHolds
  <2>7. CASE FinishPattern
    BY <2>7, FinishPatternHolds
  <2>8. ASSUME NEW q \in Queries, HandleQuery(q)
        PROVE  EngineInv'
    BY <2>8, QueryHolds
  <2>9. CASE Exit
    <3>1. /\ UNCHANGED <<index, query, printed, merge, streams>>
          /\ pc = "read" /\ pc' = "exited" /\ cache' = <<>>
      BY <2>9 DEF Exit
    <3>2. input_pos = Len(text)
      BY <3>1 DEF EngineInv, PhaseInv
    <3> QED BY <3>1, <3>2, IdleHolds
  <2>10. CASE Exited
    BY <2>10, StutterHolds DEF Exited
  <2>11. CASE UNCHANGED vars
    BY <2>11, StutterHolds
  <2> QED BY <2>1, <2>2, <2>3, <2>4, <2>5, <2>6, <2>7, <2>8, <2>9, <2>10, <2>11 DEF Next, Work
<1> QED BY <1>1, <1>2, PTL DEF Spec

(***************************************************************************)
(* What the lexicon, the offsets, the bucket files and the caches hold is  *)
(* what the text says: process_line has recorded each occurrence in the    *)
(* lines read, in order, index_read_line finds every line again, and a     *)
(* cache made by ensure_word_cache has the whole of its word's postings.   *)
(***************************************************************************)
THEOREM StoresStayExact == Spec => []StoresAreExact
  BY EngineIsInvariant, StoresHold, PTL

(***************************************************************************)
(* The loops of intersect_line_sources_to_file and _to_output lose no line *)
(* and add none, however many words are intersected.                       *)
(***************************************************************************)
THEOREM MergesLoseNothing == Spec => []MergeLosesNothing
  BY EngineIsInvariant, MergesHold, PTL

(***************************************************************************)
(* handle_query answers every query - a word, words, a phrase or a pattern *)
(* - with what the text says, whichever caches there are already.          *)
(***************************************************************************)
THEOREM AnswersAreAlwaysRight == Spec => []AnswersAreRight
<1>1. EngineInv => AnswersAreRight
  BY DEF EngineInv
<1> QED BY <1>1, EngineIsInvariant, PTL
=============================================================================
