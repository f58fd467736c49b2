---------------------------- MODULE SearchEngine ----------------------------
(***************************************************************************)
(* The PA1 search engine (src/PA1): one pass over a text builds a lexicon, *)
(* a table of line offsets and files of postings, partitioned by hash;     *)
(* queries are then answered from the postings of single words, which are  *)
(* copied to a cache file when a word is first asked for.                  *)
(*                                                                         *)
(* A text is a sequence of characters with newlines.  A file of postings   *)
(* that is read from its start to its end is the sequence of the records   *)
(* still to come; its first element is the reader's current record.        *)
(***************************************************************************)
EXTENDS Naturals, Sequences, FiniteSets, SequencesExt

CONSTANTS Chars,       \* characters of texts and queries
          Separators,  \* space and tab
          Newline, Quote, Star,
          Lower,       \* ascii_lower, as a function
          Hash(_),     \* hash_lower_bytes of a word in lower case
          OccBuckets,  \* OCC_BUCKETS
          QueryLimit,  \* QUERY_LIMIT
          Texts,       \* bound: input files that are tried
          Queries,     \* bound: query lines that are tried
          NoQuery

ASSUME EngineAssumption ==
  /\ Separators \subseteq Chars
  /\ {Newline, Quote, Star} \subseteq Chars \ Separators
  /\ Cardinality({Newline, Quote, Star}) = 3
  /\ Lower \in [Chars -> Chars]
  /\ \A c \in Chars, x \in Separators \cup {Newline, Quote, Star} : Lower[c] = x <=> c = x
  /\ \A c \in Chars : Lower[Lower[c]] = Lower[c]
  /\ OccBuckets \in Nat \ {0}
  /\ QueryLimit \in Nat
  /\ Texts \subseteq Seq(Chars)
  /\ \A t \in Texts : \A i, j \in DOMAIN t :
       i <= j => Hash([k \in 1..j - i + 1 |-> Lower[t[i + k - 1]]]) \in Nat
  /\ Queries \subseteq Seq(Chars \ {Newline})
  /\ NoQuery \notin Queries

VARIABLES
  text,       \* the input file
  input_pos,  \* characters of it that input_reader has delivered
  offsets,    \* contents of line_fd
  line_count, \* index->line_count
  lexicon,    \* lexicon.entries[..].text; a word's id is its index
  occ,        \* contents of the files occ_fds
  cache,      \* contents of the cache files, for the words that have one
  pc,         \* "index", "read", "merge", "pattern" or "exited"
  query,      \* the query line being answered, or the last one answered
  printed,    \* what has been printed for it
  words,      \* word_ids of handle_multi, sorted
  stage,      \* how many of them the current intersection covers
  left, right,\* what the two readers have still to deliver
  lines       \* contents of the line set that an intersection writes

index == <<text, input_pos, offsets, line_count, lexicon, occ>>
merge == <<words, stage, lines>>
streams == <<left, right>>
vars == <<index, cache, pc, query, printed, merge, streams>>

Buckets == 0..OccBuckets - 1
Records == [word : 1..Len(lexicon), line : 1..line_count, start : 0..Len(text) - 1]

TypeOK ==
  /\ text \in Texts
  /\ input_pos \in 0..Len(text)
  /\ offsets \in Seq(0..Len(text))
  /\ line_count \in 0..Len(text)
  /\ lexicon \in Seq(Seq(Chars))
  /\ occ \in [Buckets -> Seq(Records)]
  /\ DOMAIN cache \subseteq 1..Len(lexicon)
  /\ \A w \in DOMAIN cache : cache[w] \in Seq(Records)
  /\ pc \in {"index", "read", "merge", "pattern", "exited"}
  /\ query \in Queries \cup {NoQuery}
  /\ printed \in Seq(Seq(Nat))
  /\ words \in Seq(1..Len(lexicon))
  /\ stage \in 0..Len(words)
  /\ pc = "merge" => {left, right} \subseteq Seq(1..line_count)
  /\ pc = "pattern" => {left, right} \subseteq Seq(Records)
  /\ lines \in Seq(1..line_count)

Init ==
  /\ text \in Texts
  /\ input_pos = 0
  /\ offsets = <<0>>
  /\ line_count = 0
  /\ lexicon = <<>>
  /\ occ = [b \in Buckets |-> <<>>]
  /\ cache = <<>>
  /\ pc = "index"
  /\ query = NoQuery
  /\ printed = <<>>
  /\ words = <<>>
  /\ stage = 0
  /\ left = <<>>
  /\ right = <<>>
  /\ lines = <<>>

-----------------------------------------------------------------------------
(* Words and characters.                                                   *)

(***************************************************************************)
(* The numbers of a finite set from the least to the greatest, and the     *)
(* elements of s at such positions, in their order.  (SelectSeq is built   *)
(* into the checkers: there is no definition a proof could use.)           *)
(***************************************************************************)
Ascending(S) ==
  [n \in 1..Cardinality(S) |-> CHOOSE x \in S : Cardinality({y \in S : y <= x}) = n]
ElementsAt(s, positions) ==
  LET at == Ascending(positions) IN [n \in 1..Cardinality(positions) |-> s[at[n]]]

Has(s, C) == \E i \in DOMAIN s : s[i] \in C
LowerOf(s) == [i \in DOMAIN s |-> Lower[s[i]]]

(***************************************************************************)
(* The positions at which the scanning loops of process_line and           *)
(* collect_query_words find a word, and the word at such a position.       *)
(***************************************************************************)
StartsWord(s, i) == s[i] \notin Separators /\ (i = 1 \/ s[i - 1] \in Separators)
WordStarts(s) == {i \in DOMAIN s : StartsWord(s, i)}
WordAt(s, i) ==
  LET end == SelectInSubSeq(s, i, Len(s), LAMBDA c : c \in Separators)
  IN SubSeq(s, i, IF end = 0 THEN Len(s) ELSE end - 1)
CountWords(s) == Cardinality(WordStarts(s))

(***************************************************************************)
(* start_idx counts from 0.                                                *)
(***************************************************************************)
StartIdx(i) == i - 1
Bucket(word) == Hash(word) % OccBuckets

(***************************************************************************)
(* The entry of a word: none, or one.                                      *)
(***************************************************************************)
Lookup(entries, word) == {w \in DOMAIN entries : entries[w] = LowerOf(word)}
FindExisting(word) == Lookup(lexicon, word)
IdOf(entries, word) == CHOOSE w \in Lookup(entries, word) : TRUE

-----------------------------------------------------------------------------
(* Indexing.                                                               *)

ReadLine(pos) ==
  LET nl == SelectInSubSeq(text, pos + 1, Len(text), LAMBDA c : c = Newline)
      end == IF nl = 0 THEN Len(text) ELSE nl - 1
  IN [data |-> SubSeq(text, pos + 1, end), had_newline |-> IF nl = 0 THEN 0 ELSE 1]

NextOffset(line) == Last(offsets) + Len(line.data) + line.had_newline

(***************************************************************************)
(* What process_line does with the words of a line: those that are new     *)
(* enter the lexicon in their order, and each occurrence is appended to    *)
(* the file of its word's bucket.                                          *)
(***************************************************************************)
EntriesWith(data) ==
  LET Word(i) == LowerOf(WordAt(data, i))
      news == {i \in WordStarts(data) :
                 /\ FindExisting(Word(i)) = {}
                 /\ \A k \in WordStarts(data) : k < i => Word(k) # Word(i)}
  IN lexicon \o ElementsAt([i \in DOMAIN data |-> Word(i)], news)

FilesWith(data, line_no, entries) ==
  LET Id(i) == IdOf(entries, WordAt(data, i))
      records == [i \in DOMAIN data |->
                   [word |-> Id(i), line |-> line_no, start |-> StartIdx(i)]]
      In(b) == {i \in WordStarts(data) : Bucket(entries[Id(i)]) = b}
  IN [b \in Buckets |-> occ[b] \o ElementsAt(records, In(b))]

IndexLine ==
  /\ pc = "index"
  /\ input_pos < Len(text)
  /\ \E line \in {ReadLine(input_pos)} :
       /\ input_pos' = input_pos + Len(line.data) + line.had_newline
       /\ offsets' = Append(offsets, NextOffset(line))
       /\ \E entries \in {EntriesWith(line.data)} :
            /\ lexicon' = entries
            /\ occ' = FilesWith(line.data, line_count + 1, entries)
  /\ line_count' = line_count + 1
  /\ UNCHANGED <<text, cache, pc, query, printed, merge, streams>>

StartServing ==
  /\ pc = "index"
  /\ input_pos = Len(text)
  /\ pc' = "read"
  /\ UNCHANGED <<index, cache, query, printed, merge, streams>>

(***************************************************************************)
(* index_read_line: the line between two offsets, without its newline.     *)
(***************************************************************************)
StoredLine(line_no) ==
  LET data == SubSeq(text, offsets[line_no] + 1, offsets[line_no + 1])
  IN IF data # <<>> /\ Last(data) = Newline THEN Front(data) ELSE data

-----------------------------------------------------------------------------
(* Caches and streams.                                                     *)

WholeBucket(w) == occ[Bucket(lexicon[w])]
Postings(w) ==
  ElementsAt(WholeBucket(w), {i \in DOMAIN WholeBucket(w) : WholeBucket(w)[i].word = w})

WithCaches(ids) ==
  [w \in DOMAIN cache \cup ids |-> IF w \in DOMAIN cache THEN cache[w] ELSE Postings(w)]

(***************************************************************************)
(* The line numbers that line_number_source_next delivers for a word: one  *)
(* for each group of records of the same line.                             *)
(***************************************************************************)
EveryRecord(records) == [i \in DOMAIN records |-> records[i].line]
WordSource(records) ==
  ElementsAt(EveryRecord(records),
             {i \in DOMAIN records : i = 1 \/ records[i].line # records[i - 1].line})

(***************************************************************************)
(* A reader moves past the records of its current line.                    *)
(***************************************************************************)
StaysOnGroup(records) ==
  SubSeq(records, SelectLastInSeq(records, LAMBDA r : r.line = Head(records).line), Len(records))
SkipGroup(records) ==
  LET next == SelectInSeq(records, LAMBDA r : r.line # Head(records).line)
  IN IF next = 0 THEN <<>> ELSE SubSeq(records, next, Len(records))

-----------------------------------------------------------------------------
(* Answers.                                                                *)

BlankLine == <<>>
LineRef(r) == <<r.line, r.start>>
LineNo(n) == <<n>>
LineRefs(records) == [i \in DOMAIN records |-> LineRef(records[i])]
LineNos(ns) == [i \in DOMAIN ns |-> LineNo(ns[i])]

(***************************************************************************)
(* handle_query returns to the loop of main, which flushes the output.     *)
(***************************************************************************)
Reply(tokens) ==
  /\ printed' = Append(tokens, BlankLine)
  /\ pc' = "read"
  /\ words' = <<>> /\ stage' = 0 /\ lines' = <<>>
  /\ left' = <<>> /\ right' = <<>>

ReplyBlank == Reply(<<>>) /\ UNCHANGED cache

HandleSingle(q) ==
  \E i \in WordStarts(q) :
    LET found == FindExisting(WordAt(q, i)) IN
    \/ found = {} /\ ReplyBlank
    \/ \E w \in found :
         /\ cache' = WithCaches({w})
         /\ Reply(LineRefs(cache'[w]))

(***************************************************************************)
(* A phrase: its first word's postings, each compared with the text.       *)
(***************************************************************************)
IsPhrase(q) ==
  LET phrase == SubSeq(q, 2, Len(q) - 1) IN
  /\ Len(q) > 2
  /\ q[1] = Quote /\ q[Len(q)] = Quote
  /\ phrase[1] \notin Separators /\ Last(phrase) \notin Separators
  /\ ~Has(phrase, {Quote})

HasValidEnd(line, end) == end = Len(line) \/ line[end + 1] \in Separators

PhraseMatches(r, phrase) ==
  LET line == StoredLine(r.line)
      end == r.start + Len(phrase)
  IN /\ end <= Len(line)
     /\ LowerOf(SubSeq(line, r.start + 1, end)) = LowerOf(phrase)
     /\ HasValidEnd(line, end)

HandlePhrase(q) ==
  LET phrase == SubSeq(q, 2, Len(q) - 1)
      found == IF IsPhrase(q) THEN FindExisting(WordAt(phrase, 1)) ELSE {}
  IN \/ found = {} /\ ReplyBlank
     \/ \E w \in found :
          /\ cache' = WithCaches({w})
          /\ LET stored == cache'[w]
                 matches == {i \in DOMAIN stored : PhraseMatches(stored[i], phrase)}
             IN Reply(LineRefs(ElementsAt(stored, matches)))

(***************************************************************************)
(* Several words.  FindExisting is empty for the first unknown word, which *)
(* ends collect_query_words; a word that occurs again is left out.         *)
(***************************************************************************)
CollectQueryWords(q) ==
  LET Id(i) == IdOf(lexicon, WordAt(q, i))
      firsts == {i \in WordStarts(q) : \A k \in WordStarts(q) : k < i => Id(k) # Id(i)}
  IN ElementsAt([i \in DOMAIN q |-> Id(i)], firsts)

(***************************************************************************)
(* The insertion sort by cache_count: word i goes before word k if it has  *)
(* fewer postings, or as many and stands before it already.                *)
(***************************************************************************)
SortByCacheSize(ids, caches) ==
  LET Count(i) == Len(caches[ids[i]])
      Before(i, k) == Count(i) < Count(k) \/ (Count(i) = Count(k) /\ i < k)
      At(n) == CHOOSE k \in DOMAIN ids : Cardinality({i \in DOMAIN ids : Before(i, k)}) = n - 1
  IN [n \in DOMAIN ids |-> ids[At(n)]]

HandleMulti(q) ==
  LET known == \A i \in WordStarts(q) : FindExisting(WordAt(q, i)) # {} IN
  \/ ~known /\ ReplyBlank
  \/ /\ known
     /\ LET ids == CollectQueryWords(q) IN
          /\ cache' = WithCaches(ToSet(ids))
          /\ \/ Len(ids) = 1 /\ Reply(LineNos(WordSource(cache'[ids[1]])))
             \/ /\ Len(ids) > 1
                /\ words' = SortByCacheSize(ids, cache')
                /\ stage' = 2
                /\ left' = WordSource(cache'[words'[1]])
                /\ right' = WordSource(cache'[words'[2]])
                /\ lines' = <<>>
                /\ printed' = <<>>
                /\ pc' = "merge"

LastStage == stage = Len(words)

(***************************************************************************)
(* One turn of the loop of intersect_line_sources_to_file or _to_output.   *)
(***************************************************************************)
Emit(n) ==
  IF LastStage THEN printed' = Append(printed, LineNo(n)) /\ UNCHANGED lines
               ELSE lines' = Append(lines, n) /\ UNCHANGED printed

MergeStep ==
  /\ pc = "merge"
  /\ left # <<>> /\ right # <<>>
  /\ \/ /\ Head(left) = Head(right)
        /\ Emit(Head(left))
        /\ left' = Tail(left) /\ right' = Tail(right)
     \/ /\ Head(left) < Head(right)
        /\ left' = Tail(left)
        /\ UNCHANGED <<right, lines, printed>>
     \/ /\ Head(left) > Head(right)
        /\ right' = Tail(right)
        /\ UNCHANGED <<left, lines, printed>>
  /\ UNCHANGED <<index, cache, pc, query, words, stage>>

(***************************************************************************)
(* The end of an intersection: the answer is complete, or there is nothing *)
(* left to intersect, or the next word's lines are intersected with what   *)
(* has been written.                                                       *)
(***************************************************************************)
StreamsEnded == left = <<>> \/ right = <<>>

FinishMerge ==
  /\ pc = "merge"
  /\ StreamsEnded
  /\ LastStage \/ lines = <<>>
  /\ Reply(printed)
  /\ UNCHANGED <<index, cache, query>>

NextStage ==
  /\ pc = "merge"
  /\ StreamsEnded
  /\ ~LastStage /\ lines # <<>>
  /\ stage' = stage + 1
  /\ left' = lines
  /\ right' = WordSource(cache[words[stage + 1]])
  /\ lines' = <<>>
  /\ UNCHANGED <<index, cache, pc, query, printed, words>>

(***************************************************************************)
(* A pattern word1*word2.                                                  *)
(***************************************************************************)
StarAt(q) == SelectInSeq(q, LAMBDA c : c = Star)
LeftWord(q) == SubSeq(q, 1, StarAt(q) - 1)
RightWord(q) == SubSeq(q, StarAt(q) + 1, Len(q))
IsPattern(q) ==
  /\ LeftWord(q) # <<>> /\ RightWord(q) # <<>>
  /\ ~Has(RightWord(q), {Star})
  /\ ~Has(q, Separators)

HandlePattern(q) ==
  LET lefts == IF IsPattern(q) THEN FindExisting(LeftWord(q)) ELSE {}
      rights == IF IsPattern(q) THEN FindExisting(RightWord(q)) ELSE {}
  IN \/ (lefts = {} \/ rights = {}) /\ ReplyBlank
     \/ \E l \in lefts, r \in rights :
          /\ cache' = WithCaches({l, r})
          /\ left' = cache'[l]
          /\ right' = cache'[r]
          /\ printed' = <<>>
          /\ pc' = "pattern"
          /\ UNCHANGED merge

(***************************************************************************)
(* first_left is the first record of the left word on the line, last_right *)
(* the last one of the right word.                                         *)
(***************************************************************************)
LastOfGroup(records) ==
  records[SelectLastInSeq(records, LAMBDA r : r.line = Head(records).line)]
InOrderOrSame(first_left, last_right) == first_left.start <= last_right.start
InOrder(first_left, last_right) == first_left.start < last_right.start

PatternStep ==
  /\ pc = "pattern"
  /\ left # <<>> /\ right # <<>>
  /\ \/ /\ Head(left).line < Head(right).line
        /\ left' = SkipGroup(left)
        /\ UNCHANGED <<right, printed>>
     \/ /\ Head(left).line > Head(right).line
        /\ right' = SkipGroup(right)
        /\ UNCHANGED <<left, printed>>
     \/ /\ Head(left).line = Head(right).line
        /\ left' = SkipGroup(left) /\ right' = SkipGroup(right)
        /\ printed' = IF InOrder(Head(left), LastOfGroup(right))
                        THEN Append(printed, LineNo(Head(left).line)) ELSE printed
  /\ UNCHANGED <<index, cache, pc, query, merge>>

FinishPattern ==
  /\ pc = "pattern"
  /\ StreamsEnded
  /\ Reply(printed)
  /\ UNCHANGED <<index, cache, query>>

-----------------------------------------------------------------------------
(* The loop of main.                                                       *)

HandleQuery(q) ==
  /\ pc = "read"
  /\ Len(q) <= QueryLimit
  /\ query' = q
  /\ UNCHANGED index
  /\ \/ Has(q, {Quote}) /\ HandlePhrase(q)
     \/ ~Has(q, {Quote}) /\ Has(q, {Star}) /\ HandlePattern(q)
     \/ /\ ~Has(q, {Quote, Star})
        /\ \/ CountWords(q) = 0 /\ ReplyBlank
           \/ CountWords(q) = 1 /\ HandleSingle(q)
           \/ CountWords(q) > 1 /\ HandleMulti(q)

(***************************************************************************)
(* The line PA1EXIT, the end of the input, or a query that is too long.    *)
(* lexicon_free removes the cache files.                                   *)
(***************************************************************************)
Exit ==
  /\ pc = "read"
  /\ pc' = "exited"
  /\ cache' = <<>>
  /\ UNCHANGED <<index, query, printed, merge, streams>>

Exited == pc = "exited" /\ UNCHANGED vars

Work ==
  \/ IndexLine \/ StartServing
  \/ MergeStep \/ FinishMerge \/ NextStage
  \/ PatternStep \/ FinishPattern

Next == Work \/ (\E q \in Queries : HandleQuery(q)) \/ Exit \/ Exited

(***************************************************************************)
(* The program runs; nobody has to type a query.                           *)
(***************************************************************************)
Spec == Init /\ [][Next]_vars /\ WF_vars(Work)

-----------------------------------------------------------------------------
(* What an answer should be, said of the text alone.  Which phrases and    *)
(* patterns are well formed is what the handlers say.                      *)

(***************************************************************************)
(* Where the lines of the text begin; what follows the last newline is a   *)
(* line unless it is empty.  The place of a position is its line and how   *)
(* far from the beginning of the line it is.                               *)
(***************************************************************************)
Begins == {p \in DOMAIN text : p = 1 \/ text[p - 1] = Newline}
AllLines == 1..Cardinality(Begins)
PlaceOf(p) ==
  LET before == {b \in Begins : b <= p} IN <<Cardinality(before), p - Max(before)>>

(***************************************************************************)
(* s stands in t at position i, and no letter touches it.                  *)
(***************************************************************************)
Breaks == Separators \cup {Newline}
StandsAt(s, t, i) ==
  LET end == i + Len(s) - 1 IN
  /\ end <= Len(t)
  /\ \A k \in DOMAIN s : Lower[t[i + k - 1]] = Lower[s[k]]
  /\ i > 1 => t[i - 1] \in Breaks
  /\ end < Len(t) => t[end + 1] \in Breaks

(***************************************************************************)
(* Where s stands in the text, and the lines in which all of ws stand.     *)
(***************************************************************************)
Places(s) == {PlaceOf(p) : p \in {i \in DOMAIN text : StandsAt(s, text, i)}}
LinesWith(ws) == {n \in AllLines : \A s \in ws : \E x \in Places(s) : x[1] = n}

PhraseAnswer(q) == IF IsPhrase(q) THEN Places(SubSeq(q, 2, Len(q) - 1)) ELSE {}

Follows(y, x) == y[1] = x[1] /\ y[2] > x[2]
PatternAnswer(q) ==
  IF IsPattern(q)
  THEN {LineNo(x[1]) : x \in {y \in Places(LeftWord(q)) :
                               \E z \in Places(RightWord(q)) : Follows(z, y)}}
  ELSE {}

(***************************************************************************)
(* The words of a query, by where they begin and end.                      *)
(***************************************************************************)
Piece(q, at) == SubSeq(q, at[1], at[2])
Pieces(q) ==
  {at \in (DOMAIN q) \X (DOMAIN q) :
     /\ at[1] <= at[2]
     /\ ~Has(Piece(q, at), Breaks)
     /\ StandsAt(Piece(q, at), q, at[1])}
WordsAnswer(q) ==
  LET ws == {Piece(q, at) : at \in Pieces(q)} IN
  CASE Cardinality(Pieces(q)) = 0 -> {}
    [] Cardinality(Pieces(q)) = 1 -> UNION {Places(s) : s \in ws}
    [] OTHER -> {LineNo(n) : n \in LinesWith(ws)}

RightAnswer(q) ==
  IF Has(q, {Quote}) THEN PhraseAnswer(q)
  ELSE IF Has(q, {Star}) THEN PatternAnswer(q)
  ELSE WordsAnswer(q)

(***************************************************************************)
(* The tokens of a set, each of them once, from the top and from the left. *)
(***************************************************************************)
Earlier(t, u) == t[1] < u[1] \/ (t[1] = u[1] /\ Len(t) = 2 /\ t[2] < u[2])
Lists(tokens, S) ==
  /\ ToSet(tokens) = S
  /\ \A i, j \in DOMAIN tokens : i < j => Earlier(tokens[i], tokens[j])

-----------------------------------------------------------------------------
(* Properties.                                                             *)

(***************************************************************************)
(* Whatever was asked before, and whichever words have a cache already, a  *)
(* query is answered with exactly the occurrences or lines of the text     *)
(* that it asks for, in their order, on one output line.                   *)
(***************************************************************************)
AnswersAreRight ==
  pc = "read" /\ query # NoQuery =>
    /\ printed # <<>> /\ Last(printed) = BlankLine
    /\ Lists(Front(printed), RightAnswer(query))

(***************************************************************************)
(* While the text is read, the bucket file of a word holds, among the      *)
(* records of the words it shares the file with, exactly the occurrences   *)
(* of the word in the lines read so far, in any mixture of upper and lower *)
(* case, from the top and from the left.                                   *)
(***************************************************************************)
PostingsAreExact ==
  /\ \A w \in DOMAIN lexicon :
       LET found == {r \in ToSet(WholeBucket(w)) : r.word = w}
       IN {LineRef(r) : r \in found} = {x \in Places(lexicon[w]) : x[1] <= line_count}
  /\ \A b \in Buckets : \A i, j \in DOMAIN occ[b] :
       i < j => Earlier(LineRef(occ[b][i]), LineRef(occ[b][j]))

(***************************************************************************)
(* A cache holds the word's own postings and all of them.  Sorting a query *)
(* by cache sizes and answering from a cache rely on it.                   *)
(***************************************************************************)
CachesAreExact ==
  \A w \in DOMAIN cache : Lists(LineRefs(cache[w]), Places(lexicon[w]))

(***************************************************************************)
(* The table of offsets leads back to every line that has been read, the   *)
(* last one included when it has no newline.                               *)
(***************************************************************************)
IsLine(data, n) ==
  \E b \in Begins :
    LET end == b + Len(data) IN
    /\ PlaceOf(b) = <<n, 0>>
    /\ data = SubSeq(text, b, end - 1)
    /\ ~Has(data, {Newline})
    /\ end <= Len(text) => text[end] = Newline
LinesAreReadBack ==
  /\ Len(offsets) = line_count + 1
  /\ \A n \in 1..line_count : IsLine(StoredLine(n), n)

(***************************************************************************)
(* Whatever a query may be answered from is what the text says.            *)
(***************************************************************************)
StoresAreExact == TypeOK /\ PostingsAreExact /\ CachesAreExact /\ LinesAreReadBack

(***************************************************************************)
(* In the middle of an intersection no line has been lost or added: what   *)
(* has been written, and what both streams still have in common, are the   *)
(* lines that hold all the words of this stage; and each of them is        *)
(* written once, in order.                                                 *)
(***************************************************************************)
Written == IF LastStage THEN [i \in DOMAIN printed |-> printed[i][1]] ELSE lines
MergeLosesNothing ==
  pc = "merge" =>
    /\ ToSet(Written) \cup (ToSet(left) \cap ToSet(right)) =
         LinesWith({lexicon[words[k]] : k \in 1..stage})
    /\ \A i, j \in DOMAIN Written : i < j => Written[i] < Written[j]
    /\ ~StreamsEnded => \A i \in DOMAIN Written :
         Written[i] < Head(left) /\ Written[i] < Head(right)

(***************************************************************************)
(* Indexing ends, and every query that was read is answered: no reader     *)
(* stays on a group of records for ever, at the end of a file either.      *)
(***************************************************************************)
QueriesAreAnswered == (pc \notin {"read", "exited"}) ~> (pc = "read")
=============================================================================
