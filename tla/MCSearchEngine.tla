--------------------------- MODULE MCSearchEngine ---------------------------
(***************************************************************************)
(* A small instance of SearchEngine for TLC: texts of up to three lines,   *)
(* and queries of every kind.                                              *)
(***************************************************************************)
EXTENDS SearchEngine, TLC

CONSTANTS a, b, c, d, A, space, tab

AllChars == {a, b, c, d, A, space, tab, Newline, Quote, Star}
Spaces == {space, tab}
ToLower == [x \in AllChars |-> IF x = A THEN a ELSE x]

(***************************************************************************)
(* Words that begin and end alike, so that some of one length collide.     *)
(***************************************************************************)
HashOf(word) == Len(word) + (IF Head(word) \in {a, b} THEN 0 ELSE 1)

ShortLine == <<c, tab, A, space, a, b>>
LongLine == <<a, space, b, space, c, space, d>>
SpacedLine == <<space, b, a, space, space, b>>
RepeatingLine == <<b, space, a, space, b, space, A, space, b, space>>

(***************************************************************************)
(* Up to three lines out of four, and three other texts; each with and     *)
(* without a newline at the end.                                           *)
(***************************************************************************)
SomeLines ==
  BoundedSeq({<<>>, ShortLine, LongLine, RepeatingLine}, 3)
    \cup {<<LongLine, SpacedLine, <<>>, RepeatingLine, LongLine>>,
          <<RepeatingLine, LongLine, ShortLine, LongLine, ShortLine>>,
          <<<<d, space, c>>, <<a, space, b>>>>}
Joined(ls) == FlattenSeq([i \in DOMAIN ls |-> Append(ls[i], Newline)])
Files == {Joined(ls) : ls \in SomeLines}
SomeTexts == Files \cup {Front(f) : f \in Files \ {<<>>}}

(***************************************************************************)
(* Queries of one, two and four words, with unknown and repeated words;    *)
(* phrases and patterns, among them malformed ones.                        *)
(***************************************************************************)
SomeQueries == {
  <<>>, <<space>>,
  <<space, a, b, tab>>, <<d, d>>,
  <<a, space, A>>, <<b, space, a>>, <<a, tab, b, space, c>>,
  <<d, space, c, space, a, space, b>>, <<a, space, d, d>>,
  <<Quote, a, space, b, Quote>>, <<Quote, b, space, a, space, b, Quote>>,
  <<Quote, a, Quote, space>>, <<Quote, Quote>>,
  <<a, Star, b>>, <<b, Star, b>>, <<c, Star, a, b>>, <<a, Star, space, b>>, <<Star, b>>}
=============================================================================
