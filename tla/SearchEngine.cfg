\* Texts of up to three of five lines, with and without a last newline.
CONSTANTS
  a = a
  b = b
  c = c
  d = d
  A = A
  space = space
  tab = tab
  Newline = Newline
  Quote = Quote
  Star = Star
  NoQuery = NoQuery
  Chars <- AllChars
  Separators <- Spaces
  Lower <- ToLower
  Hash <- HashOf
  OccBuckets = 2
  QueryLimit = 7
  Texts <- SomeTexts
  Queries <- SomeQueries
SPECIFICATION Spec
INVARIANTS AnswersAreRight StoresAreExact MergeLosesNothing
PROPERTIES QueriesAreAnswered
