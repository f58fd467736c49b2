\* Two clients that send files of the same name, one block of growth.
CONSTANTS
  c1 = c1  c2 = c2
  f1 = f1
  NoClient = NoClient
  NoName = NoName
  Clients <- TwoClients
  Names <- OneName
  Sizes <- SomeSizes
  MaxLine = 2
  Limit = 4
  MaxSize = 4
  Buffer = 2
SPECIFICATION FairSpec
INVARIANTS CopiesAreNotMixed FinishedCopiesAreWhole LimitsAgree
PROPERTY TransfersEnd
