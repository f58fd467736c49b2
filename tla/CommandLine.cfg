SPECIFICATION FairSpec
CONSTANTS
  ShortLength = 4
  Lines <- SomeLines
  Quoted = {"'q'"}
  Builtins = {"cd"}
  Sources = {"echo"}
  Copiers = {"cat"}
  Heads = {"head"}
  Openable = {"f"}
  MaxTokens = 12
  PipeCapacity = 1
  Amount = 2
  MaxPipelines = 3
  MaxCommands = 3
INVARIANTS ParsedAsWritten PlumbingIsRight
PROPERTY LinesEnd
