--------------------------- MODULE MCCommandLine ---------------------------
(***************************************************************************)
(* Lines for TLC: all short ones, and longer ones with pipes, files and    *)
(* pipelines that run side by side.                                        *)
(***************************************************************************)
EXTENDS CommandLine

CONSTANT ShortLength

Items == {"echo", "cat", "f", "|", "<", ">", "&", ";"}

ShortLines == UNION {[1..n -> Items] : n \in 1..ShortLength}

LongLines == {
  <<"echo", "|", "cat", "|", "cat">>,
  <<"echo", "|", "head", "|", "cat">>,
  <<"echo", "|", "cat", "|", "head", ">", "f">>,
  <<"echo", "|", "head", "<", "f", "|", "cat">>,
  <<"echo", ">", "f", "|", "cat", "|", "head">>,
  <<"echo", "|", "cat", "<", "bad", "|", "cat">>,
  <<"echo", "|", "cd", "|", "cat">>,
  <<"echo", "|", "cat", "&", ";", "cat", "<", "f", "|", "head">>,
  <<"cat", "<", "f", "|", "cat", "&", ";", "echo", "|", "cat", ">>", "f">>,
  <<"cd", "<", "f", ">", "bad", ";", "echo", "|", "cat">>,
  <<"cd", "<", "f", ">", "f", ";", ";", "echo", "'q'", "|", "cat">>,
  <<"echo", "&", "|", "cat", ">>", "f", "'q'">>,
  <<"'q'", "|", "cat">>, <<"cd", "<", "bad", ";", "echo">>,
  <<"echo", ">", "'q'", "|", "|", "cat">>, <<"cat", "<", "f", "<", "bad">>,
  <<"echo", ">>", "f", ";", "&", ";", "cat", "<", "f">>,
  <<"echo", "f", "f", "f", "f", "f", "f", "f", "f", "f", "f", "f">> }

SomeLines == ShortLines \cup LongLines
=============================================================================
