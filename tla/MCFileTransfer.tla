--------------------------- MODULE MCFileTransfer ---------------------------
(***************************************************************************)
(* A small instance of FileTransfer for TLC.                               *)
(***************************************************************************)
EXTENDS FileTransfer

CONSTANTS c1, c2, f1

TwoClients == {c1, c2}
OneName == {f1}

(***************************************************************************)
(* An empty file, one of two blocks that just fits, one that does not.     *)
(***************************************************************************)
SomeSizes == {0, Limit - 1, Limit}
=============================================================================
