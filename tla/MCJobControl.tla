---------------------------- MODULE MCJobControl ----------------------------
(***************************************************************************)
(* Small instances of JobControl for TLC.                                  *)
(***************************************************************************)
EXTENDS JobControl, TLC

CONSTANTS j1, j2

TwoJobs == {j1, j2}
OneJob == {j1}
OnePair == j1 :> {1, 2}
PairAndSingle == j1 :> {2, 3} @@ j2 :> {1}
=============================================================================
