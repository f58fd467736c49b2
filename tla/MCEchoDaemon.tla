---------------------------- MODULE MCEchoDaemon ----------------------------
(***************************************************************************)
(* A small instance of EchoDaemon for TLC.                                 *)
(***************************************************************************)
EXTENDS EchoDaemon

CONSTANTS p1, p2, c1, c2

TwoPids == {p1, p2}
TwoClients == {c1, c2}
SecondClient == {c2}
ThreeInodes == 1..3
=============================================================================
