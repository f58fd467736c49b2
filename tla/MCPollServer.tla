---------------------------- MODULE MCPollServer ----------------------------
(***************************************************************************)
(* Small instances of PollServer for TLC.                                  *)
(***************************************************************************)
EXTENDS PollServer, TLC

CONSTANTS f1, f2, f3, u1

TwoFds == {f1, f2}
ThreeFds == {f1, f2, f3}
OneUser == {u1}
NoUsers == {}

NoInput == {}
AnyInput == {"command", "chatter", "hangup"}

FdSymmetry == Permutations(Fds)

(***************************************************************************)
(* Bound: the server is not stopping, and one connection at a time has a   *)
(* request under way or a client that is gone while its descriptor is not  *)
(* closed yet.  Meanwhile the workers may be serving others, whose         *)
(* requests they have read, and removing the entries of others, whose      *)
(* descriptors they have closed.                                           *)
(***************************************************************************)
FewAtATime ==
  /\ ~sigint
  /\ Cardinality({f \in Fds : inbox[f] # "empty" \/ peer[f] # "here"}) <= 1
=============================================================================
