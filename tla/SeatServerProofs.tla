-------------------------- MODULE SeatServerProofs --------------------------
(***************************************************************************)
(* Theorems about SeatServer, for any number of workers, connections,      *)
(* users and seats; and, in the last part, about SeatClients, for any      *)
(* number of clients: the handlers behave in the company of the clients as *)
(* they do alone, and what a client believes of its session is true.       *)
(***************************************************************************)
EXTENDS SeatClients, TLAPS

LockActions == SeatActions \cup {"LOGIN", "LOGOUT", "DROP"}
UserPhase == {"array"} \cup ArrayLabels \cup UserLabels
SeatPhase == {"seat"} \cup SeatLabels

(***************************************************************************)
(* What the locals of worker w say at each program point: whose request it *)
(* serves, and what the checks it has passed established.                  *)
(***************************************************************************)
Frame(w) ==
  /\ pc[w] # "poll" => conn[w] \in Conns /\ owner[conn[w]] = w
  /\ pc[w] = "dispatch" => Action(w) \in ClientActions
  /\ pc[w] \in UserPhase \cup {"save", "clear"} =>
       User(w) \in Users /\ Action(w) \in LockActions
  /\ pc[w] \in {"register", "enroll", "grant", "save"} => Action(w) = "LOGIN"
  /\ pc[w] = "clear" => Action(w) \in {"LOGOUT", "DROP"} /\ Slot(w) = User(w)
  /\ Action(w) = "LOGIN" /\ pc[w] \in UserPhase \cup {"save"} =>
       Slot(w) = NoUser
  /\ Action(w) = "DROP" =>
       /\ pc[w] \in {"array", "find", "user", "checking", "clear"}
       /\ Slot(w) = User(w)
  /\ pc[w] \in SeatPhase =>
       /\ Action(w) \in SeatActions \cup {"QUERY"}
       /\ Seat(w) \in Seats
  /\ Action(w) \in SeatActions /\ pc[w] \in UserPhase \cup SeatPhase =>
       Slot(w) = User(w) /\ User(w) \in Users
  /\ Action(w) \in {"BOOK", "CANCEL_BOOKING"} /\ pc[w] \in UserPhase =>
       req[w].data \in Seats
  /\ pc[w] = "take" => Action(w) = "BOOK"
  /\ pc[w] = "release" => Action(w) = "CANCEL_BOOKING"
  /\ pc[w] = "copy" => Action(w) = "QUERY"

FrameInv == \A w \in Workers : Frame(w)

(***************************************************************************)
(* A step of worker w leaves the frames of the others and the connections  *)
(* they own alone.                                                         *)
(***************************************************************************)
StepOf(w) ==
  /\ \A v \in Workers \ {w} :
       /\ pc'[v] = pc[v]
       /\ conn'[v] = conn[v]
       /\ req'[v] = req[v]
       /\ scan'[v] = scan[v]
  /\ \A c \in Conns :
       owner[c] \in Workers \ {w} => owner'[c] = owner[c] /\ slot'[c] = slot[c]

(***************************************************************************)
(* The frames of the other workers survive such a step.                    *)
(***************************************************************************)
LEMMA OthersKeepFrame ==
  ASSUME TypeOK, FrameInv, NEW w \in Workers, StepOf(w)
  PROVE  \A v \in Workers \ {w} : Frame(v)'
<1> TAKE v \in Workers \ {w}
<1>1. Frame(v)
  BY DEF FrameInv
<1>2. /\ pc'[v] = pc[v]
      /\ conn'[v] = conn[v]
      /\ req'[v] = req[v]
      /\ scan'[v] = scan[v]
  BY DEF StepOf
<1>3. pc[v] # "poll" => owner'[conn[v]] = v /\ slot'[conn[v]] = slot[conn[v]]
  BY <1>1 DEF Frame, StepOf
<1>4. Action(v)' = Action(v) /\ User(v)' = User(v) /\ Seat(v)' = Seat(v)
  BY <1>2 DEF Action, User, Seat
<1>5. pc[v] # "poll" => Slot(v)' = Slot(v)
  BY <1>2, <1>3 DEF Slot
<1>6. pc[v] = "poll" => Action(v) # "DROP"
  BY <1>1 DEF Frame
<1> QED
  BY <1>1, <1>2, <1>3, <1>4, <1>5, <1>6
  DEF Frame, UserPhase, SeatPhase, ArrayLabels, UserLabels, SeatLabels

(***************************************************************************)
(* The fields of the request a worker has.                                 *)
(***************************************************************************)
LEMMA RequestFields ==
  ASSUME TypeOK, NEW w \in Workers
  PROVE  User(w) \in Users \cup {NoUser} /\ req[w].data \in Data
BY DEF TypeOK, User, Request, NoRequest, DropRequest, Data

(***************************************************************************)
(* The initial state.                                                      *)
(***************************************************************************)
LEMMA InitFrame == Init => TypeOK /\ FrameInv
<1> SUFFICES ASSUME Init PROVE TypeOK /\ FrameInv
  OBVIOUS
<1>1. TypeOK
  BY ServerAssumption
  DEF Init, TypeOK, Data, Labels, PollLabel, Codes, NoRequest, NoStats, Seats
<1>2. FrameInv
  BY DEF Init, FrameInv, Frame, UserPhase, SeatPhase, ArrayLabels, UserLabels,
         SeatLabels, Action, NoRequest, SeatActions
<1> QED
  BY <1>1, <1>2

(***************************************************************************)
(* A worker that is done has well-typed locals again.                      *)
(***************************************************************************)
LEMMA FinishTypes ==
  ASSUME TypeOK, NEW w \in Workers, Finish(w)
  PROVE  /\ pc' \in [Workers -> Labels]
         /\ conn' \in [Workers -> Conns \cup {NoConn}]
         /\ req' \in [Workers -> Request \cup {NoRequest}
                                    \cup {DropRequest(u) : u \in Users}]
         /\ code' \in [Workers -> Codes]
         /\ scan' \in [Workers -> 0..NumSeats]
         /\ selected' \in [Workers -> SUBSET Seats]
         /\ stats' \in [Workers -> [booked : Nat, canceled : Nat]]
<1>1. /\ pc' \in [Workers -> Labels]
      /\ conn' \in [Workers -> Conns \cup {NoConn}]
      /\ code' \in [Workers -> Codes]
  BY DEF TypeOK, Finish, Goto, Labels, PollLabel, Codes
<1>2. req' \in [Workers -> Request \cup {NoRequest}
                             \cup {DropRequest(u) : u \in Users}]
  BY DEF TypeOK, Finish
<1>3. scan' \in [Workers -> 0..NumSeats]
  BY ServerAssumption DEF TypeOK, Finish
<1>4. selected' \in [Workers -> SUBSET Seats]
  BY DEF TypeOK, Finish
<1>5. stats' \in [Workers -> [booked : Nat, canceled : Nat]]
  BY DEF TypeOK, Finish, NoStats
<1> QED
  BY <1>1, <1>2, <1>3, <1>4, <1>5

(***************************************************************************)
(* One step of one worker.                                                 *)
(***************************************************************************)
LEMMA WorkerKeepsFrame ==
  ASSUME TypeOK, FrameInv, NEW w \in Workers, Acquire(w) \/ Proceed(w)
  PROVE  TypeOK' /\ FrameInv' /\ StepOf(w)
<1> USE DEF At, Goto, Answer, Finish, accounts, conns, ledger, locks, frame
<1> USE DEF Codes, NoStats, NoRequest
<1> USE DEF Labels, PollLabel, ArrayLabels, UserLabels, SeatLabels
<1>1. Frame(w) /\ User(w) \in Users \cup {NoUser} /\ req[w].data \in Data
  BY RequestFields DEF FrameInv
<1>2. SUFFICES TypeOK' /\ StepOf(w) /\ Frame(w)'
  BY OthersKeepFrame DEF FrameInv
<1>3. CASE Refuse(w)
  <2>1. TypeOK'
    BY <1>1, <1>3 DEF Refuse, TypeOK, Refusal, DataError, Codes, SeatActions
  <2>2. StepOf(w)
    BY <1>1, <1>3 DEF Refuse, StepOf, TypeOK, Frame, Refusal
  <2>3. Frame(w)'
    BY <1>1, <1>3 DEF Refuse, TypeOK, Frame, UserPhase, SeatPhase,
       LockActions, SeatActions, Action, User, Slot, Seat, Refusal
  <2> QED BY <2>1, <2>2, <2>3
<1>4. CASE Admit(w)
  <2>1. TypeOK'
    BY <1>1, <1>4 DEF Admit, TypeOK, Refusal, DataError, Matches
  <2>2. StepOf(w)
    BY <1>1, <1>4 DEF Admit, StepOf, TypeOK, Frame, Refusal, DataError, Matches
  <2>3. Frame(w)'
    BY <1>1, <1>4, ServerAssumption
    DEF Admit, TypeOK, ClientActions, Frame, UserPhase, SeatPhase,
       LockActions, SeatActions, Action, User, Slot, Seat, Refusal, DataError, Matches
  <2> QED BY <2>1, <2>2, <2>3
<1>5. CASE LockArray(w)
  <2>1. TypeOK'
    BY <1>1, <1>5 DEF LockArray, TypeOK
  <2>2. StepOf(w)
    BY <1>1, <1>5 DEF LockArray, StepOf, TypeOK, Frame
  <2>3. Frame(w)'
    BY <1>1, <1>5 DEF LockArray, TypeOK, Frame, UserPhase, SeatPhase,
       LockActions, SeatActions, Action, User, Slot, Seat
  <2> QED BY <2>1, <2>2, <2>3
<1>6. CASE UserFound(w)
  <2>1. TypeOK'
    BY <1>1, <1>6 DEF UserFound, TypeOK
  <2>2. StepOf(w)
    BY <1>1, <1>6 DEF UserFound, StepOf, TypeOK, Frame
  <2>3. Frame(w)'
    BY <1>1, <1>6 DEF UserFound, TypeOK, Frame, UserPhase, SeatPhase,
       LockActions, SeatActions, Action, User, Slot, Seat
  <2> QED BY <2>1, <2>2, <2>3
<1>7. CASE UserMissing(w)
  <2>1. TypeOK'
    BY <1>1, <1>7 DEF UserMissing, TypeOK
  <2>2. StepOf(w)
    BY <1>1, <1>7 DEF UserMissing, StepOf, TypeOK, Frame
  <2>3. Frame(w)'
    BY <1>1, <1>7 DEF UserMissing, TypeOK, Frame, UserPhase, SeatPhase,
       LockActions, SeatActions, Action, User, Slot, Seat
  <2> QED BY <2>1, <2>2, <2>3
<1>8. CASE Register(w)
  <2>1. TypeOK'
    BY <1>1, <1>8 DEF Register, TypeOK
  <2>2. StepOf(w)
    BY <1>1, <1>8 DEF Register, StepOf, TypeOK, Frame
  <2>3. Frame(w)'
    BY <1>1, <1>8 DEF Register, TypeOK, Frame, UserPhase, SeatPhase,
       LockActions, SeatActions, Action, User, Slot, Seat
  <2> QED BY <2>1, <2>2, <2>3
<1>9. CASE Enroll(w)
  <2>1. TypeOK'
    BY <1>1, <1>9 DEF Enroll, TypeOK
  <2>2. StepOf(w)
    BY <1>1, <1>9 DEF Enroll, StepOf, TypeOK, Frame
  <2>3. Frame(w)'
    BY <1>1, <1>9 DEF Enroll, TypeOK, Frame, UserPhase, SeatPhase,
       LockActions, SeatActions, Action, User, Slot, Seat
  <2> QED BY <2>1, <2>2, <2>3
<1>10. CASE LockUser(w)
  <2>1. TypeOK'
    BY <1>1, <1>10 DEF LockUser, TypeOK
  <2>2. StepOf(w)
    BY <1>1, <1>10 DEF LockUser, StepOf, TypeOK, Frame
  <2>3. Frame(w)'
    BY <1>1, <1>10 DEF LockUser, TypeOK, Frame, UserPhase, SeatPhase,
       LockActions, SeatActions, Action, User, Slot, Seat
  <2> QED BY <2>1, <2>2, <2>3
<1>11. CASE RefuseUser(w)
  <2>1. TypeOK'
    BY <1>1, <1>11 DEF RefuseUser, TypeOK, UserError, ReleaseUser
  <2>2. StepOf(w)
    BY <1>1, <1>11 DEF RefuseUser, StepOf, TypeOK, Frame, UserError, ReleaseUser
  <2>3. Frame(w)'
    BY <1>1, <1>11 DEF RefuseUser, TypeOK, Frame, UserPhase, SeatPhase,
       LockActions, SeatActions, Action, User, Slot, Seat, UserError, Matches, ReleaseUser
  <2> QED BY <2>1, <2>2, <2>3
<1>12. CASE Verified(w)
  <2>1. TypeOK'
    BY <1>1, <1>12 DEF Verified, TypeOK, UserError
  <2>2. StepOf(w)
    BY <1>1, <1>12 DEF Verified, StepOf, TypeOK, Frame, UserError
  <2>3. Frame(w)'
    BY <1>1, <1>12 DEF Verified, TypeOK, Frame, UserPhase, SeatPhase,
       LockActions, SeatActions, Action, User, Slot, Seat, UserError
  <2> QED BY <2>1, <2>2, <2>3
<1>13. CASE Grant(w)
  <2>1. TypeOK'
    BY <1>1, <1>13 DEF Grant, TypeOK, ReleaseUser
  <2>2. StepOf(w)
    BY <1>1, <1>13 DEF Grant, StepOf, TypeOK, Frame, ReleaseUser
  <2>3. Frame(w)'
    BY <1>1, <1>13 DEF Grant, TypeOK, Frame, UserPhase, SeatPhase,
       LockActions, SeatActions, Action, User, Slot, Seat, ReleaseUser
  <2> QED BY <2>1, <2>2, <2>3
<1>14. CASE SaveActiveUser(w)
  <2>1. TypeOK'
    BY <1>1, <1>14 DEF SaveActiveUser, TypeOK
  <2>2. StepOf(w)
    BY <1>1, <1>14 DEF SaveActiveUser, StepOf, TypeOK, Frame
  <2>3. Frame(w)'
    BY <1>1, <1>14 DEF SaveActiveUser, TypeOK, Frame, UserPhase, SeatPhase,
       LockActions, SeatActions, Action, User, Slot, Seat
  <2> QED BY <2>1, <2>2, <2>3
<1>15. CASE Deactivate(w)
  <2>1. TypeOK'
    BY <1>1, <1>15 DEF Deactivate, TypeOK, UserError, ReleaseUser
  <2>2. StepOf(w)
    BY <1>1, <1>15 DEF Deactivate, StepOf, TypeOK, Frame, UserError, ReleaseUser
  <2>3. Frame(w)'
    BY <1>1, <1>15 DEF Deactivate, TypeOK, Frame, UserPhase, SeatPhase,
       LockActions, SeatActions, Action, User, Slot, Seat, UserError, Matches, ReleaseUser
  <2> QED BY <2>1, <2>2, <2>3
<1>16. CASE ClearActiveUser(w)
  <2>1. TypeOK'
    <3>1. CASE Action(w) = "LOGOUT"
      BY <1>1, <1>16, <3>1 DEF ClearActiveUser, TypeOK
    <3>2. CASE Finish(w)
      BY <1>1, <1>16, <3>2, FinishTypes DEF ClearActiveUser, TypeOK
    <3> QED BY <1>16, <3>1, <3>2 DEF ClearActiveUser
  <2>2. StepOf(w)
    BY <1>1, <1>16 DEF ClearActiveUser, StepOf, TypeOK, Frame
  <2>3. Frame(w)'
    BY <1>1, <1>16 DEF ClearActiveUser, TypeOK, Frame, UserPhase, SeatPhase,
       LockActions, SeatActions, Action, User, Slot, Seat
  <2> QED BY <2>1, <2>2, <2>3
<1>17. CASE EnterSeats(w)
  <2>1. TypeOK'
    BY <1>1, <1>17, ServerAssumption DEF EnterSeats, TypeOK, UserError
  <2>2. StepOf(w)
    BY <1>1, <1>17 DEF EnterSeats, StepOf, TypeOK, Frame, UserError
  <2>3. Frame(w)'
    BY <1>1, <1>17, ServerAssumption
    DEF EnterSeats, TypeOK, Frame, UserPhase, SeatPhase,
       LockActions, SeatActions, Action, User, Slot, Seat, Seats, UserError
  <2> QED BY <2>1, <2>2, <2>3
<1>18. CASE LockSeat(w)
  <2>1. TypeOK'
    BY <1>1, <1>18 DEF LockSeat, TypeOK
  <2>2. StepOf(w)
    BY <1>1, <1>18 DEF LockSeat, StepOf, TypeOK, Frame
  <2>3. Frame(w)'
    BY <1>1, <1>18 DEF LockSeat, TypeOK, Frame, UserPhase, SeatPhase,
       LockActions, SeatActions, Action, User, Slot, Seat
  <2> QED BY <2>1, <2>2, <2>3
<1>19. CASE RefuseSeat(w)
  <2>1. TypeOK'
    BY <1>1, <1>19 DEF RefuseSeat, TypeOK, SeatError, ReleaseSeat, ReleaseUser
  <2>2. StepOf(w)
    BY <1>1, <1>19 DEF RefuseSeat, StepOf, TypeOK, Frame, SeatError, ReleaseSeat, ReleaseUser
  <2>3. Frame(w)'
    BY <1>1, <1>19 DEF RefuseSeat, TypeOK, Frame, UserPhase, SeatPhase,
       LockActions, SeatActions, Action, User, Slot, Seat, SeatError, ReleaseSeat, ReleaseUser
  <2> QED BY <2>1, <2>2, <2>3
<1>20. CASE AdmitSeat(w)
  <2>1. TypeOK'
    BY <1>1, <1>20 DEF AdmitSeat, TypeOK, SeatError
  <2>2. StepOf(w)
    BY <1>1, <1>20 DEF AdmitSeat, StepOf, TypeOK, Frame, SeatError
  <2>3. Frame(w)'
    BY <1>1, <1>20 DEF AdmitSeat, TypeOK, Frame, UserPhase, SeatPhase,
       LockActions, SeatActions, Action, User, Slot, Seat, SeatError
  <2> QED BY <2>1, <2>2, <2>3
<1>21. CASE TakeSeat(w)
  <2>1. TypeOK'
    BY <1>1, <1>21 DEF TakeSeat, TypeOK, ReleaseSeat, ReleaseUser, Frame, SeatPhase
  <2>2. StepOf(w)
    BY <1>1, <1>21 DEF TakeSeat, StepOf, TypeOK, Frame, ReleaseSeat, ReleaseUser
  <2>3. Frame(w)'
    BY <1>1, <1>21 DEF TakeSeat, TypeOK, Frame, UserPhase, SeatPhase,
       LockActions, SeatActions, Action, User, Slot, Seat, ReleaseSeat, ReleaseUser
  <2> QED BY <2>1, <2>2, <2>3
<1>22. CASE GiveUpSeat(w)
  <2>1. TypeOK'
    BY <1>1, <1>22 DEF GiveUpSeat, TypeOK, ReleaseSeat, ReleaseUser, Frame, SeatPhase
  <2>2. StepOf(w)
    BY <1>1, <1>22 DEF GiveUpSeat, StepOf, TypeOK, Frame, ReleaseSeat, ReleaseUser
  <2>3. Frame(w)'
    BY <1>1, <1>22 DEF GiveUpSeat, TypeOK, Frame, UserPhase, SeatPhase,
       LockActions, SeatActions, Action, User, Slot, Seat, ReleaseSeat, ReleaseUser
  <2> QED BY <2>1, <2>2, <2>3
<1>23. CASE ScanSeat(w)
  <2>1. TypeOK'
    <3>1. selected' \in [Workers -> SUBSET Seats]
      BY <1>1, <1>23 DEF ScanSeat, TypeOK, Frame, SeatPhase
    <3>2. scan' \in [Workers -> 0..NumSeats]
      <4>1. scan \in [Workers -> 0..NumSeats] /\ scan[w] \in 0..NumSeats
        BY DEF TypeOK
      <4>2. CASE scan' = scan
        BY <4>1, <4>2
      <4>3. CASE ~LastSeat(w) /\ scan' = [scan EXCEPT ![w] = @ + 1]
        <5>1. scan[w] + 1 \in 0..NumSeats
          BY <4>1, <4>3, ServerAssumption DEF LastSeat
        <5> QED BY <4>1, <4>3, <5>1
      <4> QED BY <1>23, <4>2, <4>3 DEF ScanSeat
    <3> QED
      BY <1>23, <3>1, <3>2 DEF ScanSeat, TypeOK, ReleaseSeat, ReleaseUser
  <2>2. StepOf(w)
    BY <1>1, <1>23 DEF ScanSeat, StepOf, TypeOK, Frame, ReleaseSeat, ReleaseUser, LastSeat
  <2>3. Frame(w)'
    BY <1>1, <1>23, ServerAssumption
    DEF ScanSeat, TypeOK, Frame, UserPhase, SeatPhase,
       LockActions, SeatActions, Action, User, Slot, Seat, ReleaseSeat, ReleaseUser, LastSeat, Seats
  <2> QED BY <2>1, <2>2, <2>3
<1>24. CASE CopyBooked(w)
  <2>1. TypeOK'
    BY <1>1, <1>24 DEF CopyBooked, TypeOK, Frame, SeatPhase
  <2>2. StepOf(w)
    BY <1>1, <1>24 DEF CopyBooked, StepOf, TypeOK, Frame
  <2>3. Frame(w)'
    BY <1>1, <1>24 DEF CopyBooked, TypeOK, Frame, UserPhase, SeatPhase,
       LockActions, SeatActions, Action, User, Slot, Seat
  <2> QED BY <2>1, <2>2, <2>3
<1>25. CASE CopyCanceled(w)
  <2>1. TypeOK'
    BY <1>1, <1>25 DEF CopyCanceled, TypeOK, ReleaseSeat, Frame, SeatPhase
  <2>2. StepOf(w)
    BY <1>1, <1>25 DEF CopyCanceled, StepOf, TypeOK, Frame, ReleaseSeat
  <2>3. Frame(w)'
    BY <1>1, <1>25 DEF CopyCanceled, TypeOK, Frame, UserPhase, SeatPhase,
       LockActions, SeatActions, Action, User, Slot, Seat, ReleaseSeat
  <2> QED BY <2>1, <2>2, <2>3
<1>26. CASE SendResponse(w)
  <2>1. TypeOK'
    BY <1>26, FinishTypes DEF SendResponse, TypeOK
  <2>2. StepOf(w)
    BY <1>1, <1>26 DEF SendResponse, StepOf, TypeOK, Frame
  <2>3. Frame(w)'
    BY <1>1, <1>26 DEF SendResponse, TypeOK, Frame, UserPhase, SeatPhase,
       LockActions, SeatActions, Action, User, Slot, Seat
  <2> QED BY <2>1, <2>2, <2>3
<1> QED
  BY <1>3, <1>4, <1>5, <1>6, <1>7, <1>8, <1>9, <1>10, <1>11, <1>12, <1>13, <1>14, <1>15, <1>16, <1>17, <1>18, <1>19, <1>20, <1>21, <1>22, <1>23, <1>24, <1>25, <1>26 DEF Acquire, Proceed

(***************************************************************************)
(* The removal of a connection the worker owns, idle or not.               *)
(***************************************************************************)
LEMMA RemovalKeepsFrame ==
  ASSUME TypeOK, FrameInv, NEW w \in Workers, NEW c \in Conns,
         owner[c] = w, RemoveFromPollset(w, c)
  PROVE  TypeOK' /\ FrameInv'
<1> USE DEF accounts, conns, ledger, locks
<1>1. CASE slot[c] = NoUser
  <2>1. /\ Finish(w)
        /\ owner' = [owner EXCEPT ![c] = NoWorker]
        /\ UNCHANGED <<running, accounts, slot, ledger, locks>>
    BY <1>1 DEF RemoveFromPollset
  <2>2. TypeOK'
    BY <2>1, FinishTypes DEF TypeOK
  <2>3. StepOf(w)
    BY <2>1 DEF StepOf, TypeOK, Finish, Goto
  <2>4. Frame(w)'
    BY <2>1 DEF TypeOK, Frame, Finish, Goto, UserPhase, SeatPhase, ArrayLabels,
       UserLabels, SeatLabels, SeatActions, Action, NoRequest
  <2> QED BY <2>2, <2>3, <2>4, OthersKeepFrame DEF FrameInv
<1>2. CASE slot[c] # NoUser
  <2>1. /\ conn' = [conn EXCEPT ![w] = c]
        /\ req' = [req EXCEPT ![w] = DropRequest(slot[c])]
        /\ code' = [code EXCEPT ![w] = "NONE"]
        /\ scan' = [scan EXCEPT ![w] = 0]
        /\ selected' = [selected EXCEPT ![w] = {}]
        /\ stats' = [stats EXCEPT ![w] = NoStats]
        /\ pc' = [pc EXCEPT ![w] = "array"]
        /\ UNCHANGED <<running, accounts, conns, ledger, locks>>
    BY <1>2 DEF RemoveFromPollset, Goto
  <2>2. slot[c] \in Users
    BY <1>2 DEF TypeOK
  <2>3. TypeOK'
    <3>1. req' \in [Workers -> Request \cup {NoRequest}
                                 \cup {DropRequest(u) : u \in Users}]
      BY <2>1, <2>2 DEF TypeOK
    <3>2. scan' \in [Workers -> 0..NumSeats]
      BY <2>1, ServerAssumption DEF TypeOK
    <3>3. stats' \in [Workers -> [booked : Nat, canceled : Nat]]
      BY <2>1 DEF TypeOK, NoStats
    <3> QED
      BY <2>1, <3>1, <3>2, <3>3 DEF TypeOK, Labels, PollLabel, Codes
  <2>4. StepOf(w)
    BY <2>1 DEF StepOf, TypeOK
  <2>5. Frame(w)'
    BY <2>1, <2>2 DEF TypeOK, Frame, UserPhase, SeatPhase, ArrayLabels,
       UserLabels, SeatLabels, SeatActions, LockActions, Action, User, Slot,
       DropRequest
  <2> QED BY <2>3, <2>4, <2>5, OthersKeepFrame DEF FrameInv
<1> QED BY <1>1, <1>2

LEMMA ReceiveKeepsFrame ==
  ASSUME TypeOK, FrameInv, NEW w \in Workers, NEW c \in Conns,
         NEW r \in Requests, ReceiveRequest(w, c, r)
  PROVE  TypeOK' /\ FrameInv'
<1> USE DEF accounts, conns, ledger, locks
<1>1. r \in Request /\ r.action \in ClientActions
  BY ServerAssumption DEF Request
<1>2. TypeOK'
  BY <1>1 DEF ReceiveRequest, Goto, TypeOK, Labels
<1>3. StepOf(w)
  BY DEF ReceiveRequest, Goto, StepOf, TypeOK
<1>4. Frame(w)'
  BY <1>1 DEF ReceiveRequest, Goto, TypeOK, Frame, UserPhase, SeatPhase,
     ArrayLabels, UserLabels, SeatLabels, SeatActions, ClientActions, Action
<1> QED BY <1>2, <1>3, <1>4, OthersKeepFrame DEF FrameInv

LEMMA AcceptKeepsFrame ==
  ASSUME TypeOK, FrameInv, NEW w \in Workers, NEW c \in Conns,
         AddToPollset(c, w)
  PROVE  TypeOK' /\ FrameInv'
<1>1. TypeOK'
  BY DEF AddToPollset, TypeOK, accounts, ledger, locks, frame
<1>2. \A v \in Workers : Frame(v)'
  <2> TAKE v \in Workers
  <2>1. Frame(v)
    BY DEF FrameInv
  <2>2. pc[v] # "poll" => conn[v] # c
    BY <2>1, ServerAssumption DEF Frame, AddToPollset
  <2> QED
    BY <2>1, <2>2 DEF AddToPollset, TypeOK, Frame, UserPhase, SeatPhase, Slot,
       ArrayLabels, UserLabels, SeatLabels, Action, User, Seat, frame
<1> QED BY <1>1, <1>2 DEF FrameInv

LEMMA StutterKeepsFrame ==
  ASSUME TypeOK, FrameInv, UNCHANGED vars
  PROVE  TypeOK' /\ FrameInv'
<1> USE DEF vars, accounts, conns, ledger, locks, frame
<1>1. TypeOK'
  BY DEF TypeOK
<1>2. FrameInv'
  BY DEF FrameInv, Frame, Action, User, Seat, Slot
<1> QED BY <1>1, <1>2

LEMMA NextKeepsFrame == TypeOK /\ FrameInv /\ [Next]_vars => TypeOK' /\ FrameInv'
<1> SUFFICES ASSUME TypeOK, FrameInv, [Next]_vars PROVE TypeOK' /\ FrameInv'
  OBVIOUS
<1>1. ASSUME NEW c \in Conns, NEW w \in Workers, AddToPollset(c, w)
      PROVE  TypeOK' /\ FrameInv'
  BY <1>1, AcceptKeepsFrame
<1>2. ASSUME NEW c \in Conns, NEW w \in Workers, Hangup(w, c)
      PROVE  TypeOK' /\ FrameInv'
  BY <1>2, RemovalKeepsFrame DEF Hangup
<1>3. ASSUME NEW w \in Workers, NEW c \in Conns, NEW r \in Requests,
             ReceiveRequest(w, c, r)
      PROVE  TypeOK' /\ FrameInv'
  BY <1>3, ReceiveKeepsFrame
<1>4. ASSUME NEW w \in Workers, SendFails(w)
      PROVE  TypeOK' /\ FrameInv'
  <2>1. conn[w] \in Conns /\ owner[conn[w]] = w
    BY <1>4 DEF FrameInv, Frame, SendFails, At
  <2> QED BY <1>4, <2>1, RemovalKeepsFrame DEF SendFails
<1>5. ASSUME NEW w \in Workers, Acquire(w) \/ Proceed(w)
      PROVE  TypeOK' /\ FrameInv'
  BY <1>5, WorkerKeepsFrame
<1>6. CASE UNCHANGED vars
  BY <1>6, StutterKeepsFrame
<1> QED
  BY <1>1, <1>2, <1>3, <1>4, <1>5, <1>6 DEF Next, Environment, Exited

(***************************************************************************)
(* Type correctness: every variable of the handlers stays in its type, in  *)
(* particular confirm-booking never indexes past the last seat.            *)
(***************************************************************************)
THEOREM TypeCorrect == Spec => []TypeOK
<1>1. Init => TypeOK /\ FrameInv
  BY InitFrame
<1>2. TypeOK /\ FrameInv /\ [Next]_vars => (TypeOK /\ FrameInv)'
  BY NextKeepsFrame
<1> QED BY <1>1, <1>2, PTL DEF Spec

-----------------------------------------------------------------------------
(* Mutexes.                                                                *)

HoldsUser(w) ==
  pc[w] \in UserLabels \/ (pc[w] \in SeatPhase /\ Action(w) \in SeatActions)

(***************************************************************************)
(* Who holds which mutex, by program point.  It is mutual exclusion in a   *)
(* form that a step preserves: a mutex has one holder, so at most one      *)
(* worker is at the points where it is held.                               *)
(***************************************************************************)
ArrayHolder == \A w \in Workers : arrayMutex = w <=> pc[w] \in ArrayLabels
UserHolder ==
  \A w \in Workers, u \in Users :
    userMutex[u] = w <=> HoldsUser(w) /\ User(w) = u
SeatHolder ==
  \A w \in Workers, s \in Seats :
    seatMutex[s] = w <=> pc[w] \in SeatLabels /\ Seat(w) = s

LockInv == ArrayHolder /\ UserHolder /\ SeatHolder

(***************************************************************************)
(* Locks have one order, for any number of workers: a worker that waits    *)
(* waits for one that is further along.                                    *)
(***************************************************************************)
LEMMA LocksAreOrdered == TypeOK /\ FrameInv /\ LockInv => NoCircularWait
<1> SUFFICES ASSUME TypeOK, FrameInv, LockInv,
                    NEW w \in Workers, NEW v \in Workers, WaitsFor(w, v)
             PROVE  WaitRank(w) < WaitRank(v)
  BY DEF NoCircularWait
<1>1. Frame(w) /\ Frame(v)
  BY DEF FrameInv
<1>2. CASE pc[w] = "array" /\ arrayMutex = v
  <2>1. pc[v] \in ArrayLabels
    BY <1>2 DEF LockInv, ArrayHolder
  <2> QED BY <1>2, <2>1 DEF WaitRank, ArrayLabels
<1>3. CASE pc[w] \in {"user", "enroll"} /\ userMutex[User(w)] = v
  <2>1. User(w) \in Users
    BY <1>1, <1>3 DEF Frame, UserPhase, ArrayLabels
  <2>2. HoldsUser(v)
    BY <1>3, <2>1 DEF LockInv, UserHolder
  <2> QED BY <1>3, <2>2 DEF WaitRank, HoldsUser, UserLabels, SeatPhase, SeatLabels
<1>4. CASE pc[w] = "seat" /\ seatMutex[Seat(w)] = v
  <2>1. Seat(w) \in Seats
    BY <1>1, <1>4 DEF Frame, SeatPhase
  <2>2. pc[v] \in SeatLabels
    BY <1>4, <2>1 DEF LockInv, SeatHolder
  <2> QED BY <1>4, <2>2 DEF WaitRank, SeatLabels
<1> QED BY <1>2, <1>3, <1>4 DEF WaitsFor

LEMMA WorkerKeepsLocks ==
  ASSUME TypeOK, FrameInv, LockInv, NEW w \in Workers, Acquire(w) \/ Proceed(w)
  PROVE  LockInv'
<1> USE DEF At, Goto, Answer, Finish, accounts, conns, ledger, locks, frame
<1> USE DEF ArrayLabels, UserLabels, SeatLabels, SeatPhase, UserPhase
<1>1. Frame(w) /\ pc \in [Workers -> Labels]
  BY DEF FrameInv, TypeOK
<1>2. SUFFICES ArrayHolder' /\ UserHolder' /\ SeatHolder'
  BY DEF LockInv
<1>3. CASE Refuse(w)
  <2>1. ArrayHolder'
    BY <1>1, <1>3, ServerAssumption DEF Refuse, TypeOK, LockInv, ArrayHolder
  <2>2. UserHolder'
    BY <1>1, <1>3, ServerAssumption
    DEF Refuse, TypeOK, LockInv, UserHolder, HoldsUser, Frame, SeatActions,
        LockActions, Action, User
  <2>3. SeatHolder'
    BY <1>1, <1>3, ServerAssumption
    DEF Refuse, TypeOK, LockInv, SeatHolder, Frame, SeatActions, LockActions,
        Action, User, Seat
  <2> QED BY <2>1, <2>2, <2>3
<1>4. CASE Admit(w)
  <2>1. ArrayHolder'
    BY <1>1, <1>4, ServerAssumption DEF Admit, TypeOK, LockInv, ArrayHolder
  <2>2. UserHolder'
    BY <1>1, <1>4, ServerAssumption
    DEF Admit, TypeOK, LockInv, UserHolder, HoldsUser, Frame, SeatActions,
        LockActions, Action, User
  <2>3. SeatHolder'
    BY <1>1, <1>4, ServerAssumption
    DEF Admit, TypeOK, LockInv, SeatHolder, Frame, SeatActions, LockActions,
        Action, User, Seat
  <2> QED BY <2>1, <2>2, <2>3
<1>5. CASE LockArray(w)
  <2>1. ArrayHolder'
    BY <1>1, <1>5, ServerAssumption DEF LockArray, TypeOK, LockInv, ArrayHolder, Free
  <2>2. UserHolder'
    BY <1>1, <1>5, ServerAssumption
    DEF LockArray, TypeOK, LockInv, UserHolder, HoldsUser, Frame, SeatActions,
        LockActions, Action, User, Free
  <2>3. SeatHolder'
    BY <1>1, <1>5, ServerAssumption
    DEF LockArray, TypeOK, LockInv, SeatHolder, Frame, SeatActions, LockActions,
        Action, User, Seat, Free
  <2> QED BY <2>1, <2>2, <2>3
<1>6. CASE UserFound(w)
  <2>1. ArrayHolder'
    BY <1>1, <1>6, ServerAssumption DEF UserFound, TypeOK, LockInv, ArrayHolder
  <2>2. UserHolder'
    BY <1>1, <1>6, ServerAssumption
    DEF UserFound, TypeOK, LockInv, UserHolder, HoldsUser, Frame, SeatActions,
        LockActions, Action, User
  <2>3. SeatHolder'
    BY <1>1, <1>6, ServerAssumption
    DEF UserFound, TypeOK, LockInv, SeatHolder, Frame, SeatActions, LockActions,
        Action, User, Seat
  <2> QED BY <2>1, <2>2, <2>3
<1>7. CASE UserMissing(w)
  <2>1. ArrayHolder'
    BY <1>1, <1>7, ServerAssumption DEF UserMissing, TypeOK, LockInv, ArrayHolder
  <2>2. UserHolder'
    BY <1>1, <1>7, ServerAssumption
    DEF UserMissing, TypeOK, LockInv, UserHolder, HoldsUser, Frame, SeatActions,
        LockActions, Action, User
  <2>3. SeatHolder'
    BY <1>1, <1>7, ServerAssumption
    DEF UserMissing, TypeOK, LockInv, SeatHolder, Frame, SeatActions, LockActions,
        Action, User, Seat
  <2> QED BY <2>1, <2>2, <2>3
<1>8. CASE Register(w)
  <2>1. /\ pc[w] = "register"
        /\ req' = req /\ scan' = scan
        /\ arrayMutex' = arrayMutex /\ userMutex' = userMutex
        /\ seatMutex' = seatMutex
        /\ \/ pc' = pc
           \/ pc' = [pc EXCEPT ![w] = "enroll"]
    BY <1>8 DEF Register
  <2>2. CASE pc' = pc
    BY <2>1, <2>2 DEF LockInv, ArrayHolder, UserHolder, SeatHolder, HoldsUser,
       Action, User, Seat
  <2>3. CASE pc' = [pc EXCEPT ![w] = "enroll"]
    BY <1>1, <2>1, <2>3 DEF LockInv, ArrayHolder, UserHolder, SeatHolder,
       HoldsUser, Action, User, Seat
  <2> QED BY <2>1, <2>2, <2>3
<1>9. CASE Enroll(w)
  <2>1. ArrayHolder'
    BY <1>1, <1>9, ServerAssumption DEF Enroll, TypeOK, LockInv, ArrayHolder
  <2>2. UserHolder'
    BY <1>1, <1>9, ServerAssumption
    DEF Enroll, TypeOK, LockInv, UserHolder, HoldsUser, Frame, SeatActions,
        LockActions, Action, User
  <2>3. SeatHolder'
    BY <1>1, <1>9, ServerAssumption
    DEF Enroll, TypeOK, LockInv, SeatHolder, Frame, SeatActions, LockActions,
        Action, User, Seat
  <2> QED BY <2>1, <2>2, <2>3
<1>10. CASE LockUser(w)
  <2>1. ArrayHolder'
    BY <1>1, <1>10, ServerAssumption DEF LockUser, TypeOK, LockInv, ArrayHolder, Free
  <2>2. UserHolder'
    BY <1>1, <1>10, ServerAssumption
    DEF LockUser, TypeOK, LockInv, UserHolder, HoldsUser, Frame, SeatActions,
        LockActions, Action, User, Free
  <2>3. SeatHolder'
    BY <1>1, <1>10, ServerAssumption
    DEF LockUser, TypeOK, LockInv, SeatHolder, Frame, SeatActions, LockActions,
        Action, User, Seat, Free
  <2> QED BY <2>1, <2>2, <2>3
<1>11. CASE RefuseUser(w)
  <2>1. ArrayHolder'
    BY <1>1, <1>11, ServerAssumption DEF RefuseUser, TypeOK, LockInv, ArrayHolder, ReleaseUser
  <2>2. UserHolder'
    BY <1>1, <1>11, ServerAssumption
    DEF RefuseUser, TypeOK, LockInv, UserHolder, HoldsUser, Frame, SeatActions,
        LockActions, Action, User, ReleaseUser
  <2>3. SeatHolder'
    BY <1>1, <1>11, ServerAssumption
    DEF RefuseUser, TypeOK, LockInv, SeatHolder, Frame, SeatActions, LockActions,
        Action, User, Seat, ReleaseUser
  <2> QED BY <2>1, <2>2, <2>3
<1>12. CASE Verified(w)
  <2>1. ArrayHolder'
    BY <1>1, <1>12, ServerAssumption DEF Verified, TypeOK, LockInv, ArrayHolder
  <2>2. UserHolder'
    BY <1>1, <1>12, ServerAssumption
    DEF Verified, TypeOK, LockInv, UserHolder, HoldsUser, Frame, SeatActions,
        LockActions, Action, User
  <2>3. SeatHolder'
    BY <1>1, <1>12, ServerAssumption
    DEF Verified, TypeOK, LockInv, SeatHolder, Frame, SeatActions, LockActions,
        Action, User, Seat
  <2> QED BY <2>1, <2>2, <2>3
<1>13. CASE Grant(w)
  <2>1. ArrayHolder'
    BY <1>1, <1>13, ServerAssumption DEF Grant, TypeOK, LockInv, ArrayHolder, ReleaseUser
  <2>2. UserHolder'
    BY <1>1, <1>13, ServerAssumption
    DEF Grant, TypeOK, LockInv, UserHolder, HoldsUser, Frame, SeatActions,
        LockActions, Action, User, ReleaseUser
  <2>3. SeatHolder'
    BY <1>1, <1>13, ServerAssumption
    DEF Grant, TypeOK, LockInv, SeatHolder, Frame, SeatActions, LockActions,
        Action, User, Seat, ReleaseUser
  <2> QED BY <2>1, <2>2, <2>3
<1>14. CASE SaveActiveUser(w)
  <2>1. ArrayHolder'
    BY <1>1, <1>14, ServerAssumption DEF SaveActiveUser, TypeOK, LockInv, ArrayHolder
  <2>2. UserHolder'
    BY <1>1, <1>14, ServerAssumption
    DEF SaveActiveUser, TypeOK, LockInv, UserHolder, HoldsUser, Frame, SeatActions,
        LockActions, Action, User
  <2>3. SeatHolder'
    BY <1>1, <1>14, ServerAssumption
    DEF SaveActiveUser, TypeOK, LockInv, SeatHolder, Frame, SeatActions, LockActions,
        Action, User, Seat
  <2> QED BY <2>1, <2>2, <2>3
<1>15. CASE Deactivate(w)
  <2>1. ArrayHolder'
    BY <1>1, <1>15, ServerAssumption DEF Deactivate, TypeOK, LockInv, ArrayHolder, ReleaseUser
  <2>2. UserHolder'
    BY <1>1, <1>15, ServerAssumption
    DEF Deactivate, TypeOK, LockInv, UserHolder, HoldsUser, Frame, SeatActions,
        LockActions, Action, User, ReleaseUser
  <2>3. SeatHolder'
    BY <1>1, <1>15, ServerAssumption
    DEF Deactivate, TypeOK, LockInv, SeatHolder, Frame, SeatActions, LockActions,
        Action, User, Seat, ReleaseUser
  <2> QED BY <2>1, <2>2, <2>3
<1>16. CASE ClearActiveUser(w)
  <2>1. ArrayHolder'
    BY <1>1, <1>16, ServerAssumption, SMTT(40) DEF ClearActiveUser, TypeOK, LockInv, ArrayHolder
  <2>2. UserHolder'
    BY <1>1, <1>16, ServerAssumption
    DEF ClearActiveUser, TypeOK, LockInv, UserHolder, HoldsUser, Frame, SeatActions,
        LockActions, Action, User
  <2>3. SeatHolder'
    BY <1>1, <1>16, ServerAssumption
    DEF ClearActiveUser, TypeOK, LockInv, SeatHolder, Frame, SeatActions, LockActions,
        Action, User, Seat
  <2> QED BY <2>1, <2>2, <2>3
<1>17. CASE EnterSeats(w)
  <2>1. ArrayHolder'
    BY <1>1, <1>17, ServerAssumption DEF EnterSeats, TypeOK, LockInv, ArrayHolder
  <2>2. UserHolder'
    BY <1>1, <1>17, ServerAssumption
    DEF EnterSeats, TypeOK, LockInv, UserHolder, HoldsUser, Frame, SeatActions,
        LockActions, Action, User
  <2>3. SeatHolder'
    BY <1>1, <1>17, ServerAssumption
    DEF EnterSeats, TypeOK, LockInv, SeatHolder, Frame, SeatActions, LockActions,
        Action, User, Seat
  <2> QED BY <2>1, <2>2, <2>3
<1>18. CASE LockSeat(w)
  <2>1. ArrayHolder'
    BY <1>1, <1>18, ServerAssumption DEF LockSeat, TypeOK, LockInv, ArrayHolder, SeatFree, Free
  <2>2. UserHolder'
    BY <1>1, <1>18, ServerAssumption
    DEF LockSeat, TypeOK, LockInv, UserHolder, HoldsUser, Frame, SeatActions,
        LockActions, Action, User, SeatFree, Free
  <2>3. SeatHolder'
    BY <1>1, <1>18, ServerAssumption
    DEF LockSeat, TypeOK, LockInv, SeatHolder, Frame, SeatActions, LockActions,
        Action, User, Seat, SeatFree, Free
  <2> QED BY <2>1, <2>2, <2>3
<1>19. CASE RefuseSeat(w)
  <2>1. ArrayHolder'
    BY <1>1, <1>19, ServerAssumption DEF RefuseSeat, TypeOK, LockInv, ArrayHolder, ReleaseSeat, ReleaseUser, SeatError
  <2>2. UserHolder'
    BY <1>1, <1>19, ServerAssumption
    DEF RefuseSeat, TypeOK, LockInv, UserHolder, HoldsUser, Frame, SeatActions,
        LockActions, Action, User, ReleaseSeat, ReleaseUser, SeatError
  <2>3. SeatHolder'
    BY <1>1, <1>19, ServerAssumption
    DEF RefuseSeat, TypeOK, LockInv, SeatHolder, Frame, SeatActions, LockActions,
        Action, User, Seat, ReleaseSeat, ReleaseUser, SeatError
  <2> QED BY <2>1, <2>2, <2>3
<1>20. CASE AdmitSeat(w)
  <2>1. ArrayHolder'
    BY <1>1, <1>20, ServerAssumption DEF AdmitSeat, TypeOK, LockInv, ArrayHolder
  <2>2. UserHolder'
    BY <1>1, <1>20, ServerAssumption
    DEF AdmitSeat, TypeOK, LockInv, UserHolder, HoldsUser, Frame, SeatActions,
        LockActions, Action, User
  <2>3. SeatHolder'
    BY <1>1, <1>20, ServerAssumption
    DEF AdmitSeat, TypeOK, LockInv, SeatHolder, Frame, SeatActions, LockActions,
        Action, User, Seat
  <2> QED BY <2>1, <2>2, <2>3
<1>21. CASE TakeSeat(w)
  <2>1. ArrayHolder'
    BY <1>1, <1>21, ServerAssumption DEF TakeSeat, TypeOK, LockInv, ArrayHolder, ReleaseSeat, ReleaseUser
  <2>2. UserHolder'
    BY <1>1, <1>21, ServerAssumption
    DEF TakeSeat, TypeOK, LockInv, UserHolder, HoldsUser, Frame, SeatActions,
        LockActions, Action, User, ReleaseSeat, ReleaseUser
  <2>3. SeatHolder'
    BY <1>1, <1>21, ServerAssumption
    DEF TakeSeat, TypeOK, LockInv, SeatHolder, Frame, SeatActions, LockActions,
        Action, User, Seat, ReleaseSeat, ReleaseUser
  <2> QED BY <2>1, <2>2, <2>3
<1>22. CASE GiveUpSeat(w)
  <2>1. ArrayHolder'
    BY <1>1, <1>22, ServerAssumption DEF GiveUpSeat, TypeOK, LockInv, ArrayHolder, ReleaseSeat, ReleaseUser
  <2>2. UserHolder'
    BY <1>1, <1>22, ServerAssumption
    DEF GiveUpSeat, TypeOK, LockInv, UserHolder, HoldsUser, Frame, SeatActions,
        LockActions, Action, User, ReleaseSeat, ReleaseUser
  <2>3. SeatHolder'
    BY <1>1, <1>22, ServerAssumption
    DEF GiveUpSeat, TypeOK, LockInv, SeatHolder, Frame, SeatActions, LockActions,
        Action, User, Seat, ReleaseSeat, ReleaseUser
  <2> QED BY <2>1, <2>2, <2>3
<1>23. CASE ScanSeat(w)
  <2>1. ArrayHolder'
    BY <1>1, <1>23, ServerAssumption DEF ScanSeat, TypeOK, LockInv, ArrayHolder, ReleaseSeat, ReleaseUser, LastSeat
  <2>2. UserHolder'
    BY <1>1, <1>23, ServerAssumption
    DEF ScanSeat, TypeOK, LockInv, UserHolder, HoldsUser, Frame, SeatActions,
        LockActions, Action, User, ReleaseSeat, ReleaseUser, LastSeat
  <2>3. SeatHolder'
    BY <1>1, <1>23, ServerAssumption
    DEF ScanSeat, TypeOK, LockInv, SeatHolder, Frame, SeatActions, LockActions,
        Action, User, Seat, ReleaseSeat, ReleaseUser, LastSeat
  <2> QED BY <2>1, <2>2, <2>3
<1>24. CASE CopyBooked(w)
  <2>1. ArrayHolder'
    BY <1>1, <1>24, ServerAssumption DEF CopyBooked, TypeOK, LockInv, ArrayHolder
  <2>2. UserHolder'
    BY <1>1, <1>24, ServerAssumption
    DEF CopyBooked, TypeOK, LockInv, UserHolder, HoldsUser, Frame, SeatActions,
        LockActions, Action, User
  <2>3. SeatHolder'
    BY <1>1, <1>24, ServerAssumption
    DEF CopyBooked, TypeOK, LockInv, SeatHolder, Frame, SeatActions, LockActions,
        Action, User, Seat
  <2> QED BY <2>1, <2>2, <2>3
<1>25. CASE CopyCanceled(w)
  <2>1. ArrayHolder'
    BY <1>1, <1>25, ServerAssumption DEF CopyCanceled, TypeOK, LockInv, ArrayHolder, ReleaseSeat
  <2>2. UserHolder'
    BY <1>1, <1>25, ServerAssumption
    DEF CopyCanceled, TypeOK, LockInv, UserHolder, HoldsUser, Frame, SeatActions,
        LockActions, Action, User, ReleaseSeat
  <2>3. SeatHolder'
    BY <1>1, <1>25, ServerAssumption
    DEF CopyCanceled, TypeOK, LockInv, SeatHolder, Frame, SeatActions, LockActions,
        Action, User, Seat, ReleaseSeat
  <2> QED BY <2>1, <2>2, <2>3
<1>26. CASE SendResponse(w)
  <2>1. ArrayHolder'
    BY <1>1, <1>26, ServerAssumption DEF SendResponse, TypeOK, LockInv, ArrayHolder
  <2>2. UserHolder'
    BY <1>1, <1>26, ServerAssumption
    DEF SendResponse, TypeOK, LockInv, UserHolder, HoldsUser, Frame, SeatActions,
        LockActions, Action, User
  <2>3. SeatHolder'
    BY <1>1, <1>26, ServerAssumption
    DEF SendResponse, TypeOK, LockInv, SeatHolder, Frame, SeatActions, LockActions,
        Action, User, Seat
  <2> QED BY <2>1, <2>2, <2>3
<1> QED
  BY <1>3, <1>4, <1>5, <1>6, <1>7, <1>8, <1>9, <1>10, <1>11, <1>12, <1>13, <1>14, <1>15, <1>16, <1>17, <1>18, <1>19, <1>20, <1>21, <1>22, <1>23, <1>24, <1>25, <1>26 DEF Acquire, Proceed

LEMMA EnvironmentKeepsLocks ==
  ASSUME TypeOK, FrameInv, LockInv, Environment
  PROVE  LockInv'
<1> USE DEF accounts, conns, ledger, locks, frame, Finish, Goto
<1> USE DEF ArrayLabels, UserLabels, SeatLabels, SeatPhase
<1> USE DEF LockInv, ArrayHolder, UserHolder, SeatHolder, HoldsUser
<1>1. ASSUME NEW c \in Conns, NEW w \in Workers, AddToPollset(c, w)
      PROVE  LockInv'
  BY <1>1 DEF AddToPollset, Action, User, Seat
<1>2. ASSUME NEW w \in Workers, NEW c \in Conns, RemoveFromPollset(w, c),
             pc[w] \in {"poll", "reply"}
      PROVE  LockInv'
  <2>1. /\ arrayMutex' = arrayMutex
        /\ userMutex' = userMutex
        /\ seatMutex' = seatMutex
        /\ pc'[w] \in {"poll", "array"}
        /\ \A v \in Workers \ {w} :
             pc'[v] = pc[v] /\ req'[v] = req[v] /\ scan'[v] = scan[v]
    BY <1>2 DEF RemoveFromPollset, TypeOK
  <2> QED BY <1>2, <2>1 DEF Action, User, Seat
<1>3. ASSUME NEW w \in Workers, NEW c \in Conns, NEW r \in Requests,
             ReceiveRequest(w, c, r)
      PROVE  LockInv'
  <2>1. /\ arrayMutex' = arrayMutex
        /\ userMutex' = userMutex
        /\ seatMutex' = seatMutex
        /\ pc[w] = "poll" /\ pc'[w] = "dispatch"
        /\ \A v \in Workers \ {w} :
             pc'[v] = pc[v] /\ req'[v] = req[v] /\ scan'[v] = scan[v]
    BY <1>3 DEF ReceiveRequest, TypeOK, At
  <2> QED BY <2>1 DEF Action, User, Seat
<1>4. ASSUME NEW w \in Workers, SendFails(w)
      PROVE  conn[w] \in Conns /\ pc[w] = "reply"
  BY <1>4 DEF SendFails, At, FrameInv, Frame
<1> QED
  BY <1>1, <1>2, <1>3, <1>4 DEF Environment, Hangup, SendFails, At

LEMMA NextKeepsLocks == TypeOK /\ FrameInv /\ LockInv /\ [Next]_vars => LockInv'
<1> SUFFICES ASSUME TypeOK, FrameInv, LockInv, [Next]_vars PROVE LockInv'
  OBVIOUS
<1>1. CASE UNCHANGED vars
  BY <1>1 DEF vars, locks, frame, LockInv, ArrayHolder, UserHolder, SeatHolder,
     HoldsUser, Action, User, Seat
<1> QED
  BY <1>1, WorkerKeepsLocks, EnvironmentKeepsLocks DEF Next, Exited

LEMMA InitLocks == Init => LockInv
BY ServerAssumption
DEF Init, LockInv, ArrayHolder, UserHolder, SeatHolder, HoldsUser, ArrayLabels,
    UserLabels, SeatLabels, SeatPhase

(***************************************************************************)
(* No cycle of workers ever waits for one another's mutexes.               *)
(***************************************************************************)
THEOREM DeadlockFree == Spec => []NoCircularWait
<1> DEFINE IInv == TypeOK /\ FrameInv /\ LockInv
<1>1. Init => IInv
  BY InitFrame, InitLocks
<1>2. IInv /\ [Next]_vars => IInv'
  BY NextKeepsFrame, NextKeepsLocks
<1>3. IInv => NoCircularWait
  BY LocksAreOrdered
<1> QED BY <1>1, <1>2, <1>3, PTL DEF Spec

-----------------------------------------------------------------------------
(* Sessions.                                                               *)

(***************************************************************************)
(* What is known of accounts: who is registered, and that a login which    *)
(* has passed its checks is about a user who is not logged in.             *)
(***************************************************************************)
AccountFrame(w) ==
  /\ Action(w) = "LOGIN" /\ pc[w] \in UserPhase => req[w].data # NoData
  /\ pc[w] \in {"user", "enroll", "save"} \cup UserLabels => Registered(User(w))
  /\ pc[w] = "register" => ~Registered(User(w))
  /\ pc[w] = "enroll" => userMutex[User(w)] = NoWorker
  /\ pc[w] \in {"grant", "enroll"} => ~loggedIn[User(w)]

AccountInv ==
  /\ \A w \in Workers : AccountFrame(w)
  /\ \A u \in Users : loggedIn[u] => Registered(u)
  /\ \A c \in Conns :
       /\ slot[c] # NoUser => Registered(slot[c])
       /\ owner[c] = NoWorker => slot[c] = NoUser

SessionInv == OneSessionPerUser /\ LoggedInMatchesSessions

(***************************************************************************)
(* A step of worker w that enters or leaves neither of the two windows in  *)
(* which the slot of a connection lags behind moves no session.            *)
(***************************************************************************)
LEMMA SameSessions ==
  ASSUME TypeOK, FrameInv, NEW w \in Workers, StepOf(w),
         owner' = owner, slot' = slot,
         pc[w] \notin {"save", "clear"}, pc'[w] \notin {"save", "clear"}
  PROVE  \A c \in Conns : Session(c)' = Session(c)
<1> TAKE c \in Conns
<1>1. CASE owner[c] = w
  BY <1>1 DEF Session
<1>2. CASE owner[c] # w
  BY <1>2 DEF Session, StepOf, User
<1> QED BY <1>1, <1>2

LEMMA SameSessionInv ==
  ASSUME SessionInv, \A c \in Conns : Session(c)' = Session(c),
         loggedIn' = loggedIn
  PROVE  SessionInv'
BY DEF SessionInv, OneSessionPerUser, LoggedInMatchesSessions

(***************************************************************************)
(* The session of the connection worker w serves changes, no other.        *)
(***************************************************************************)
LEMMA OneSessionMoves ==
  ASSUME TypeOK, FrameInv, NEW w \in Workers, StepOf(w), owner' = owner,
         pc[w] # "poll", conn' = conn, req' = req,
         \A c \in Conns \ {conn[w]} : slot'[c] = slot[c]
  PROVE  \A c \in Conns \ {conn[w]} : Session(c)' = Session(c)
<1> TAKE c \in Conns \ {conn[w]}
<1>1. CASE owner[c] = w
  BY <1>1 DEF Session
<1>2. CASE owner[c] # w
  BY <1>2 DEF Session, StepOf, User
<1> QED BY <1>1, <1>2

LEMMA WorkerKeepsAccounts ==
  ASSUME TypeOK, FrameInv, LockInv, AccountInv, SessionInv,
         NEW w \in Workers, Acquire(w) \/ Proceed(w)
  PROVE  AccountInv'
<1> USE DEF At, Goto, Answer, Finish, accounts, conns, ledger, locks, frame
<1> USE DEF ArrayLabels, UserLabels, SeatLabels, UserPhase, SeatPhase
<1> USE DEF Registered, Action, User
<1>1. Frame(w) /\ pc \in [Workers -> Labels] /\ password \in [Users -> Data]
      /\ loggedIn \in [Users -> BOOLEAN] /\ req[w].data \in Data
  BY RequestFields DEF FrameInv, TypeOK
<1>2. CASE Refuse(w)
  BY <1>1, <1>2, ServerAssumption
  DEF Refuse, TypeOK, AccountInv, AccountFrame, LockInv, ArrayHolder, UserHolder, HoldsUser,
      Frame, FrameInv, SeatActions, LockActions, Slot
<1>3. CASE Admit(w)
  BY <1>1, <1>3, ServerAssumption
  DEF Admit, TypeOK, AccountInv, AccountFrame, LockInv, ArrayHolder, UserHolder, HoldsUser,
      Frame, FrameInv, SeatActions, LockActions, Slot, Refusal, DataError
<1>4. CASE LockArray(w)
  BY <1>1, <1>4, ServerAssumption
  DEF LockArray, TypeOK, AccountInv, AccountFrame, LockInv, ArrayHolder, UserHolder, HoldsUser,
      Frame, FrameInv, SeatActions, LockActions, Slot, Free
<1>5. CASE UserFound(w)
  BY <1>1, <1>5, ServerAssumption
  DEF UserFound, TypeOK, AccountInv, AccountFrame, LockInv, ArrayHolder, UserHolder, HoldsUser,
      Frame, FrameInv, SeatActions, LockActions, Slot
<1>6. CASE UserMissing(w)
  BY <1>1, <1>6, ServerAssumption
  DEF UserMissing, TypeOK, AccountInv, AccountFrame, LockInv, ArrayHolder, UserHolder, HoldsUser,
      Frame, FrameInv, SeatActions, LockActions, Slot
<1>7. CASE Register(w)
  <2> DEFINE u == User(w)
  <2>1. /\ pc[w] = "register" /\ Action(w) = "LOGIN" /\ u \in Users
        /\ ~Registered(u) /\ ~loggedIn[u] /\ req[w].data # NoData
    BY <1>1, <1>7 DEF Register, AccountInv, AccountFrame, Frame
  <2>2. /\ req' = req /\ owner' = owner /\ slot' = slot /\ userMutex' = userMutex
        /\ loggedIn' = loggedIn
    BY <1>1, <1>7, <2>1, ZenonT(60) DEF Register
  <2>3. userMutex[u] = NoWorker
    <3>1. SUFFICES ASSUME NEW v \in Workers, userMutex[u] = v
                   PROVE  FALSE
      BY <2>1 DEF TypeOK
    <3>2. HoldsUser(v) /\ User(v) = u
      BY <2>1, <3>1 DEF LockInv, UserHolder
    <3>3. CASE pc[v] \in UserLabels
      BY <2>1, <3>2, <3>3 DEF AccountInv, AccountFrame
    <3>4. CASE pc[v] \in SeatPhase /\ Action(v) \in SeatActions
      <4>1. Slot(v) = u /\ conn[v] \in Conns
        BY <3>2, <3>4 DEF FrameInv, Frame
      <4>2. u # NoUser
        BY <2>1, ServerAssumption
      <4>3. slot[conn[v]] # NoUser => Registered(slot[conn[v]])
        BY <4>1 DEF AccountInv
      <4> QED BY <2>1, <4>1, <4>2, <4>3 DEF Slot
    <3> QED BY <3>2, <3>3, <3>4 DEF HoldsUser
  <2>4. \A v \in Workers \ {w} : pc[v] \notin ArrayLabels
    BY <2>1 DEF LockInv, ArrayHolder
  <2>5. CASE pc' = pc /\ password' = password
    BY <2>2, <2>5 DEF AccountInv, AccountFrame
  <2>6. CASE /\ pc' = [pc EXCEPT ![w] = "enroll"]
             /\ password' = [password EXCEPT ![u] = req[w].data]
    <3>1. \A x \in Users : password'[x] # NoData <=> Registered(x) \/ x = u
      BY <1>1, <2>1, <2>6
    <3>2. \A c \in Conns :
            /\ slot[c] # NoUser => password'[slot[c]] # NoData
            /\ owner[c] = NoWorker => slot[c] = NoUser
      <4> TAKE c \in Conns
      <4>1. /\ slot[c] # NoUser => Registered(slot[c]) /\ slot[c] \in Users
            /\ owner[c] = NoWorker => slot[c] = NoUser
        BY DEF AccountInv, TypeOK
      <4> QED BY <3>1, <4>1
    <3>3. \A x \in Users : loggedIn[x] => password'[x] # NoData
      BY <3>1 DEF AccountInv
    <3>4. \A v \in Workers \ {w} :
            /\ pc'[v] = pc[v] /\ pc[v] \notin ArrayLabels
            /\ pc[v] \in {"save"} \cup UserLabels =>
                 password'[User(v)] # NoData
      <4> TAKE v \in Workers \ {w}
      <4>1. pc'[v] = pc[v] /\ pc[v] \notin ArrayLabels
        BY <1>1, <2>4, <2>6
      <4>2. pc[v] \in {"save"} \cup UserLabels =>
              User(v) \in Users /\ Registered(User(v))
        BY DEF AccountInv, AccountFrame, FrameInv, Frame
      <4> QED BY <3>1, <4>1, <4>2
    <3>5. pc'[w] = "enroll" /\ password'[u] # NoData
      BY <1>1, <2>1, <2>6, <3>1
    <3> HIDE DEF u
    <3>6. u = req[w].user
      BY DEF u
    <3>7. \A x \in Users : loggedIn'[x] => Registered(x)'
      BY <2>2, <3>3
    <3>8. \A c \in Conns :
            /\ slot'[c] # NoUser => Registered(slot[c])'
            /\ owner'[c] = NoWorker => slot'[c] = NoUser
      BY <2>2, <3>2
    <3>9. ASSUME NEW v \in Workers
          PROVE  AccountFrame(v)'
      <4>1. CASE v = w
        BY <2>1, <2>2, <2>3, <3>5, <3>6, <4>1 DEF AccountFrame
      <4>2. CASE v # w
        BY <2>2, <3>4, <4>2 DEF AccountInv, AccountFrame
      <4> QED BY <4>1, <4>2
    <3> QED
      BY <3>7, <3>8, <3>9 DEF AccountInv
  <2> QED BY <1>7, <2>5, <2>6 DEF Register
<1>8. CASE Enroll(w)
  BY <1>1, <1>8, ServerAssumption
  DEF Enroll, TypeOK, AccountInv, AccountFrame, LockInv, ArrayHolder, UserHolder, HoldsUser,
      Frame, FrameInv, SeatActions, LockActions, Slot, Free
<1>9. CASE LockUser(w)
  BY <1>1, <1>9, ServerAssumption
  DEF LockUser, TypeOK, AccountInv, AccountFrame, LockInv, ArrayHolder, UserHolder, HoldsUser,
      Frame, FrameInv, SeatActions, LockActions, Slot, Free
<1>10. CASE RefuseUser(w)
  BY <1>1, <1>10, ServerAssumption
  DEF RefuseUser, TypeOK, AccountInv, AccountFrame, LockInv, ArrayHolder, UserHolder, HoldsUser,
      Frame, FrameInv, SeatActions, LockActions, Slot, ReleaseUser
<1>11. CASE Verified(w)
  BY <1>1, <1>11, ServerAssumption
  DEF Verified, TypeOK, AccountInv, AccountFrame, LockInv, ArrayHolder, UserHolder, HoldsUser,
      Frame, FrameInv, SeatActions, LockActions, Slot, UserError
<1>12. CASE Grant(w)
  BY <1>1, <1>12, ServerAssumption
  DEF Grant, TypeOK, AccountInv, AccountFrame, LockInv, ArrayHolder, UserHolder, HoldsUser,
      Frame, FrameInv, SeatActions, LockActions, Slot, ReleaseUser
<1>13. CASE SaveActiveUser(w)
  BY <1>1, <1>13, ServerAssumption
  DEF SaveActiveUser, TypeOK, AccountInv, AccountFrame, LockInv, ArrayHolder, UserHolder, HoldsUser,
      Frame, FrameInv, SeatActions, LockActions, Slot
<1>14. CASE Deactivate(w)
  BY <1>1, <1>14, ServerAssumption
  DEF Deactivate, TypeOK, AccountInv, AccountFrame, LockInv, ArrayHolder, UserHolder, HoldsUser,
      Frame, FrameInv, SeatActions, LockActions, Slot, ReleaseUser
<1>15. CASE ClearActiveUser(w)
  BY <1>1, <1>15, ServerAssumption
  DEF ClearActiveUser, TypeOK, AccountInv, AccountFrame, LockInv, ArrayHolder, UserHolder, HoldsUser,
      Frame, FrameInv, SeatActions, LockActions, Slot
<1>16. CASE EnterSeats(w)
  BY <1>1, <1>16, ServerAssumption
  DEF EnterSeats, TypeOK, AccountInv, AccountFrame, LockInv, ArrayHolder, UserHolder, HoldsUser,
      Frame, FrameInv, SeatActions, LockActions, Slot
<1>17. CASE LockSeat(w)
  BY <1>1, <1>17, ServerAssumption
  DEF LockSeat, TypeOK, AccountInv, AccountFrame, LockInv, ArrayHolder, UserHolder, HoldsUser,
      Frame, FrameInv, SeatActions, LockActions, Slot, SeatFree, Free
<1>18. CASE RefuseSeat(w)
  BY <1>1, <1>18, ServerAssumption
  DEF RefuseSeat, TypeOK, AccountInv, AccountFrame, LockInv, ArrayHolder, UserHolder, HoldsUser,
      Frame, FrameInv, SeatActions, LockActions, Slot, ReleaseUser
<1>19. CASE AdmitSeat(w)
  BY <1>1, <1>19, ServerAssumption
  DEF AdmitSeat, TypeOK, AccountInv, AccountFrame, LockInv, ArrayHolder, UserHolder, HoldsUser,
      Frame, FrameInv, SeatActions, LockActions, Slot
<1>20. CASE TakeSeat(w)
  BY <1>1, <1>20, ServerAssumption
  DEF TakeSeat, TypeOK, AccountInv, AccountFrame, LockInv, ArrayHolder, UserHolder, HoldsUser,
      Frame, FrameInv, SeatActions, LockActions, Slot, ReleaseUser
<1>21. CASE GiveUpSeat(w)
  BY <1>1, <1>21, ServerAssumption
  DEF GiveUpSeat, TypeOK, AccountInv, AccountFrame, LockInv, ArrayHolder, UserHolder, HoldsUser,
      Frame, FrameInv, SeatActions, LockActions, Slot, ReleaseUser
<1>22. CASE ScanSeat(w)
  BY <1>1, <1>22, ServerAssumption
  DEF ScanSeat, TypeOK, AccountInv, AccountFrame, LockInv, ArrayHolder, UserHolder, HoldsUser,
      Frame, FrameInv, SeatActions, LockActions, Slot, ReleaseUser
<1>23. CASE CopyBooked(w)
  BY <1>1, <1>23, ServerAssumption
  DEF CopyBooked, TypeOK, AccountInv, AccountFrame, LockInv, ArrayHolder, UserHolder, HoldsUser,
      Frame, FrameInv, SeatActions, LockActions, Slot
<1>24. CASE CopyCanceled(w)
  BY <1>1, <1>24, ServerAssumption
  DEF CopyCanceled, TypeOK, AccountInv, AccountFrame, LockInv, ArrayHolder, UserHolder, HoldsUser,
      Frame, FrameInv, SeatActions, LockActions, Slot
<1>25. CASE SendResponse(w)
  BY <1>1, <1>25, ServerAssumption
  DEF SendResponse, TypeOK, AccountInv, AccountFrame, LockInv, ArrayHolder, UserHolder, HoldsUser,
      Frame, FrameInv, SeatActions, LockActions, Slot
<1> QED
  BY <1>2, <1>3, <1>4, <1>5, <1>6, <1>7, <1>8, <1>9, <1>10, <1>11, <1>12, <1>13, <1>14, <1>15, <1>16, <1>17, <1>18, <1>19, <1>20, <1>21, <1>22, <1>23, <1>24, <1>25 DEF Acquire, Proceed

(***************************************************************************)
(* A session opens for a user nobody acts for, or ends.                    *)
(***************************************************************************)
LEMMA SessionOpens ==
  ASSUME SessionInv, NEW c \in Conns, NEW u \in Users,
         loggedIn \in [Users -> BOOLEAN], ~loggedIn[u],
         loggedIn' = [loggedIn EXCEPT ![u] = TRUE],
         Session(c) = NoUser, Session(c)' = u,
         \A d \in Conns \ {c} : Session(d)' = Session(d)
  PROVE  SessionInv'
<1>1. \A d \in Conns : Session(d) # u
  BY DEF SessionInv, LoggedInMatchesSessions
<1>2. OneSessionPerUser'
  BY <1>1 DEF SessionInv, OneSessionPerUser
<1>3. LoggedInMatchesSessions'
  <2> SUFFICES ASSUME NEW x \in Users
               PROVE  loggedIn'[x] <=> \E d \in Conns : Session(d)' = x
    BY DEF LoggedInMatchesSessions
  <2>1. CASE x = u
    BY <2>1
  <2>2. CASE x # u
    <3>1. loggedIn'[x] <=> \E d \in Conns : Session(d) = x
      BY <2>2 DEF SessionInv, LoggedInMatchesSessions
    <3>2. Session(c) # x
      BY ServerAssumption
    <3> QED BY <2>2, <3>1, <3>2
  <2> QED BY <2>1, <2>2
<1> QED BY <1>2, <1>3 DEF SessionInv

LEMMA SessionEnds ==
  ASSUME SessionInv, NEW c \in Conns, NEW u \in Users,
         loggedIn \in [Users -> BOOLEAN],
         loggedIn' = [loggedIn EXCEPT ![u] = FALSE],
         Session(c) = u, Session(c)' = NoUser,
         \A d \in Conns \ {c} : Session(d)' = Session(d)
  PROVE  SessionInv'
<1>1. u # NoUser
  BY ServerAssumption
<1>2. \A d \in Conns \ {c} : Session(d) # u
  BY <1>1 DEF SessionInv, OneSessionPerUser
<1>3. OneSessionPerUser'
  BY DEF SessionInv, OneSessionPerUser
<1>4. LoggedInMatchesSessions'
  <2> SUFFICES ASSUME NEW x \in Users
               PROVE  loggedIn'[x] <=> \E d \in Conns : Session(d)' = x
    BY DEF LoggedInMatchesSessions
  <2>1. CASE x = u
    <3>1. \A d \in Conns : Session(d)' # u
      BY <1>1, <1>2
    <3> QED BY <2>1, <3>1
  <2>2. CASE x # u
    <3>1. loggedIn'[x] <=> \E d \in Conns : Session(d) = x
      BY <2>2 DEF SessionInv, LoggedInMatchesSessions
    <3>2. Session(c)' # x
      BY ServerAssumption
    <3> QED BY <2>2, <3>1, <3>2
  <2> QED BY <2>1, <2>2
<1> QED BY <1>3, <1>4 DEF SessionInv

(***************************************************************************)
(* The steps of a handler that neither open nor end a session.             *)
(***************************************************************************)
LEMMA QuietSteps ==
  ASSUME TypeOK, FrameInv, LockInv, AccountInv, SessionInv, NEW w \in Workers,
         Acquire(w) \/ Proceed(w),
         ~Enroll(w), ~Grant(w), ~SaveActiveUser(w), ~Deactivate(w),
         ~ClearActiveUser(w)
  PROVE  /\ owner' = owner /\ slot' = slot /\ loggedIn' = loggedIn
         /\ pc[w] \notin {"save", "clear"} /\ pc'[w] \notin {"save", "clear"}
<1> USE DEF At, Goto, Answer, Finish, accounts, conns, ledger, locks, frame
<1>1. Frame(w) /\ AccountFrame(w) /\ pc \in [Workers -> Labels]
      /\ loggedIn \in [Users -> BOOLEAN]
  BY DEF FrameInv, AccountInv, TypeOK
<1>2. CASE Refuse(w)
  BY <1>1, <1>2 DEF Refuse
<1>3. CASE Admit(w)
  BY <1>1, <1>3 DEF Admit
<1>4. CASE LockArray(w)
  BY <1>1, <1>4 DEF LockArray
<1>5. CASE UserFound(w)
  BY <1>1, <1>5 DEF UserFound
<1>6. CASE LockUser(w)
  BY <1>1, <1>6 DEF LockUser
<1>7. CASE RefuseUser(w)
  BY <1>1, <1>7 DEF RefuseUser
<1>8. CASE Verified(w)
  BY <1>1, <1>8 DEF Verified
<1>9. CASE EnterSeats(w)
  BY <1>1, <1>9 DEF EnterSeats
<1>10. CASE LockSeat(w)
  BY <1>1, <1>10 DEF LockSeat
<1>11. CASE RefuseSeat(w)
  BY <1>1, <1>11 DEF RefuseSeat
<1>12. CASE AdmitSeat(w)
  BY <1>1, <1>12 DEF AdmitSeat
<1>13. CASE TakeSeat(w)
  BY <1>1, <1>13 DEF TakeSeat
<1>14. CASE GiveUpSeat(w)
  BY <1>1, <1>14 DEF GiveUpSeat
<1>15. CASE ScanSeat(w)
  BY <1>1, <1>15 DEF ScanSeat
<1>16. CASE CopyBooked(w)
  BY <1>1, <1>16 DEF CopyBooked
<1>17. CASE CopyCanceled(w)
  BY <1>1, <1>17 DEF CopyCanceled
<1>18. CASE SendResponse(w)
  BY <1>1, <1>18 DEF SendResponse
<1>19. CASE UserMissing(w)
  <2>1. Action(w) # "DROP"
    <3> SUFFICES ASSUME Action(w) = "DROP" PROVE FALSE
      OBVIOUS
    <3>1. /\ conn[w] \in Conns /\ Slot(w) = User(w) /\ User(w) \in Users
          /\ ~Registered(User(w))
      BY <1>1, <1>19 DEF UserMissing, Frame, ArrayLabels, UserPhase
    <3>2. slot[conn[w]] # NoUser => Registered(slot[conn[w]])
      BY <3>1 DEF AccountInv
    <3> QED BY <3>1, <3>2, ServerAssumption DEF Slot
  <2> QED BY <1>1, <1>19, <2>1 DEF UserMissing
<1>20. CASE Register(w)
  <2>1. ~loggedIn[User(w)] /\ User(w) \in Users /\ pc[w] = "register"
    BY <1>1, <1>20 DEF Register, AccountFrame, AccountInv, Frame, UserPhase,
       ArrayLabels
  <2>2. loggedIn' = loggedIn
    <3>1. loggedIn' = [loggedIn EXCEPT ![User(w)] = FALSE] \/ loggedIn' = loggedIn
      BY <1>20 DEF Register
    <3>2. loggedIn[User(w)] = FALSE
      BY <1>1, <2>1
    <3> QED BY <1>1, <3>1, <3>2
  <2>3. /\ owner' = owner /\ slot' = slot
        /\ pc' = pc \/ pc' = [pc EXCEPT ![w] = "enroll"]
    BY <1>20 DEF Register
  <2> QED BY <1>1, <2>1, <2>2, <2>3
<1> QED
  BY <1>2, <1>3, <1>4, <1>5, <1>6, <1>7, <1>8, <1>9, <1>10, <1>11, <1>12, <1>13, <1>14, <1>15, <1>16, <1>17, <1>18, <1>19, <1>20 DEF Acquire, Proceed

(***************************************************************************)
(* What becomes of the sessions: worker w opens the session of user u on   *)
(* connection c, ends it, or moves no session.                             *)
(***************************************************************************)
Opens(w, c, u) ==
  /\ Enroll(w) \/ Grant(w)
  /\ Registered(u) /\ ~loggedIn[u]
  /\ loggedIn' = [loggedIn EXCEPT ![u] = TRUE]
  /\ Session(c) = NoUser /\ Session(c)' = u
  /\ \A d \in Conns \ {c} : Session(d)' = Session(d)

Ends(w, c, u) ==
  /\ Deactivate(w)
  /\ loggedIn' = [loggedIn EXCEPT ![u] = FALSE]
  /\ Session(c) = u /\ Session(c)' = NoUser
  /\ \A d \in Conns \ {c} : Session(d)' = Session(d)

SessionsStay ==
  loggedIn' = loggedIn /\ \A d \in Conns : Session(d)' = Session(d)

LEMMA WorkerMovesSessions ==
  ASSUME TypeOK, FrameInv, LockInv, AccountInv, SessionInv,
         NEW w \in Workers, Acquire(w) \/ Proceed(w)
  PROVE  \/ SessionsStay
         \/ \E c \in Conns, u \in Users : Opens(w, c, u) \/ Ends(w, c, u)
<1>1. StepOf(w)
  BY WorkerKeepsFrame
<1>2. /\ Frame(w) /\ AccountFrame(w) /\ pc \in [Workers -> Labels]
      /\ loggedIn \in [Users -> BOOLEAN] /\ slot \in [Conns -> Users \cup {NoUser}]
      /\ owner \in [Conns -> Workers \cup {NoWorker}]
  BY DEF FrameInv, AccountInv, TypeOK
<1>3. CASE /\ ~Enroll(w) /\ ~Grant(w) /\ ~SaveActiveUser(w) /\ ~Deactivate(w)
           /\ ~ClearActiveUser(w)
  BY <1>1, <1>3, QuietSteps, SameSessions DEF SessionsStay
<1>4. CASE Enroll(w) \/ Grant(w)
  <2>0. PICK c \in Conns : c = conn[w]
    BY <1>2, <1>4 DEF Enroll, Grant, At, Frame
  <2> USE <2>0
  <2>1. /\ User(w) \in Users /\ c \in Conns /\ owner[c] = w /\ slot[c] = NoUser
        /\ pc[w] \in {"enroll", "grant"} /\ ~loggedIn[User(w)]
        /\ Registered(User(w))
    BY <1>2, <1>4 DEF Enroll, Grant, At, Frame, AccountFrame, UserPhase,
       ArrayLabels, UserLabels, Slot
  <2>2. /\ owner' = owner /\ slot' = slot /\ conn' = conn /\ req' = req
        /\ pc'[w] = "save" /\ loggedIn' = [loggedIn EXCEPT ![User(w)] = TRUE]
    BY <1>2, <1>4 DEF Enroll, Grant, Goto, conns, frame
  <2>3. Session(c) = NoUser /\ Session(c)' = User(w)
    BY <2>1, <2>2 DEF Session, User
  <2>4. \A d \in Conns \ {c} : Session(d)' = Session(d)
    BY <1>1, <2>1, <2>2, OneSessionMoves
  <2> QED BY <1>4, <2>1, <2>2, <2>3, <2>4 DEF Opens
<1>5. CASE Deactivate(w)
  <2>0. PICK c \in Conns : c = conn[w]
    BY <1>2, <1>5 DEF Deactivate, At, Frame
  <2> USE <2>0
  <2>1. /\ User(w) \in Users /\ c \in Conns /\ owner[c] = w
        /\ slot[c] = User(w) /\ pc[w] = "checking"
    BY <1>2, <1>5 DEF Deactivate, At, Frame, UserPhase, UserLabels, Slot,
       UserError, SeatActions, Matches
  <2>2. /\ owner' = owner /\ slot' = slot /\ conn' = conn /\ req' = req
        /\ pc'[w] = "clear" /\ loggedIn' = [loggedIn EXCEPT ![User(w)] = FALSE]
    BY <1>2, <1>5 DEF Deactivate, Goto, conns, frame
  <2>3. Session(c) = User(w) /\ Session(c)' = NoUser
    BY <2>1, <2>2 DEF Session
  <2>4. \A d \in Conns \ {c} : Session(d)' = Session(d)
    BY <1>1, <2>1, <2>2, OneSessionMoves
  <2> QED BY <1>5, <2>1, <2>2, <2>3, <2>4 DEF Ends
<1>6. CASE SaveActiveUser(w)
  <2>0. PICK c \in Conns : c = conn[w]
    BY <1>2, <1>6 DEF SaveActiveUser, At, Frame
  <2> USE <2>0
  <2>1. c \in Conns /\ owner[c] = w /\ pc[w] = "save"
    BY <1>2, <1>6 DEF SaveActiveUser, At, Frame
  <2>2. /\ owner' = owner /\ conn' = conn /\ req' = req /\ loggedIn' = loggedIn
        /\ pc'[w] = "reply" /\ slot' = [slot EXCEPT ![c] = User(w)]
    BY <1>2, <1>6 DEF SaveActiveUser, Answer, Goto, accounts, frame
  <2>3. Session(c) = User(w) /\ Session(c)' = User(w)
    BY <1>2, <2>1, <2>2 DEF Session
  <2>4. \A d \in Conns \ {c} : slot'[d] = slot[d]
    BY <1>2, <2>2
  <2>5. \A d \in Conns \ {c} : Session(d)' = Session(d)
    BY <1>1, <2>1, <2>2, <2>4, OneSessionMoves
  <2>6. \A d \in Conns : Session(d)' = Session(d)
    BY <2>3, <2>5
  <2> QED BY <2>2, <2>6 DEF SessionsStay
<1>7. CASE ClearActiveUser(w)
  <2>0. PICK c \in Conns : c = conn[w]
    BY <1>2, <1>7 DEF ClearActiveUser, At, Frame
  <2> USE <2>0
  <2>1. c \in Conns /\ owner[c] = w /\ pc[w] = "clear"
    BY <1>2, <1>7 DEF ClearActiveUser, At, Frame
  <2>2. /\ slot' = [slot EXCEPT ![c] = NoUser] /\ loggedIn' = loggedIn
        /\ pc'[w] \in {"reply", "poll"}
        /\ \A d \in Conns \ {c} : owner'[d] = owner[d]
    BY <1>2, <1>7 DEF ClearActiveUser, Answer, Finish, Goto, accounts
  <2>3. Session(c) = NoUser
    BY <2>1 DEF Session
  <2>4. Session(c)' = NoUser
    <3>1. slot'[c] = NoUser /\ (owner'[c] = w \/ owner'[c] = NoWorker)
      BY <1>2, <1>7, <2>1, <2>2 DEF ClearActiveUser
    <3> QED BY <2>2, <3>1, ServerAssumption DEF Session
  <2>5. \A d \in Conns \ {c} : Session(d)' = Session(d)
    <3> TAKE d \in Conns \ {c}
    <3>1. slot'[d] = slot[d] /\ owner'[d] = owner[d]
      BY <1>2, <2>2
    <3>2. CASE owner[d] = w
      BY <2>1, <2>2, <3>1, <3>2 DEF Session
    <3>3. CASE owner[d] # w
      BY <1>1, <3>1, <3>3 DEF Session, StepOf, User
    <3> QED BY <3>2, <3>3
  <2>6. \A d \in Conns : Session(d)' = Session(d)
    BY <2>3, <2>4, <2>5
  <2> QED BY <2>2, <2>6 DEF SessionsStay
<1> QED BY <1>3, <1>4, <1>5, <1>6, <1>7

LEMMA WorkerKeepsSessions ==
  ASSUME TypeOK, FrameInv, LockInv, AccountInv, SessionInv,
         NEW w \in Workers, Acquire(w) \/ Proceed(w)
  PROVE  SessionInv'
<1>1. CASE SessionsStay
  BY <1>1, SameSessionInv DEF SessionsStay
<1>2. ASSUME NEW c \in Conns, NEW u \in Users, Opens(w, c, u)
      PROVE  SessionInv'
  BY <1>2, SessionOpens DEF Opens, TypeOK
<1>3. ASSUME NEW c \in Conns, NEW u \in Users, Ends(w, c, u)
      PROVE  SessionInv'
  BY <1>3, SessionEnds DEF Ends, TypeOK
<1> QED BY <1>1, <1>2, <1>3, WorkerMovesSessions

(***************************************************************************)
(* Connections that come and go, and requests that arrive, do not move the *)
(* session of any connection: one that is closed had none.                 *)
(***************************************************************************)
LEMMA RemovalKeepsSessions ==
  ASSUME TypeOK, FrameInv, AccountInv, SessionInv,
         NEW w \in Workers, NEW c \in Conns, RemoveFromPollset(w, c),
         owner[c] = w, pc[w] \in {"poll", "reply"}
  PROVE  AccountInv' /\ SessionInv' /\ SessionsStay
<1> USE DEF accounts, conns, ledger, locks, frame, Finish, Goto
<1>1. /\ loggedIn' = loggedIn /\ password' = password /\ slot' = slot
      /\ userMutex' = userMutex
      /\ \A v \in Workers \ {w} :
           pc'[v] = pc[v] /\ req'[v] = req[v] /\ conn'[v] = conn[v]
      /\ pc'[w] \in {"poll", "array"}
      /\ pc'[w] = "array" => Action(w)' = "DROP"
  BY DEF RemoveFromPollset, TypeOK, Action, DropRequest
<1>2. /\ \A d \in Conns \ {c} : owner'[d] = owner[d]
      /\ owner'[c] = w \/ (owner'[c] = NoWorker /\ slot[c] = NoUser)
  BY DEF RemoveFromPollset, TypeOK
<1>3. AccountInv'
  BY <1>1, <1>2
  DEF AccountInv, AccountFrame, UserPhase, UserLabels, ArrayLabels, Registered,
      Action, User
<1>4. \A d \in Conns : Session(d)' = Session(d)
  <2> TAKE d \in Conns
  <2>1. CASE owner[d] = w
    BY <1>1, <1>2, <2>1, ServerAssumption DEF Session
  <2>2. CASE owner[d] # w
    BY <1>1, <1>2, <2>2 DEF Session, User
  <2> QED BY <2>1, <2>2
<1> QED BY <1>1, <1>3, <1>4, SameSessionInv DEF SessionsStay

LEMMA EnvironmentKeepsSessions ==
  ASSUME TypeOK, FrameInv, AccountInv, SessionInv, Environment
  PROVE  AccountInv' /\ SessionInv' /\ SessionsStay
<1>1. ASSUME NEW c \in Conns, NEW w \in Workers, AddToPollset(c, w)
      PROVE  AccountInv' /\ SessionInv' /\ SessionsStay
  <2>1. /\ loggedIn' = loggedIn /\ password' = password /\ userMutex' = userMutex
        /\ pc' = pc /\ req' = req /\ conn' = conn
        /\ owner' = [owner EXCEPT ![c] = w] /\ slot' = [slot EXCEPT ![c] = NoUser]
        /\ owner[c] = NoWorker
    BY <1>1 DEF AddToPollset, accounts, locks, frame
  <2>2. slot' = slot /\ slot[c] = NoUser
    BY <2>1 DEF TypeOK, AccountInv
  <2>3. AccountInv'
    BY <2>1, <2>2, ServerAssumption
    DEF TypeOK, AccountInv, AccountFrame, Registered, Action, User
  <2>4. \A d \in Conns : Session(d)' = Session(d)
    <3> TAKE d \in Conns
    <3>1. CASE d = c
      <4>1. Session(c) = NoUser
        BY <2>1, <2>2, ServerAssumption DEF Session
      <4>2. conn[w] # c \/ pc[w] = "poll"
        BY <2>1, ServerAssumption DEF FrameInv, Frame
      <4>3. Session(c)' = NoUser
        BY <2>1, <2>2, <4>2 DEF TypeOK, Session
      <4> QED BY <3>1, <4>1, <4>3
    <3>2. CASE d # c
      BY <2>1, <2>2, <3>2 DEF TypeOK, Session, User
    <3> QED BY <3>1, <3>2
  <2> QED BY <2>1, <2>3, <2>4, SameSessionInv DEF SessionsStay
<1>2. ASSUME NEW w \in Workers, NEW c \in Conns, Hangup(w, c)
      PROVE  AccountInv' /\ SessionInv' /\ SessionsStay
  BY <1>2, RemovalKeepsSessions DEF Hangup, At
<1>3. ASSUME NEW w \in Workers, NEW c \in Conns, NEW r \in Requests,
             ReceiveRequest(w, c, r)
      PROVE  AccountInv' /\ SessionInv' /\ SessionsStay
  <2>1. /\ loggedIn' = loggedIn /\ password' = password /\ userMutex' = userMutex
        /\ owner' = owner /\ slot' = slot
        /\ pc[w] = "poll" /\ pc'[w] = "dispatch"
        /\ \A v \in Workers \ {w} :
             pc'[v] = pc[v] /\ req'[v] = req[v] /\ conn'[v] = conn[v]
    BY <1>3 DEF ReceiveRequest, TypeOK, At, Goto, accounts, conns, locks
  <2>2. AccountInv'
    BY <2>1
    DEF AccountInv, AccountFrame, UserPhase, UserLabels, ArrayLabels,
        Registered, Action, User
  <2>3. \A d \in Conns : Session(d)' = Session(d)
    BY <2>1 DEF Session, User
  <2> QED BY <2>1, <2>2, <2>3, SameSessionInv DEF SessionsStay
<1>4. ASSUME NEW w \in Workers, SendFails(w)
      PROVE  AccountInv' /\ SessionInv' /\ SessionsStay
  <2>1. PICK c \in Conns : c = conn[w] /\ owner[c] = w /\ pc[w] = "reply"
    BY <1>4 DEF SendFails, At, FrameInv, Frame
  <2>2. RemoveFromPollset(w, c)
    BY <1>4, <2>1 DEF SendFails
  <2> QED BY <2>1, <2>2, RemovalKeepsSessions
<1> QED BY <1>1, <1>2, <1>3, <1>4 DEF Environment

LEMMA NextKeepsSessions ==
  /\ TypeOK /\ FrameInv /\ LockInv /\ AccountInv /\ SessionInv
  /\ [Next]_vars
  => AccountInv' /\ SessionInv'
<1> SUFFICES ASSUME TypeOK, FrameInv, LockInv, AccountInv, SessionInv,
                    [Next]_vars
             PROVE  AccountInv' /\ SessionInv'
  OBVIOUS
<1>1. CASE UNCHANGED vars
  BY <1>1
  DEF vars, accounts, conns, locks, frame, AccountInv, AccountFrame,
      Registered, Action, User, SessionInv, OneSessionPerUser,
      LoggedInMatchesSessions, Session
<1> QED
  BY <1>1, WorkerKeepsAccounts, WorkerKeepsSessions, EnvironmentKeepsSessions
  DEF Next, Exited

LEMMA InitSessions == Init => AccountInv /\ SessionInv
<1> SUFFICES ASSUME Init PROVE AccountInv /\ SessionInv
  OBVIOUS
<1>1. AccountInv
  BY DEF Init, AccountInv, AccountFrame, UserPhase, UserLabels, ArrayLabels
<1>2. \A c \in Conns : Session(c) = NoUser
  BY ServerAssumption DEF Init, Session
<1>3. SessionInv
  BY <1>2, ServerAssumption
  DEF Init, SessionInv, OneSessionPerUser, LoggedInMatchesSessions
<1> QED BY <1>1, <1>3

(***************************************************************************)
(* The inductive invariant: types, program points, mutexes, accounts and   *)
(* sessions hold together.                                                 *)
(***************************************************************************)
SessionsHold == TypeOK /\ FrameInv /\ LockInv /\ AccountInv /\ SessionInv

LEMMA SessionsInvariant == Spec => []SessionsHold
<1>1. Init => SessionsHold
  BY InitFrame, InitLocks, InitSessions DEF SessionsHold
<1>2. SessionsHold /\ [Next]_vars => SessionsHold'
  BY NextKeepsFrame, NextKeepsLocks, NextKeepsSessions DEF SessionsHold
<1> QED BY <1>1, <1>2, PTL DEF Spec

(***************************************************************************)
(* A user has at most one session, however logins, logouts and connections *)
(* that end interleave.                                                    *)
(***************************************************************************)
THEOREM SessionsAreUnique == Spec => []OneSessionPerUser
<1>1. SessionsHold => OneSessionPerUser
  BY DEF SessionsHold, SessionInv
<1> QED BY <1>1, SessionsInvariant, PTL

(***************************************************************************)
(* logged_in is set for exactly the users that have a session.             *)
(***************************************************************************)
THEOREM LoggedInIsExact == Spec => []LoggedInMatchesSessions
<1>1. SessionsHold => LoggedInMatchesSessions
  BY DEF SessionsHold, SessionInv
<1> QED BY <1>1, SessionsInvariant, PTL

-----------------------------------------------------------------------------
(* The seats: the statistics balance, what clients are told is true, and   *)
(* the server implements the booking service (Booking).                    *)

(***************************************************************************)
(* What worker w knows of its seat, its list and its answer, although      *)
(* other workers book and cancel meanwhile.                                *)
(***************************************************************************)
AtSeat(w) ==
  /\ pc[w] = "take" => bookedBy[Seat(w)] = NoUser
  /\ pc[w] = "release" => bookedBy[Seat(w)] = User(w)
  /\ pc[w] = "copy" => stats[w].booked = nBooked[Seat(w)]

Listing(w) ==
  /\ pc[w] \in {"poll", "dispatch"} \cup UserPhase => selected[w] = {}
  /\ /\ Action(w) = "CONFIRM_BOOKING"
     /\ pc[w] \in SeatPhase
     /\ req[w].data = Booked
     => selected[w] = {s \in Seats : s < scan[w] /\ bookedBy[s] = User(w)}

Verifying(w) ==
  pc[w] \in {"enroll", "grant", "save"} => password[User(w)] = req[w].data

Answering(w) ==
  pc[w] = "reply" /\ code[w] = "SUCCESS" =>
    /\ Action(w) \in SeatActions => Slot(w) = User(w) /\ User(w) \in Users
    /\ Action(w) = "BOOK" => bookedBy[Seat(w)] = User(w) /\ Seat(w) \in Seats
    /\ Action(w) = "CONFIRM_BOOKING" /\ req[w].data = Booked =>
         selected[w] = {s \in Seats : bookedBy[s] = User(w)}
    /\ Action(w) = "QUERY" => stats[w].booked - stats[w].canceled \in {0, 1}
    /\ Action(w) = "LOGIN" => /\ Slot(w) = User(w) /\ User(w) \in Users
                              /\ password[User(w)] = req[w].data
                              /\ Registered(User(w))
    /\ Action(w) = "LOGOUT" => Slot(w) = NoUser

Knows(w) == AtSeat(w) /\ Listing(w) /\ Verifying(w) /\ Answering(w)

LedgerInv == LedgerBalances /\ \A w \in Workers : Knows(w)

(***************************************************************************)
(* What a step of worker w may do to the ledger and to the locals of the   *)
(* others.                                                                 *)
(***************************************************************************)
LedgerStep(w) ==
  /\ \A v \in Workers \ {w} :
       code'[v] = code[v] /\ selected'[v] = selected[v] /\ stats'[v] = stats[v]
  /\ \A u \in Users : Registered(u) => password'[u] = password[u]
  /\ \A s \in Seats :
       \/ bookedBy'[s] = bookedBy[s] /\ nBooked'[s] = nBooked[s]
       \/ /\ pc[w] \in {"take", "release"}
          /\ Seat(w) = s
          /\ \/ bookedBy[s] = NoUser /\ bookedBy'[s] = User(w)
             \/ bookedBy[s] = User(w) /\ bookedBy'[s] = NoUser

(***************************************************************************)
(* Two workers never act for the same user: they serve different           *)
(* connections, and a user has one session.                                *)
(***************************************************************************)
LEMMA OneWorkerPerUser ==
  ASSUME SessionsHold, NEW v \in Workers, NEW w \in Workers, v # w,
         pc[v] \notin {"poll", "save", "clear"},
         pc[w] \notin {"poll", "save", "clear"},
         Slot(v) = Slot(w)
  PROVE  Slot(v) = NoUser
<1>1. /\ conn[v] \in Conns /\ conn[w] \in Conns
      /\ owner[conn[v]] = v /\ owner[conn[w]] = w
  BY DEF SessionsHold, FrameInv, Frame
<1>2. Session(conn[v]) = Slot(v) /\ Session(conn[w]) = Slot(w)
  BY <1>1 DEF Session, Slot
<1> QED BY <1>1, <1>2 DEF SessionsHold, SessionInv, OneSessionPerUser

LEMMA OthersKeepKnowing ==
  ASSUME SessionsHold, LedgerInv, NEW w \in Workers, StepOf(w), LedgerStep(w)
  PROVE  \A v \in Workers \ {w} : Knows(v)'
<1> USE DEF SessionsHold
<1> TAKE v \in Workers \ {w}
<1>1. /\ pc'[v] = pc[v] /\ conn'[v] = conn[v] /\ req'[v] = req[v]
      /\ scan'[v] = scan[v] /\ code'[v] = code[v] /\ selected'[v] = selected[v]
      /\ stats'[v] = stats[v]
  BY DEF StepOf, LedgerStep
<1>2. Action(v)' = Action(v) /\ User(v)' = User(v) /\ Seat(v)' = Seat(v)
  BY <1>1 DEF Action, User, Seat
<1>3. Frame(v) /\ Frame(w) /\ Knows(v) /\ AccountFrame(v)
  BY DEF FrameInv, LedgerInv, AccountInv
<1>4. pc[v] # "poll" => Slot(v)' = Slot(v)
  BY <1>1, <1>3 DEF Frame, StepOf, Slot
<1>5. AtSeat(v)'
  <2>1. CASE pc[v] \in SeatLabels
    <3>1. Seat(v) \in Seats
      BY <1>3, <2>1 DEF Frame, SeatPhase
    <3>2. pc[w] \in SeatLabels => Seat(w) # Seat(v)
      BY <2>1, <3>1 DEF LockInv, SeatHolder
    <3>3. bookedBy'[Seat(v)] = bookedBy[Seat(v)] /\ nBooked'[Seat(v)] = nBooked[Seat(v)]
      BY <3>1, <3>2 DEF LedgerStep, SeatLabels
    <3> QED BY <1>1, <1>2, <1>3, <3>3 DEF Knows, AtSeat
  <2>2. CASE pc[v] \notin SeatLabels
    BY <1>1, <2>2 DEF AtSeat, SeatLabels
  <2> QED BY <2>1, <2>2
<1>6. /\ pc[v] \in SeatPhase \cup {"reply"}
      /\ Slot(v) = User(v) /\ User(v) \in Users
      => \A s \in Seats : bookedBy'[s] = User(v) <=> bookedBy[s] = User(v)
  <2> SUFFICES ASSUME pc[v] \in SeatPhase \cup {"reply"},
                      Slot(v) = User(v), User(v) \in Users, NEW s \in Seats
               PROVE  bookedBy'[s] = User(v) <=> bookedBy[s] = User(v)
    OBVIOUS
  <2>1. pc[w] \in {"take", "release"} => User(w) # User(v)
    <3> SUFFICES ASSUME pc[w] \in {"take", "release"}, User(w) = User(v)
                 PROVE  FALSE
      OBVIOUS
    <3>1. Slot(w) = User(w)
      BY <1>3 DEF Frame, SeatPhase, SeatLabels, SeatActions
    <3>2. Slot(v) = NoUser
      BY <3>1, OneWorkerPerUser DEF SeatPhase, SeatLabels
    <3> QED BY <3>2, ServerAssumption
  <2> QED BY <2>1, ServerAssumption DEF LedgerStep
<1>7. Listing(v)'
  <2>1. CASE Action(v) = "CONFIRM_BOOKING" /\ pc[v] \in SeatPhase
    <3>1. Slot(v) = User(v) /\ User(v) \in Users
      BY <1>3, <2>1 DEF Frame, SeatActions
    <3>2. \A s \in Seats : bookedBy'[s] = User(v) <=> bookedBy[s] = User(v)
      BY <1>6, <2>1, <3>1
    <3>3. {s \in Seats : s < scan[v] /\ bookedBy'[s] = User(v)}
            = {s \in Seats : s < scan[v] /\ bookedBy[s] = User(v)}
      BY <3>2
    <3> QED
      BY <1>1, <1>2, <1>3, <2>1, <3>3
      DEF Knows, Listing, UserPhase, SeatPhase, ArrayLabels, UserLabels, SeatLabels
  <2>2. CASE ~(Action(v) = "CONFIRM_BOOKING" /\ pc[v] \in SeatPhase)
    BY <1>1, <1>2, <1>3, <2>2 DEF Knows, Listing
  <2> QED BY <2>1, <2>2
<1>8. Verifying(v)'
  <2>1. pc[v] \in {"enroll", "grant", "save"} =>
          User(v) \in Users /\ Registered(User(v))
    BY <1>3 DEF Frame, AccountFrame, UserPhase, ArrayLabels, UserLabels
  <2> QED BY <1>1, <1>2, <1>3, <2>1 DEF Knows, Verifying, LedgerStep
<1>9. Answering(v)'
  <2> SUFFICES ASSUME pc[v] = "reply", code[v] = "SUCCESS"
               PROVE  Answering(v)'
    BY <1>1 DEF Answering
  <2>1. Answering(v) /\ Slot(v)' = Slot(v)
    BY <1>3, <1>4 DEF Knows
  <2>2. CASE Action(v) \in SeatActions
    <3>1. Slot(v) = User(v) /\ User(v) \in Users
      BY <2>1, <2>2 DEF Answering
    <3>2. \A s \in Seats : bookedBy'[s] = User(v) <=> bookedBy[s] = User(v)
      BY <1>6, <3>1
    <3>3. {s \in Seats : bookedBy'[s] = User(v)} = {s \in Seats : bookedBy[s] = User(v)}
      BY <3>2
    <3> QED
      BY <1>1, <1>2, <2>1, <2>2, <3>1, <3>2, <3>3
      DEF Answering, SeatActions
  <2>3. CASE Action(v) \notin SeatActions
    BY <1>1, <1>2, <2>1, <2>3 DEF Answering, SeatActions, LedgerStep, Registered
  <2> QED BY <2>2, <2>3
<1> QED BY <1>5, <1>7, <1>8, <1>9 DEF Knows

(***************************************************************************)
(* Only TakeSeat and GiveUpSeat write to the ledger, only Register to the  *)
(* passwords.                                                              *)
(***************************************************************************)
LEMMA WorkersWriteLedger ==
  ASSUME SessionsHold, LedgerInv, NEW w \in Workers, Acquire(w) \/ Proceed(w)
  PROVE  /\ LedgerStep(w)
         /\ ~TakeSeat(w) /\ ~GiveUpSeat(w) => UNCHANGED ledger
         /\ ~Register(w) => password' = password
<1> USE DEF At, Goto, Answer, Finish, accounts, conns, ledger, locks, frame
<1>1. Frame(w) /\ AtSeat(w) /\ AccountFrame(w)
  BY DEF SessionsHold, FrameInv, LedgerInv, Knows, AccountInv
<1>2. /\ code \in [Workers -> Codes] /\ selected \in [Workers -> SUBSET Seats]
      /\ stats \in [Workers -> [booked : Nat, canceled : Nat]]
      /\ password \in [Users -> Data]
      /\ bookedBy \in [Seats -> Users \cup {NoUser}] /\ nBooked \in [Seats -> Nat]
      /\ nCanceled \in [Seats -> Nat]
  BY DEF SessionsHold, TypeOK
<1>3. CASE Refuse(w)
  BY <1>2, <1>3 DEF Refuse, LedgerStep
<1>4. CASE Admit(w)
  BY <1>2, <1>4 DEF Admit, LedgerStep
<1>5. CASE LockArray(w)
  BY <1>2, <1>5 DEF LockArray, LedgerStep
<1>6. CASE UserFound(w)
  BY <1>2, <1>6 DEF UserFound, LedgerStep
<1>7. CASE UserMissing(w)
  BY <1>2, <1>7 DEF UserMissing, LedgerStep
<1>8. CASE Enroll(w)
  BY <1>2, <1>8 DEF Enroll, LedgerStep
<1>9. CASE LockUser(w)
  BY <1>2, <1>9 DEF LockUser, LedgerStep
<1>10. CASE RefuseUser(w)
  BY <1>2, <1>10 DEF RefuseUser, LedgerStep
<1>11. CASE Verified(w)
  BY <1>2, <1>11 DEF Verified, LedgerStep
<1>12. CASE Grant(w)
  BY <1>2, <1>12 DEF Grant, LedgerStep
<1>13. CASE SaveActiveUser(w)
  BY <1>2, <1>13 DEF SaveActiveUser, LedgerStep
<1>14. CASE Deactivate(w)
  BY <1>2, <1>14 DEF Deactivate, LedgerStep
<1>15. CASE ClearActiveUser(w)
  BY <1>2, <1>15 DEF ClearActiveUser, LedgerStep
<1>16. CASE EnterSeats(w)
  BY <1>2, <1>16 DEF EnterSeats, LedgerStep
<1>17. CASE LockSeat(w)
  BY <1>2, <1>17 DEF LockSeat, LedgerStep
<1>18. CASE RefuseSeat(w)
  BY <1>2, <1>18 DEF RefuseSeat, LedgerStep
<1>19. CASE AdmitSeat(w)
  BY <1>2, <1>19 DEF AdmitSeat, LedgerStep
<1>20. CASE ScanSeat(w)
  BY <1>2, <1>20 DEF ScanSeat, LedgerStep
<1>21. CASE CopyBooked(w)
  BY <1>2, <1>21 DEF CopyBooked, LedgerStep
<1>22. CASE CopyCanceled(w)
  BY <1>2, <1>22 DEF CopyCanceled, LedgerStep
<1>23. CASE SendResponse(w)
  BY <1>2, <1>23 DEF SendResponse, LedgerStep
<1>24. CASE Register(w)
  <2>1. /\ UNCHANGED <<code, selected, stats, bookedBy, nBooked, nCanceled>>
        /\ password' = password \/ password' = [password EXCEPT ![User(w)] = req[w].data]
        /\ pc[w] = "register"
    BY <1>24 DEF Register
  <2>2. ~Registered(User(w))
    BY <1>1, <2>1 DEF AccountFrame
  <2> QED BY <1>2, <1>24, <2>1, <2>2 DEF LedgerStep, Registered
<1>25. CASE TakeSeat(w)
  BY <1>1, <1>2, <1>25 DEF TakeSeat, LedgerStep, AtSeat
<1>26. CASE GiveUpSeat(w)
  BY <1>1, <1>2, <1>26 DEF GiveUpSeat, LedgerStep, AtSeat
<1> QED
  BY <1>3, <1>4, <1>5, <1>6, <1>7, <1>8, <1>9, <1>10, <1>11, <1>12, <1>13, <1>14, <1>15, <1>16, <1>17, <1>18, <1>19, <1>20, <1>21, <1>22, <1>23, <1>24, <1>25, <1>26 DEF Acquire, Proceed

LEMMA WorkerKnows ==
  ASSUME SessionsHold, LedgerInv, NEW w \in Workers, Acquire(w) \/ Proceed(w)
  PROVE  Knows(w)'
<1> USE DEF At, Goto, Answer, Finish, accounts, conns, ledger, locks, frame
<1> USE DEF Action, User, ArrayLabels, UserLabels, SeatLabels, UserPhase, SeatPhase
<1>1. Frame(w) /\ Knows(w) /\ AccountFrame(w)
  BY DEF SessionsHold, FrameInv, LedgerInv, AccountInv
<1>2. /\ code \in [Workers -> Codes] /\ selected \in [Workers -> SUBSET Seats]
      /\ stats \in [Workers -> [booked : Nat, canceled : Nat]]
      /\ password \in [Users -> Data] /\ pc \in [Workers -> Labels]
      /\ slot \in [Conns -> Users \cup {NoUser}] /\ scan \in [Workers -> 0..NumSeats]
      /\ bookedBy \in [Seats -> Users \cup {NoUser}] /\ nBooked \in [Seats -> Nat]
      /\ nCanceled \in [Seats -> Nat] /\ conn \in [Workers -> Conns \cup {NoConn}]
  BY DEF SessionsHold, TypeOK
<1>3. CASE Refuse(w)
  BY <1>1, <1>2, <1>3, ServerAssumption
  DEF Refuse, Knows, AtSeat, Listing, Verifying, Answering, Frame, AccountFrame, Seat,
      Slot, Refusal, DataError
<1>4. CASE Admit(w)
  BY <1>1, <1>2, <1>4, ServerAssumption
  DEF Admit, Knows, AtSeat, Listing, Verifying, Answering, Frame, AccountFrame, Seat,
      Slot, Refusal, DataError
<1>5. CASE LockArray(w)
  BY <1>1, <1>2, <1>5, ServerAssumption
  DEF LockArray, Knows, AtSeat, Listing, Verifying, Answering, Frame, AccountFrame, Seat,
      Slot
<1>6. CASE UserFound(w)
  BY <1>1, <1>2, <1>6, ServerAssumption
  DEF UserFound, Knows, AtSeat, Listing, Verifying, Answering, Frame, AccountFrame, Seat,
      Slot
<1>7. CASE UserMissing(w)
  <2>1. AtSeat(w)'
    BY <1>1, <1>2, <1>7
    DEF UserMissing, Knows, AtSeat, Listing, Verifying, Answering, Frame, Seat,
        Slot, SeatActions
  <2>2. Listing(w)'
    BY <1>1, <1>2, <1>7
    DEF UserMissing, Knows, AtSeat, Listing, Verifying, Answering, Frame, Seat,
        Slot, SeatActions
  <2>3. Verifying(w)'
    BY <1>1, <1>2, <1>7
    DEF UserMissing, Knows, AtSeat, Listing, Verifying, Answering, Frame, Seat,
        Slot, SeatActions
  <2>4. Answering(w)'
    BY <1>1, <1>2, <1>7
    DEF UserMissing, Knows, AtSeat, Listing, Verifying, Answering, Frame, Seat,
        Slot, SeatActions
  <2> QED BY <2>1, <2>2, <2>3, <2>4 DEF Knows
<1>8. CASE Register(w)
  <2>1. AtSeat(w)'
    BY <1>1, <1>2, <1>8
    DEF Register, Knows, AtSeat, Listing, Verifying, Answering, Frame, Seat,
        Slot
  <2>2. Listing(w)'
    BY <1>1, <1>2, <1>8
    DEF Register, Knows, AtSeat, Listing, Verifying, Answering, Frame, Seat,
        Slot
  <2>3. Verifying(w)'
    BY <1>1, <1>2, <1>8
    DEF Register, Knows, AtSeat, Listing, Verifying, Answering, Frame, Seat,
        Slot
  <2>4. Answering(w)'
    BY <1>1, <1>2, <1>8
    DEF Register, Knows, AtSeat, Listing, Verifying, Answering, Frame, Seat,
        Slot
  <2> QED BY <2>1, <2>2, <2>3, <2>4 DEF Knows
<1>9. CASE Enroll(w)
  BY <1>1, <1>2, <1>9, ServerAssumption
  DEF Enroll, Knows, AtSeat, Listing, Verifying, Answering, Frame, AccountFrame, Seat,
      Slot
<1>10. CASE LockUser(w)
  BY <1>1, <1>2, <1>10, ServerAssumption
  DEF LockUser, Knows, AtSeat, Listing, Verifying, Answering, Frame, AccountFrame, Seat,
      Slot
<1>11. CASE RefuseUser(w)
  BY <1>1, <1>2, <1>11, ServerAssumption
  DEF RefuseUser, Knows, AtSeat, Listing, Verifying, Answering, Frame, AccountFrame, Seat,
      Slot, UserError
<1>12. CASE Verified(w)
  BY <1>1, <1>2, <1>12, ServerAssumption
  DEF Verified, Knows, AtSeat, Listing, Verifying, Answering, Frame, AccountFrame, Seat,
      Slot, UserError
<1>13. CASE Grant(w)
  BY <1>1, <1>2, <1>13, ServerAssumption
  DEF Grant, Knows, AtSeat, Listing, Verifying, Answering, Frame, AccountFrame, Seat,
      Slot
<1>14. CASE SaveActiveUser(w)
  <2>1. AtSeat(w)'
    BY <1>1, <1>2, <1>14
    DEF SaveActiveUser, Knows, AtSeat, Listing, Verifying, Answering, Frame, Seat,
        Slot, SeatActions, Registered, AccountFrame
  <2>2. Listing(w)'
    BY <1>1, <1>2, <1>14
    DEF SaveActiveUser, Knows, AtSeat, Listing, Verifying, Answering, Frame, Seat,
        Slot, SeatActions, Registered, AccountFrame
  <2>3. Verifying(w)'
    BY <1>1, <1>2, <1>14
    DEF SaveActiveUser, Knows, AtSeat, Listing, Verifying, Answering, Frame, Seat,
        Slot, SeatActions, Registered, AccountFrame
  <2>4. Answering(w)'
    BY <1>1, <1>2, <1>14
    DEF SaveActiveUser, Knows, AtSeat, Listing, Verifying, Answering, Frame, Seat,
        Slot, SeatActions, Registered, AccountFrame
  <2> QED BY <2>1, <2>2, <2>3, <2>4 DEF Knows
<1>15. CASE Deactivate(w)
  BY <1>1, <1>2, <1>15, ServerAssumption
  DEF Deactivate, Knows, AtSeat, Listing, Verifying, Answering, Frame, AccountFrame, Seat,
      Slot
<1>16. CASE ClearActiveUser(w)
  BY <1>1, <1>2, <1>16, ServerAssumption
  DEF ClearActiveUser, Knows, AtSeat, Listing, Verifying, Answering, Frame, AccountFrame, Seat,
      Slot, SeatActions
<1>17. CASE EnterSeats(w)
  <2>1. AtSeat(w)'
    BY <1>1, <1>2, <1>17
    DEF EnterSeats, Knows, AtSeat, Listing, Verifying, Answering, Frame, Seat,
        Slot, SeatActions
  <2>2. Listing(w)'
    <3>1. /\ Seats = 1..NumSeats /\ req' = req /\ selected' = selected
          /\ scan' = [scan EXCEPT ![w] = IF Action(w) = "CONFIRM_BOOKING" THEN 1 ELSE 0]
          /\ selected[w] = {} /\ pc'[w] = "seat"
      BY <1>1, <1>2, <1>17 DEF EnterSeats, Knows, Listing, Seats
    <3>2. Action(w) = "CONFIRM_BOOKING" =>
            {s \in Seats : s < scan'[w] /\ bookedBy'[s] = User(w)} = {}
      BY <1>2, <3>1
    <3> QED BY <1>2, <3>1, <3>2 DEF Listing
  <2>3. Verifying(w)'
    BY <1>1, <1>2, <1>17
    DEF EnterSeats, Knows, AtSeat, Listing, Verifying, Answering, Frame, Seat,
        Slot, SeatActions
  <2>4. Answering(w)'
    BY <1>1, <1>2, <1>17
    DEF EnterSeats, Knows, AtSeat, Listing, Verifying, Answering, Frame, Seat,
        Slot, SeatActions
  <2> QED BY <2>1, <2>2, <2>3, <2>4 DEF Knows
<1>18. CASE LockSeat(w)
  BY <1>1, <1>2, <1>18, ServerAssumption
  DEF LockSeat, Knows, AtSeat, Listing, Verifying, Answering, Frame, AccountFrame, Seat,
      Slot
<1>19. CASE RefuseSeat(w)
  BY <1>1, <1>2, <1>19, ServerAssumption
  DEF RefuseSeat, Knows, AtSeat, Listing, Verifying, Answering, Frame, AccountFrame, Seat,
      Slot, SeatError
<1>20. CASE AdmitSeat(w)
  BY <1>1, <1>2, <1>20, ServerAssumption
  DEF AdmitSeat, Knows, AtSeat, Listing, Verifying, Answering, Frame, AccountFrame, Seat,
      Slot, SeatError, SeatActions
<1>21. CASE TakeSeat(w)
  BY <1>1, <1>2, <1>21, ServerAssumption
  DEF TakeSeat, Knows, AtSeat, Listing, Verifying, Answering, Frame, AccountFrame, Seat,
      Slot, SeatActions, ReleaseSeat
<1>22. CASE GiveUpSeat(w)
  BY <1>1, <1>2, <1>22, ServerAssumption
  DEF GiveUpSeat, Knows, AtSeat, Listing, Verifying, Answering, Frame, AccountFrame, Seat,
      Slot, SeatActions
<1>23. CASE ScanSeat(w)
  <2>1. AtSeat(w)'
    BY <1>1, <1>2, <1>23
    DEF ScanSeat, Knows, AtSeat, Listing, Verifying, Answering, Frame, Seat,
        Slot, Include, LastSeat, SeatActions
  <2>2. Listing(w)'
    <3> SUFFICES ASSUME pc'[w] \in SeatPhase, req[w].data = Booked
                 PROVE  selected'[w] = {s \in Seats : s < scan'[w]
                                                      /\ bookedBy'[s] = User(w)}
      BY <1>2, <1>23 DEF ScanSeat, Listing
    <3>1. /\ scan'[w] = scan[w] + 1 /\ scan[w] \in Nat /\ Seat(w) = scan[w]
          /\ bookedBy' = bookedBy /\ Seats = 1..NumSeats
      BY <1>2, <1>23 DEF ScanSeat, Seat, Seats
    <3>2. selected'[w] = selected[w] \cup IF bookedBy[scan[w]] = User(w)
                                           THEN {scan[w]} ELSE {}
      BY <1>2, <1>23, <3>1, ServerAssumption DEF ScanSeat, Include
    <3>3. selected[w] = {s \in Seats : s < scan[w] /\ bookedBy[s] = User(w)}
      BY <1>1, <1>23 DEF ScanSeat, Knows, Listing
    <3>4. scan[w] \in Seats
      BY <1>1, <1>23, <3>1 DEF ScanSeat, Frame
    <3> QED BY <3>1, <3>2, <3>3, <3>4
  <2>3. Verifying(w)'
    BY <1>1, <1>2, <1>23
    DEF ScanSeat, Knows, AtSeat, Listing, Verifying, Answering, Frame, Seat,
        Slot, Include, LastSeat, SeatActions
  <2>4. Answering(w)'
    <3> SUFFICES ASSUME pc'[w] = "reply", code'[w] = "SUCCESS"
                 PROVE  Answering(w)'
      BY DEF Answering
    <3>1. /\ scan[w] = NumSeats /\ Seat(w) = scan[w]
          /\ bookedBy' = bookedBy /\ Seats = 1..NumSeats /\ req' = req
          /\ Action(w) = "CONFIRM_BOOKING" /\ slot' = slot /\ conn' = conn
      BY <1>2, <1>23 DEF ScanSeat, Seat, Seats, LastSeat
    <3>2. req[w].data = Booked =>
            selected'[w] = {s \in Seats : bookedBy[s] = User(w)}
      <4> SUFFICES ASSUME req[w].data = Booked
                   PROVE  selected'[w] = {s \in Seats : bookedBy[s] = User(w)}
        OBVIOUS
      <4>1. selected'[w] = selected[w] \cup IF bookedBy[scan[w]] = User(w)
                                             THEN {scan[w]} ELSE {}
        BY <1>2, <1>23, <3>1, ServerAssumption DEF ScanSeat, Include
      <4>2. selected[w] = {s \in Seats : s < scan[w] /\ bookedBy[s] = User(w)}
        BY <1>1, <1>23 DEF ScanSeat, Knows, Listing
      <4> QED BY <3>1, <4>1, <4>2, ServerAssumption
    <3>3. Slot(w) = User(w) /\ User(w) \in Users
      BY <1>1, <1>23, <3>1 DEF ScanSeat, Frame, SeatActions
    <3> QED BY <3>1, <3>2, <3>3 DEF Answering, Slot
  <2> QED BY <2>1, <2>2, <2>3, <2>4 DEF Knows
<1>24. CASE CopyBooked(w)
  BY <1>1, <1>2, <1>24, ServerAssumption
  DEF CopyBooked, Knows, AtSeat, Listing, Verifying, Answering, Frame, AccountFrame, Seat,
      Slot
<1>25. CASE CopyCanceled(w)
  <2>1. AtSeat(w)'
    BY <1>1, <1>2, <1>25
    DEF CopyCanceled, Knows, AtSeat, Listing, Verifying, Answering, Frame, Seat,
        Slot, LedgerBalances
  <2>2. Listing(w)'
    BY <1>1, <1>2, <1>25
    DEF CopyCanceled, Knows, AtSeat, Listing, Verifying, Answering, Frame, Seat,
        Slot, LedgerBalances
  <2>3. Verifying(w)'
    BY <1>1, <1>2, <1>25
    DEF CopyCanceled, Knows, AtSeat, Listing, Verifying, Answering, Frame, Seat,
        Slot, LedgerBalances
  <2>4. Answering(w)'
    <3>1. /\ stats' = [stats EXCEPT ![w].canceled = nCanceled[Seat(w)]]
          /\ req' = req /\ pc[w] = "copy"
      BY <1>25 DEF CopyCanceled
    <3>2. Action(w) = "QUERY" /\ Seat(w) \in Seats
      BY <1>1, <3>1 DEF Frame
    <3>3. nBooked[Seat(w)] = nCanceled[Seat(w)]
          \/ nBooked[Seat(w)] = nCanceled[Seat(w)] + 1
      BY <1>2, <3>2 DEF LedgerInv, LedgerBalances
    <3>4. stats'[w].booked = nBooked[Seat(w)] /\ stats'[w].canceled = nCanceled[Seat(w)]
      BY <1>1, <1>2, <3>1 DEF Knows, AtSeat
    <3>5. nBooked[Seat(w)] \in Nat /\ nCanceled[Seat(w)] \in Nat
      BY <1>2, <3>2
    <3>6. nBooked[Seat(w)] - nCanceled[Seat(w)] \in {0, 1}
      BY <3>3, <3>5
    <3> QED BY <3>1, <3>2, <3>4, <3>6 DEF Answering, SeatActions
  <2> QED BY <2>1, <2>2, <2>3, <2>4 DEF Knows
<1>26. CASE SendResponse(w)
  BY <1>1, <1>2, <1>26, ServerAssumption
  DEF SendResponse, Knows, AtSeat, Listing, Verifying, Answering, Frame, AccountFrame, Seat,
      Slot
<1> QED
  BY <1>3, <1>4, <1>5, <1>6, <1>7, <1>8, <1>9, <1>10, <1>11, <1>12, <1>13, <1>14, <1>15, <1>16, <1>17, <1>18, <1>19, <1>20, <1>21, <1>22, <1>23, <1>24, <1>25, <1>26 DEF Acquire, Proceed

LEMMA WorkerKeepsBalance ==
  ASSUME SessionsHold, LedgerInv, NEW w \in Workers, Acquire(w) \/ Proceed(w)
  PROVE  LedgerBalances'
<1>1. Frame(w) /\ AtSeat(w)
  BY DEF SessionsHold, FrameInv, LedgerInv, Knows
<1>2. /\ bookedBy \in [Seats -> Users \cup {NoUser}]
      /\ nBooked \in [Seats -> Nat] /\ nCanceled \in [Seats -> Nat]
  BY DEF SessionsHold, TypeOK
<1>3. ASSUME NEW s \in Seats
      PROVE  nBooked[s] = nCanceled[s] + IF bookedBy[s] = NoUser THEN 0 ELSE 1
  BY DEF LedgerInv, LedgerBalances
<1>4. CASE TakeSeat(w)
  <2>1. /\ Seat(w) \in Seats /\ bookedBy[Seat(w)] = NoUser /\ User(w) # NoUser
    BY <1>1, <1>4, ServerAssumption
    DEF TakeSeat, At, AtSeat, Frame, SeatPhase, SeatLabels, SeatActions
  <2>2. /\ bookedBy' = [bookedBy EXCEPT ![Seat(w)] = User(w)]
        /\ nBooked' = [nBooked EXCEPT ![Seat(w)] = @ + 1]
        /\ nCanceled' = nCanceled
    BY <1>4 DEF TakeSeat
  <2> QED BY <1>2, <1>3, <2>1, <2>2 DEF LedgerBalances
<1>5. CASE GiveUpSeat(w)
  <2>1. /\ Seat(w) \in Seats /\ bookedBy[Seat(w)] # NoUser
    BY <1>1, <1>5, ServerAssumption
    DEF GiveUpSeat, At, AtSeat, Frame, SeatPhase, SeatLabels, SeatActions
  <2>2. /\ bookedBy' = [bookedBy EXCEPT ![Seat(w)] = NoUser]
        /\ nCanceled' = [nCanceled EXCEPT ![Seat(w)] = @ + 1]
        /\ nBooked' = nBooked
    BY <1>5 DEF GiveUpSeat
  <2> QED BY <1>2, <1>3, <2>1, <2>2 DEF LedgerBalances
<1>6. CASE ~TakeSeat(w) /\ ~GiveUpSeat(w)
  BY <1>3, <1>6, WorkersWriteLedger DEF LedgerBalances, ledger
<1> QED BY <1>4, <1>5, <1>6

LEMMA EnvironmentKeepsLedger ==
  ASSUME SessionsHold, LedgerInv, Environment
  PROVE  LedgerInv'
<1> USE DEF SessionsHold, accounts, conns, ledger, locks, frame, Finish, Goto
<1>1. ASSUME NEW w \in Workers, StepOf(w), UNCHANGED <<accounts, ledger>>,
             \A v \in Workers \ {w} :
               /\ code'[v] = code[v] /\ selected'[v] = selected[v]
               /\ stats'[v] = stats[v],
             pc'[w] \in {"poll", "dispatch", "array"}, selected'[w] = {}
      PROVE  LedgerInv'
  <2>1. LedgerStep(w)
    BY <1>1 DEF LedgerStep
  <2>2. \A v \in Workers \ {w} : Knows(v)'
    BY <1>1, <2>1, OthersKeepKnowing
  <2>3. Knows(w)'
    BY <1>1 DEF Knows, AtSeat, Listing, Verifying, Answering, SeatPhase, SeatLabels
  <2>4. LedgerBalances'
    BY <1>1 DEF LedgerInv, LedgerBalances
  <2> QED BY <2>2, <2>3, <2>4 DEF LedgerInv
<1>2. ASSUME NEW c \in Conns, NEW w \in Workers, AddToPollset(c, w)
      PROVE  LedgerInv'
  <2>1. \A v \in Workers : Slot(v)' = Slot(v) \/ pc[v] = "poll"
    BY <1>2, ServerAssumption DEF AddToPollset, FrameInv, Frame, TypeOK, Slot
  <2> QED
    BY <1>2, <2>1
    DEF AddToPollset, LedgerInv, LedgerBalances, Knows, AtSeat, Listing,
        Verifying, Answering, Action, User, Seat, Registered
<1>3. ASSUME NEW w \in Workers, NEW c \in Conns, RemoveFromPollset(w, c),
             owner[c] = w, pc[w] \in {"poll", "reply"}
      PROVE  LedgerInv'
  <2>1. StepOf(w)
    BY <1>3 DEF RemoveFromPollset, StepOf, TypeOK
  <2> QED BY <1>1, <1>3, <2>1 DEF RemoveFromPollset, TypeOK
<1>4. ASSUME NEW w \in Workers, NEW c \in Conns, NEW r \in Requests,
             ReceiveRequest(w, c, r)
      PROVE  LedgerInv'
  <2>1. StepOf(w)
    BY <1>4 DEF ReceiveRequest, StepOf, TypeOK
  <2>2. selected[w] = {}
    BY <1>4 DEF ReceiveRequest, At, LedgerInv, Knows, Listing
  <2> QED BY <1>1, <1>4, <2>1, <2>2 DEF ReceiveRequest, TypeOK
<1>5. ASSUME NEW w \in Workers, SendFails(w)
      PROVE  LedgerInv'
  <2>1. PICK c \in Conns : c = conn[w] /\ owner[c] = w /\ pc[w] = "reply"
    BY <1>5 DEF SendFails, At, FrameInv, Frame
  <2>2. RemoveFromPollset(w, c)
    BY <1>5, <2>1 DEF SendFails
  <2> QED BY <1>3, <2>1, <2>2
<1>6. ASSUME NEW w \in Workers, NEW c \in Conns, Hangup(w, c)
      PROVE  LedgerInv'
  BY <1>3, <1>6 DEF Hangup, At
<1> QED BY <1>2, <1>4, <1>5, <1>6 DEF Environment

LEMMA NextKeepsLedger == SessionsHold /\ LedgerInv /\ [Next]_vars => LedgerInv'
<1> SUFFICES ASSUME SessionsHold, LedgerInv, [Next]_vars PROVE LedgerInv'
  OBVIOUS
<1>1. ASSUME NEW w \in Workers, Acquire(w) \/ Proceed(w)
      PROVE  LedgerInv'
  <2>1. StepOf(w)
    BY <1>1, WorkerKeepsFrame DEF SessionsHold
  <2>2. \A v \in Workers \ {w} : Knows(v)'
    BY <1>1, <2>1, WorkersWriteLedger, OthersKeepKnowing
  <2> QED
    BY <1>1, <2>2, WorkerKnows, WorkerKeepsBalance DEF LedgerInv
<1>2. CASE UNCHANGED vars
  BY <1>2
  DEF vars, accounts, conns, ledger, frame, LedgerInv, LedgerBalances, Knows,
      AtSeat, Listing, Verifying, Answering, Action, User, Slot, Seat, Registered
<1> QED BY <1>1, <1>2, EnvironmentKeepsLedger DEF Next, Exited

LEMMA InitLedger == Init => LedgerInv
<1> SUFFICES ASSUME Init PROVE LedgerInv
  OBVIOUS
<1>1. LedgerBalances
  BY DEF Init, LedgerBalances
<1>2. \A w \in Workers : Knows(w)
  BY DEF Init, Knows, AtSeat, Listing, Verifying, Answering, SeatPhase, SeatLabels
<1> QED BY <1>1, <1>2 DEF LedgerInv

LEMMA LedgerInvariant == Spec => [](SessionsHold /\ LedgerInv)
<1>1. Init => LedgerInv
  BY InitLedger
<1>2. SessionsHold /\ LedgerInv /\ [Next]_vars => LedgerInv'
  BY NextKeepsLedger
<1> QED BY <1>1, <1>2, SessionsInvariant, PTL DEF Spec

(***************************************************************************)
(* A seat is booked once more often than canceled exactly while it is      *)
(* held: no booking is lost and none is counted twice.                     *)
(***************************************************************************)
THEOREM StatisticsBalance == Spec => []LedgerBalances
<1>1. LedgerInv => LedgerBalances
  BY DEF LedgerInv
<1> QED BY <1>1, LedgerInvariant, PTL

(***************************************************************************)
(* confirm-booking booked lists exactly the seats of the user when it      *)
(* answers, although it locks them one at a time.                          *)
(***************************************************************************)
THEOREM BookedListsAreExact == Spec => []BookedListIsExact
<1>1. LedgerInv => BookedListIsExact
  BY DEF LedgerInv, Knows, Answering, BookedListIsExact
<1> QED BY <1>1, LedgerInvariant, PTL

(***************************************************************************)
(* A query copies the statistics of no half-finished booking.              *)
(***************************************************************************)
THEOREM QueriesAreConsistent == Spec => []QueryIsConsistent
<1>1. LedgerInv => QueryIsConsistent
  BY DEF LedgerInv, Knows, Answering, QueryIsConsistent
<1> QED BY <1>1, LedgerInvariant, PTL

(***************************************************************************)
(* A success a client is told of is still true when the answer is sent.    *)
(***************************************************************************)
THEOREM AnswersAreTrue == Spec => []RepliesAreTrue
<1>1. SessionsHold /\ LedgerInv => RepliesAreTrue
  <2> SUFFICES ASSUME SessionsHold, LedgerInv, NEW w \in Workers,
                      pc[w] = "reply", code[w] = "SUCCESS"
               PROVE  /\ Action(w) = "BOOK" => bookedBy[Seat(w)] = User(w)
                      /\ Action(w) = "LOGIN" => /\ Session(conn[w]) = User(w)
                                                /\ password[User(w)] = req[w].data
                      /\ Action(w) = "LOGOUT" => Session(conn[w]) = NoUser
    BY DEF RepliesAreTrue
  <2>1. Session(conn[w]) = Slot(w)
    BY DEF SessionsHold, FrameInv, Frame, Session, Slot
  <2> QED BY <2>1 DEF LedgerInv, Knows, Answering
<1> QED BY <1>1, LedgerInvariant, PTL

(***************************************************************************)
(* Each answer is true and complete when it is sent, whatever the handlers *)
(* of the other workers do between the locks this one takes.               *)
(***************************************************************************)
THEOREM EveryAnswerIsExact == Spec => []AnswersAreExact
<1>1. RepliesAreTrue /\ BookedListIsExact /\ QueryIsConsistent => AnswersAreExact
  BY DEF AnswersAreExact
<1> QED BY <1>1, AnswersAreTrue, BookedListsAreExact, QueriesAreConsistent, PTL

-----------------------------------------------------------------------------
(***************************************************************************)
(* SeatServer implements Booking: every step of a handler, with its locks  *)
(* and its windows, is one indivisible step of the booking service or does *)
(* not show in it.                                                         *)
(***************************************************************************)
sessions == [c \in Conns |-> Session(c)]

LEMMA InitImplements == Init => Service!Init
<1> SUFFICES ASSUME Init PROVE Service!Init
  OBVIOUS
<1>1. \A c \in Conns : Session(c) = NoUser
  BY ServerAssumption DEF Init, Session
<1>2. sessions = [c \in Conns |-> NoUser]
  BY <1>1 DEF sessions
<1> QED BY <1>2 DEF Init, Service!Init, Service!Seats, Seats, sessions

(***************************************************************************)
(* How a change of one session shows in the function of all of them.       *)
(***************************************************************************)
LEMMA SessionsStayStill ==
  ASSUME SessionsStay PROVE sessions' = sessions
BY DEF SessionsStay, sessions

LEMMA OneSessionChanges ==
  ASSUME NEW c \in Conns, NEW x, Session(c)' = x,
         \A d \in Conns \ {c} : Session(d)' = Session(d)
  PROVE  sessions' = [sessions EXCEPT ![c] = x]
BY DEF sessions

(***************************************************************************)
(* A worker at a seat acts for the user its connection has a session for.  *)
(***************************************************************************)
LEMMA SeatWorkersHaveSessions ==
  ASSUME SessionsHold, NEW w \in Workers, pc[w] \in {"take", "release"}
  PROVE  /\ conn[w] \in Conns /\ sessions[conn[w]] = User(w)
         /\ User(w) \in Users /\ Seat(w) \in Seats
<1>1. Frame(w)
  BY DEF SessionsHold, FrameInv
<1>2. /\ conn[w] \in Conns /\ Slot(w) = User(w)
      /\ User(w) \in Users /\ Seat(w) \in Seats
  BY <1>1 DEF Frame, SeatPhase, SeatLabels, SeatActions
<1>3. Session(conn[w]) = Slot(w)
  BY <1>1 DEF Frame, Session, Slot
<1> QED BY <1>2, <1>3 DEF sessions

LEMMA WorkerImplements ==
  ASSUME SessionsHold, LedgerInv, NEW w \in Workers, Acquire(w) \/ Proceed(w)
  PROVE  Service!Next \/ UNCHANGED <<sessions, password, bookedBy, nBooked, nCanceled>>
<1>1. /\ ~TakeSeat(w) /\ ~GiveUpSeat(w) =>
           bookedBy' = bookedBy /\ nBooked' = nBooked /\ nCanceled' = nCanceled
      /\ ~Register(w) => password' = password
  BY WorkersWriteLedger DEF ledger
<1>2. /\ Frame(w) /\ AtSeat(w) /\ AccountFrame(w)
      /\ pc[w] # "poll" => User(w) \in Users \cup {NoUser} /\ req[w].data \in Data
  BY RequestFields
  DEF SessionsHold, FrameInv, LedgerInv, Knows, AccountInv
<1>3. CASE \E c \in Conns, u \in Users : Opens(w, c, u)
  <2>1. PICK c \in Conns, u \in Users : Opens(w, c, u)
    BY <1>3
  <2>2. /\ password' = password /\ bookedBy' = bookedBy
        /\ nBooked' = nBooked /\ nCanceled' = nCanceled
    BY <2>1
    DEF Opens, Enroll, Grant, ledger
  <2>3. sessions' = [sessions EXCEPT ![c] = u]
    BY <2>1, OneSessionChanges DEF Opens
  <2>4. sessions[c] = NoUser /\ \A d \in Conns : sessions[d] # u
    BY <2>1
    DEF Opens, SessionsHold, SessionInv, LoggedInMatchesSessions, sessions
  <2>5. Service!Login(c, u)
    BY <2>1, <2>2, <2>3, <2>4 DEF Service!Login, Opens, Registered, sessions
  <2> QED BY <2>5 DEF Service!Next
<1>4. CASE \E c \in Conns, u \in Users : Ends(w, c, u)
  <2>1. PICK c \in Conns, u \in Users : Ends(w, c, u)
    BY <1>4
  <2>2. /\ password' = password /\ bookedBy' = bookedBy
        /\ nBooked' = nBooked /\ nCanceled' = nCanceled
    BY <2>1 DEF Ends, Deactivate, ledger
  <2>3. sessions' = [sessions EXCEPT ![c] = NoUser]
    BY <2>1, OneSessionChanges DEF Ends
  <2>4. sessions[c] # NoUser
    BY <2>1, ServerAssumption DEF Ends, sessions
  <2>5. Service!Logout(c)
    BY <2>2, <2>3, <2>4 DEF Service!Logout, sessions
  <2> QED BY <2>5 DEF Service!Next
<1>5. CASE SessionsStay
  <2>1. sessions' = sessions
    BY <1>5, SessionsStayStill
  <2>2. CASE Register(w)
    <3>1. pc[w] = "register" /\ bookedBy' = bookedBy /\ nBooked' = nBooked
          /\ nCanceled' = nCanceled
          /\ \/ password' = password
             \/ password' = [password EXCEPT ![User(w)] = req[w].data]
      BY <2>2 DEF Register, At, ledger, accounts
    <3>2. User(w) \in Users /\ password[User(w)] = NoData /\ req[w].data \in Data
      BY <1>2, <3>1 DEF Frame, AccountFrame, UserPhase, ArrayLabels, Registered
    <3>3. password' = password \/ Service!Register(User(w), req[w].data)
      BY <2>1, <3>1, <3>2 DEF Service!Register, sessions
    <3> QED BY <2>1, <3>1, <3>2, <3>3 DEF Service!Next
  <2>3. CASE TakeSeat(w)
    <3>1. /\ pc[w] = "take" /\ password' = password /\ nCanceled' = nCanceled
          /\ bookedBy' = [bookedBy EXCEPT ![Seat(w)] = User(w)]
          /\ nBooked' = [nBooked EXCEPT ![Seat(w)] = @ + 1]
      BY <2>3 DEF TakeSeat, At, accounts
    <3>2. PICK c \in Conns : c = conn[w] /\ sessions[c] = User(w)
      BY <3>1, SeatWorkersHaveSessions
    <3>3. User(w) # NoUser /\ Seat(w) \in Seats /\ bookedBy[Seat(w)] = NoUser
      BY <1>2, <3>1, SeatWorkersHaveSessions, ServerAssumption DEF AtSeat
    <3>4. Service!Book(c, Seat(w))
      BY <2>1, <3>1, <3>2, <3>3 DEF Service!Book, sessions
    <3> QED BY <3>3, <3>4 DEF Service!Next, Service!Seats, Seats
  <2>4. CASE GiveUpSeat(w)
    <3>1. /\ pc[w] = "release" /\ password' = password /\ nBooked' = nBooked
          /\ bookedBy' = [bookedBy EXCEPT ![Seat(w)] = NoUser]
          /\ nCanceled' = [nCanceled EXCEPT ![Seat(w)] = @ + 1]
      BY <2>4 DEF GiveUpSeat, At, accounts
    <3>2. PICK c \in Conns : c = conn[w] /\ sessions[c] = User(w)
      BY <3>1, SeatWorkersHaveSessions
    <3>3. User(w) # NoUser /\ Seat(w) \in Seats /\ bookedBy[Seat(w)] = User(w)
      BY <1>2, <3>1, SeatWorkersHaveSessions, ServerAssumption DEF AtSeat
    <3>4. Service!Cancel(c, Seat(w))
      BY <2>1, <3>1, <3>2, <3>3 DEF Service!Cancel, sessions
    <3> QED BY <3>3, <3>4 DEF Service!Next, Service!Seats, Seats
  <2>5. CASE ~Register(w) /\ ~TakeSeat(w) /\ ~GiveUpSeat(w)
    BY <1>1, <2>1, <2>5
  <2> QED BY <2>2, <2>3, <2>4, <2>5
<1> QED BY <1>3, <1>4, <1>5, WorkerMovesSessions DEF SessionsHold

LEMMA NextImplements ==
  SessionsHold /\ LedgerInv /\ [Next]_vars => [Service!Next]_(Service!vars)
<1> SUFFICES ASSUME SessionsHold, LedgerInv, [Next]_vars
             PROVE  Service!Next
                    \/ UNCHANGED <<sessions, password, bookedBy, nBooked, nCanceled>>
  BY DEF Service!vars, sessions
<1>1. CASE Environment
  <2>1. sessions' = sessions
    BY <1>1, EnvironmentKeepsSessions, SessionsStayStill DEF SessionsHold
  <2>2. UNCHANGED <<accounts, ledger>>
    BY <1>1
    DEF Environment, AddToPollset, Hangup, ReceiveRequest, SendFails,
        RemoveFromPollset
  <2> QED BY <2>1, <2>2 DEF accounts, ledger
<1>2. CASE UNCHANGED vars
  <2>1. sessions' = sessions
    BY <1>2 DEF vars, conns, frame, sessions, Session, User
  <2> QED BY <1>2, <2>1 DEF vars, accounts, ledger
<1>3. CASE \E w \in Workers : Acquire(w) \/ Proceed(w)
  BY <1>3, WorkerImplements
<1> QED BY <1>1, <1>2, <1>3 DEF Next, Exited

(***************************************************************************)
(* The handlers as the threads run them implement the booking service that *)
(* answers every request at once: for every number of workers, connections,*)
(* users and seats.                                                        *)
(***************************************************************************)
THEOREM ServerImplementsBooking == Spec => ImplementsBooking
<1>1. Init => Service!Init
  BY InitImplements
<1>2. SessionsHold /\ LedgerInv /\ [Next]_vars => [Service!Next]_(Service!vars)
  BY NextImplements
<1> QED
  BY <1>1, <1>2, LedgerInvariant, PTL DEF Spec, ImplementsBooking, Service!Spec


-----------------------------------------------------------------------------
(* The clients: requests.                                                  *)

(***************************************************************************)
(* A whole request is on the wire: one that a client sends.                *)
(***************************************************************************)
Whole(r) == r \in Request /\ r.action # "TERMINATION"

Asking(c) == wire[c] = "request" \/ client[c] \in Waiting

WireInv ==
  /\ SystemTypeOK
  /\ \A c \in Conns : Asking(c) => Whole(asked[c])

LEMMA ParsedRequests ==
  ASSUME SystemTypeOK, NEW c \in Conns, NEW line \in Lines,
         ~RefuseInput(c, line), line.action # "EXIT"
  PROVE  Whole(ParseRequest(c, line))
<1>1. /\ line.action \in TypedActions
      /\ line.user \in Users \cup {NoUser}
      /\ line.data \in Data
  BY ClientAssumption
<1>2. line.action \in ClientActions \ {"TERMINATION"}
  BY <1>1 DEF TypedActions, RefuseInput
<1>3. activeUser[c] \in Users \cup {NoUser}
  BY DEF SystemTypeOK
<1> QED
  BY <1>1, <1>2, <1>3 DEF Whole, ParseRequest, Request

(***************************************************************************)
(* Every step of the system is a step of the handlers, or none of theirs.  *)
(***************************************************************************)
LEMMA StepsAreServerSteps ==
  ASSUME WireInv, [SystemNext]_system
  PROVE  [Next]_vars
<1>1. CASE UNCHANGED system
  BY <1>1 DEF system, server
<1>2. ASSUME NEW w \in Workers, Worker(w) PROVE [Next]_vars
  BY <1>2 DEF Worker, HandlerLocks, HandlerRuns, Respond, RespondFails, Sigpipe,
              Next, Environment, Proceed, server
<1>3. ASSUME NEW c \in Conns, Client(c) PROVE UNCHANGED vars
  BY <1>3 DEF Client, Connect, Exit, Kill, ReceiveResponse, ServerGone, Evaluate, server
<1>4. ASSUME NEW c \in Conns, NEW w \in Workers, Accept(c, w) PROVE Next
  BY <1>4 DEF Accept, Next, Environment
<1>5. ASSUME NEW c \in Conns, NEW w \in Workers, TakeRequest(c, w) PROVE Next
  <2>1. asked[c] \in Requests
    BY <1>5, ClientAssumption DEF TakeRequest, WireInv, Asking, Whole
  <2> QED BY <1>5, <2>1 DEF TakeRequest, Next, Environment
<1>6. ASSUME NEW c \in Conns, NEW w \in Workers, NoticeEnd(c, w) PROVE Next
  BY <1>6 DEF NoticeEnd, Next, Environment
<1> QED
  BY <1>1, <1>2, <1>3, <1>4, <1>5, <1>6 DEF SystemNext, Over

(***************************************************************************)
(* The requests stay whole.                                                *)
(***************************************************************************)
LEMMA ClientKeepsWire ==
  ASSUME WireInv, NEW c \in Conns, Client(c)
  PROVE  WireInv'
<1> USE DEF clients, Become, End, Waiting, Ended
<1>1. SystemTypeOK /\ \A d \in Conns : Asking(d) => Whole(asked[d])
  BY DEF WireInv
<1>2. CASE Connect(c)
  BY <1>1, <1>2 DEF Connect, SystemTypeOK, WireInv, Asking, Codes
<1>3. CASE Exit(c)
  <2>1. CASE activeUser[c] = NoUser
    BY <1>1, <1>3, <2>1 DEF Exit, Terminate, JustExit, SystemTypeOK, WireInv, Asking
  <2>2. CASE activeUser[c] # NoUser
    <3> DEFINE r == [action |-> "LOGOUT", user |-> activeUser[c], data |-> NoData]
    <3>1. Whole(r)
      BY <1>1, <2>2 DEF Whole, Request, ClientActions, Data, SystemTypeOK
    <3>2. Send(c, r) /\ Become(c, "leaving") /\ UNCHANGED <<serverUp, activeUser, backlog>>
      BY <1>3, <2>2 DEF Exit, Terminate
    <3> HIDE DEF r
    <3> QED BY <1>1, <3>1, <3>2 DEF Send, SystemTypeOK, WireInv, Asking, Whole, Codes
  <2> QED BY <2>1, <2>2
<1>4. CASE Kill(c)
  BY <1>1, <1>4 DEF Kill, SystemTypeOK, WireInv, Asking, Codes
<1>5. CASE ReceiveResponse(c)
  <2>1. asked[c].user \in Users \cup {NoUser}
    BY <1>1 DEF SystemTypeOK, Request, NoRequest
  <2> QED BY <1>1, <1>5, <2>1 DEF ReceiveResponse, SystemTypeOK, WireInv, Asking, Codes
<1>6. CASE ServerGone(c)
  BY <1>1, <1>6 DEF ServerGone, SystemTypeOK, WireInv, Asking
<1>7. ASSUME NEW line \in Lines, Evaluate(c, line) PROVE WireInv'
  <2> DEFINE r == ParseRequest(c, line)
  <2>1. Whole(r)
    BY <1>1, <1>7, ParsedRequests DEF Evaluate
  <2>2. Send(c, r) /\ Become(c, "waiting") /\ UNCHANGED <<serverUp, activeUser, backlog>>
    BY <1>7 DEF Evaluate
  <2> HIDE DEF r
  <2> QED BY <1>1, <2>1, <2>2 DEF Send, SystemTypeOK, WireInv, Asking, Whole, Codes
<1> QED
  BY <1>2, <1>3, <1>4, <1>5, <1>6, <1>7 DEF Client

LEMMA SystemKeepsWire ==
  ASSUME TypeOK, WireInv, [SystemNext]_system
  PROVE  WireInv'
<1> USE DEF clients
<1>1. SystemTypeOK /\ \A d \in Conns : Asking(d) => Whole(asked[d])
  BY DEF WireInv
<1>2. CASE UNCHANGED system
  BY <1>1, <1>2 DEF system, SystemTypeOK, WireInv, Asking
<1>3. ASSUME NEW w \in Workers, Worker(w) PROVE WireInv'
  <2>1. code[w] \in Codes
    BY DEF TypeOK
  <2> QED
    BY <1>1, <1>3, <2>1
    DEF Worker, HandlerLocks, HandlerRuns, Respond, RespondFails, Sigpipe, SystemTypeOK,
        WireInv, Asking, Codes
<1>4. ASSUME NEW c \in Conns, Client(c) PROVE WireInv'
  BY <1>4, ClientKeepsWire
<1>5. ASSUME NEW c \in Conns, NEW w \in Workers,
             Accept(c, w) \/ TakeRequest(c, w) \/ NoticeEnd(c, w)
      PROVE  WireInv'
  BY <1>1, <1>5 DEF Accept, TakeRequest, NoticeEnd, SystemTypeOK, WireInv, Asking
<1> QED
  BY <1>2, <1>3, <1>4, <1>5 DEF SystemNext, Over

LEMMA InitWire == SystemInit => WireInv
BY DEF SystemInit, WireInv, SystemTypeOK, Asking, Ended, Waiting, Codes
-----------------------------------------------------------------------------
(* What a step of a handler does to its connection.                        *)

Strange == {"USER_NOT_LOGGED_IN", "ACTIVE_CLIENT", "USER_NOT_FOUND", "INVALID_ACTION"}

(***************************************************************************)
(* The request has passed the checks of a client that knows its session.   *)
(***************************************************************************)
Honest(w) ==
  /\ Action(w) \in ClientActions \ {"TERMINATION"}
  /\ Action(w) = "LOGIN" => Slot(w) = NoUser
  /\ Action(w) \in NeedsUser => User(w) = Slot(w) /\ User(w) # NoUser

(***************************************************************************)
(* The user of the connection once the answer k has been given.            *)
(***************************************************************************)
After(w, k) ==
  IF k = "SUCCESS" /\ Action(w) = "LOGIN" THEN User(w)
  ELSE IF k = "SUCCESS" /\ Action(w) = "LOGOUT" THEN NoUser
  ELSE Slot(w)

Fate(w) ==
  /\ \/ conn'[w] = conn[w] /\ req'[w] = req[w] /\ pc'[w] # "poll"
     \/ Action(w) = "DROP" /\ pc'[w] = "poll"
  /\ pc'[w] \notin {"reply", "poll"} => slot' = slot
  /\ pc'[w] = "reply" =>
       /\ slot'[conn[w]] = After(w, code'[w])
       /\ Honest(w) => /\ code'[w] \notin Strange
                       /\ Action(w) = "LOGOUT" => code'[w] = "SUCCESS"

Bystanders(w) ==
  /\ \A v \in Workers \ {w} : code'[v] = code[v]
  /\ \A c \in Conns \ {conn[w]} : slot'[c] = slot[c]

(***************************************************************************)
(* A client that knows its session is never refused as a stranger: its     *)
(* user is registered and logged in.                                       *)
(***************************************************************************)
LEMMA HonestRequests ==
  ASSUME SessionsHold, NEW w \in Workers, Honest(w), Action(w) \in NeedsUser
  PROVE  /\ pc[w] = "find" => Registered(User(w))
         /\ pc[w] = "checking" => loggedIn[User(w)] /\ Matches(w)
<1>1. User(w) = Slot(w) /\ User(w) # NoUser
  BY DEF Honest
<1>2. Frame(w) /\ SessionInv /\ AccountInv /\ TypeOK
  BY DEF SessionsHold, FrameInv
<1>3. CASE pc[w] = "find"
  <2>1. conn[w] \in Conns /\ slot[conn[w]] # NoUser
    BY <1>1, <1>2, <1>3 DEF Frame, Slot
  <2> QED BY <1>1, <1>2, <1>3, <2>1 DEF AccountInv, Slot
<1>4. CASE pc[w] = "checking"
  <2>1. /\ conn[w] \in Conns /\ owner[conn[w]] = w
        /\ User(w) \in Users
    BY <1>2, <1>4 DEF Frame, UserPhase, UserLabels
  <2>2. Session(conn[w]) = User(w)
    BY <1>1, <1>4, <2>1 DEF Session, Slot
  <2>3. loggedIn[User(w)]
    BY <1>2, <2>1, <2>2 DEF SessionInv, LoggedInMatchesSessions
  <2> QED BY <1>1, <1>4, <2>3 DEF Matches
<1> QED BY <1>3, <1>4

LEMMA HandlerSteps ==
  ASSUME SessionsHold, NEW w \in Workers, Acquire(w) \/ Proceed(w), pc[w] # "reply"
  PROVE  pc[w] # "poll" /\ Fate(w) /\ Bystanders(w)
<1> USE DEF At, Goto, Answer, Finish, accounts, conns, ledger, locks, frame
<1> USE DEF Fate, Bystanders, After, Slot
<1>0. /\ Frame(w) /\ w \in DOMAIN pc /\ w \in DOMAIN code /\ w \in DOMAIN conn
      /\ w \in DOMAIN req
      /\ pc = [v \in Workers |-> pc[v]] /\ code = [v \in Workers |-> code[v]]
      /\ slot = [c \in Conns |-> slot[c]]
  BY DEF SessionsHold, FrameInv, TypeOK
<1>1. Honest(w) /\ Action(w) \in NeedsUser =>
        /\ pc[w] = "find" => Registered(User(w))
        /\ pc[w] = "checking" => loggedIn[User(w)] /\ Matches(w)
  BY HonestRequests
<1>2. CASE Refuse(w)
  <2>1. Refusal(w) # "SUCCESS"
    BY DEF Refusal, DataError
  <2>2. Honest(w) => Refusal(w) \notin Strange
    BY DEF Refusal, DataError, Strange, Honest, NeedsUser, SeatActions, Matches
  <2>3. Honest(w) /\ Action(w) = "LOGOUT" => Refusal(w) = "NONE"
    BY DEF Refusal, DataError, Honest, NeedsUser, SeatActions
  <2>4. pc'[w] = "reply" /\ code'[w] = Refusal(w) /\ UNCHANGED <<slot, conn, req>>
    BY <1>0, <1>2 DEF Refuse
  <2> QED BY <1>0, <1>2, <2>1, <2>2, <2>3, <2>4 DEF Refuse
<1>3. CASE Admit(w)
  BY <1>0, <1>3 DEF Admit
<1>4. CASE LockArray(w)
  BY <1>0, <1>4 DEF LockArray
<1>5. CASE UserFound(w)
  BY <1>0, <1>5 DEF UserFound
<1>6. CASE LockUser(w)
  BY <1>0, <1>6 DEF LockUser
<1>7. CASE RefuseUser(w)
  BY <1>0, <1>1, <1>7 DEF RefuseUser, UserError, Strange, SeatActions, Matches, Honest, NeedsUser
<1>8. CASE Verified(w)
  BY <1>0, <1>8 DEF Verified
<1>9. CASE Grant(w)
  BY <1>0, <1>9 DEF Grant
<1>10. CASE Enroll(w)
  BY <1>0, <1>10 DEF Enroll
<1>11. CASE Deactivate(w)
  BY <1>0, <1>11 DEF Deactivate
<1>12. CASE EnterSeats(w)
  BY <1>0, <1>12 DEF EnterSeats
<1>13. CASE LockSeat(w)
  BY <1>0, <1>13 DEF LockSeat
<1>14. CASE RefuseSeat(w)
  BY <1>0, <1>14 DEF RefuseSeat, SeatError, Strange
<1>15. CASE AdmitSeat(w)
  BY <1>0, <1>15 DEF AdmitSeat
<1>16. CASE TakeSeat(w)
  BY <1>0, <1>16 DEF TakeSeat, Frame, Strange
<1>17. CASE GiveUpSeat(w)
  BY <1>0, <1>17 DEF GiveUpSeat, Frame, Strange
<1>18. CASE ScanSeat(w)
  BY <1>0, <1>18 DEF ScanSeat, Frame, Strange
<1>19. CASE CopyBooked(w)
  BY <1>0, <1>19 DEF CopyBooked
<1>20. CASE CopyCanceled(w)
  BY <1>0, <1>20 DEF CopyCanceled, Frame, Strange
<1>21. CASE UserMissing(w)
  BY <1>0, <1>1, <1>21 DEF UserMissing, Strange, Honest, NeedsUser, SeatActions
<1>22. CASE Register(w)
  BY <1>0, <1>22 DEF Register
<1>23. CASE SaveActiveUser(w)
  BY <1>0, <1>23 DEF SaveActiveUser, Frame, Strange
<1>24. CASE ClearActiveUser(w)
  BY <1>0, <1>24 DEF ClearActiveUser, Frame, Strange
<1>25. ~SendResponse(w)
  BY DEF SendResponse
<1> QED
  BY <1>2, <1>3, <1>4, <1>5, <1>6, <1>7, <1>8, <1>9, <1>10, <1>11, <1>12, <1>13, <1>14, <1>15, <1>16, <1>17, <1>18, <1>19, <1>20, <1>21, <1>22, <1>23, <1>24, <1>25 DEF Acquire, Proceed
-----------------------------------------------------------------------------
(* What client and server know of one another.                             *)

Serves(w, c) == conn[w] = c /\ pc[w] # "poll"
Unserved(c) == \A w \in Workers : ~Serves(w, c)

(***************************************************************************)
(* The answer k to what c has asked: the server has the user c will have   *)
(* when it has read it.                                                    *)
(***************************************************************************)
Outcome(c, k) ==
  IF k = "SUCCESS" /\ asked[c].action = "LOGIN" THEN asked[c].user
  ELSE IF k = "SUCCESS" /\ asked[c].action = "LOGOUT" THEN NoUser
  ELSE activeUser[c]

Answered(c, k) ==
  /\ slot[c] = Outcome(c, k)
  /\ k \notin Strange
  /\ asked[c].action = "LOGOUT" => k = "SUCCESS"

Taken(w, c) ==
  /\ req[w] = asked[c]
  /\ pc[w] # "reply" => slot[c] = activeUser[c]
  /\ pc[w] = "reply" => Answered(c, code[w])

Agrees(c) ==
  /\ client[c] = "prompt" => wire[c] = "idle" /\ Unserved(c) /\ slot[c] = activeUser[c]
  /\ client[c] \in Waiting =>
       /\ wire[c] = "request" => Unserved(c) /\ slot[c] = activeUser[c]
       /\ wire[c] = "taken" => \A w \in Workers : Serves(w, c) => Taken(w, c)
       /\ wire[c] \in Codes => Unserved(c) /\ Answered(c, wire[c])
  /\ client[c] = "exited" => wire[c] = "idle" /\ Unserved(c) /\ slot[c] = NoUser

(***************************************************************************)
(* What a client knows by itself.                                          *)
(***************************************************************************)
SelfChecked(c) ==
  /\ client[c] \in Ended => activeUser[c] = NoUser
  /\ client[c] \in Waiting =>
       /\ asked[c].action = "LOGIN" => activeUser[c] = NoUser
       /\ asked[c].action \in NeedsUser =>
            activeUser[c] # NoUser /\ asked[c].user = activeUser[c]
       /\ client[c] = "leaving" => asked[c].action = "LOGOUT"
       /\ wire[c] # "idle"
  /\ wire[c] \in Codes => client[c] \in Waiting /\ wire[c] \notin Strange

ClientInv ==
  /\ WireInv
  /\ \A c \in Conns : SelfChecked(c)
  /\ Up => \A c \in Conns : Agrees(c)

(***************************************************************************)
(* A step that happens elsewhere.                                          *)
(***************************************************************************)
SameFor(c) ==
  /\ client'[c] = client[c] /\ activeUser'[c] = activeUser[c]
  /\ asked'[c] = asked[c] /\ wire'[c] = wire[c]

LEMMA ElsewhereAgrees ==
  ASSUME NEW c \in Conns, Agrees(c), SameFor(c), slot'[c] = slot[c],
         \A v \in Workers : Serves(v, c)' =>
           /\ Serves(v, c)
           /\ req'[v] = req[v] /\ code'[v] = code[v] /\ pc'[v] = pc[v]
  PROVE  Agrees(c)'
BY DEF Agrees, SameFor, Unserved, Taken, Answered, Outcome

LEMMA ElsewhereChecked ==
  ASSUME NEW c \in Conns, SelfChecked(c), SameFor(c)
  PROVE  SelfChecked(c)'
BY DEF SelfChecked, SameFor

(***************************************************************************)
(* One worker serves a connection, the one that owns it.                   *)
(***************************************************************************)
LEMMA OneServes ==
  ASSUME SessionsHold, NEW v \in Workers, NEW w \in Workers, NEW c \in Conns,
         Serves(v, c), Serves(w, c)
  PROVE  v = w
BY DEF SessionsHold, FrameInv, Frame, Serves

(***************************************************************************)
(* The steps of a client.                                                  *)
(***************************************************************************)
LEMMA ClientSteps ==
  ASSUME SessionsHold, ClientInv, NEW c \in Conns, Client(c)
  PROVE  /\ \A d \in Conns : SelfChecked(d)'
         /\ Up' => \A d \in Conns : Agrees(d)'
<1> USE DEF clients, Become, End, Waiting, Ended
<1>1. /\ WireInv /\ SystemTypeOK /\ SelfChecked(c) /\ (Up => Agrees(c))
      /\ client = [d \in Conns |-> client[d]] /\ wire = [d \in Conns |-> wire[d]]
      /\ asked = [d \in Conns |-> asked[d]]
      /\ activeUser = [d \in Conns |-> activeUser[d]]
  BY DEF ClientInv, WireInv, SystemTypeOK
<1>2. UNCHANGED <<vars, serverUp>> /\ \A d \in Conns \ {c} : SameFor(d)
  BY <1>1
  DEF Client, Connect, Exit, Terminate, JustExit, Send, Kill, ReceiveResponse,
      ServerGone, Evaluate, SameFor, server
<1>3. /\ Up' = Up /\ slot' = slot /\ pc' = pc /\ conn' = conn /\ req' = req
      /\ code' = code
  BY <1>2 DEF Up, vars, conns, frame
<1>4. \A d \in Conns \ {c} : SelfChecked(d)' /\ (Up' => Agrees(d)')
  BY <1>2, <1>3, ElsewhereAgrees, ElsewhereChecked DEF ClientInv, Serves
<1>5. SelfChecked(c)' /\ (Up => Agrees(c)')
  <2> USE <1>1, <1>3
  <2>1. CASE Connect(c)
    <3>1. slot[c] = NoUser /\ Unserved(c) /\ activeUser[c] = NoUser
      BY <2>1, ServerAssumption
      DEF Connect, SessionsHold, AccountInv, FrameInv, Frame, Unserved, Serves, SelfChecked
    <3>2. /\ client'[c] = "prompt" /\ wire'[c] = "idle" /\ activeUser'[c] = NoUser
          /\ Unserved(c)' /\ slot'[c] = NoUser
      BY <2>1, <3>1 DEF Connect, Unserved, Serves
    <3> QED BY <3>2 DEF SelfChecked, Agrees, Codes
  <2>2. CASE Exit(c)
    <3>1. CASE activeUser[c] = NoUser
      <4>1. /\ client'[c] = "exited" /\ wire'[c] = wire[c] /\ asked'[c] = asked[c]
            /\ activeUser'[c] = NoUser /\ client[c] = "prompt"
        BY <2>2, <3>1 DEF Exit, Terminate, JustExit
      <4> QED BY <3>1, <4>1 DEF SelfChecked, Agrees, Unserved, Serves
    <3>2. CASE activeUser[c] # NoUser
      <4>1. /\ client'[c] = "leaving" /\ wire'[c] = "request"
            /\ asked'[c].action = "LOGOUT" /\ asked'[c].user = activeUser[c]
            /\ activeUser'[c] = activeUser[c] /\ client[c] = "prompt"
        BY <2>2, <3>2 DEF Exit, Terminate, Send
      <4> QED BY <3>2, <4>1 DEF SelfChecked, Agrees, Unserved, Serves, Codes
    <3> QED BY <3>1, <3>2
  <2>3. CASE Kill(c)
    BY <2>3 DEF Kill, SelfChecked, Agrees, Codes
  <2>4. CASE ReceiveResponse(c)
    <3>1. /\ client[c] \in Waiting /\ wire[c] \in Codes /\ wire'[c] = "idle"
          /\ client'[c] = IF client[c] = "leaving" THEN "exited" ELSE "prompt"
          /\ activeUser'[c] = IF LoggedIn(c) THEN asked[c].user
                              ELSE IF LoggedOut(c) \/ client[c] = "leaving" THEN NoUser
                              ELSE activeUser[c]
      BY <2>4 DEF ReceiveResponse
    <3>2. SelfChecked(c)'
      BY <3>1 DEF SelfChecked, LoggedIn, Codes
    <3>3. ASSUME Up PROVE Agrees(c)'
      <4>1. Unserved(c) /\ Answered(c, wire[c])
        BY <3>1, <3>3 DEF Agrees
      <4>2. activeUser'[c] = Outcome(c, wire[c])
        BY <3>1, <4>1 DEF Answered, Outcome, LoggedIn, LoggedOut, SelfChecked, NeedsUser
      <4>3. slot'[c] = activeUser'[c] /\ Unserved(c)'
        BY <4>1, <4>2 DEF Answered, Unserved, Serves
      <4>4. client[c] = "leaving" => activeUser'[c] = NoUser
        BY <3>1 DEF LoggedIn, SelfChecked
      <4> QED BY <3>1, <4>3, <4>4 DEF Agrees
    <3> QED BY <3>2, <3>3
  <2>5. CASE ServerGone(c)
    BY <2>5 DEF ServerGone, SelfChecked, Agrees
  <2>6. ASSUME NEW line \in Lines, Evaluate(c, line)
        PROVE  SelfChecked(c)' /\ (Up => Agrees(c)')
    <3>1. /\ client'[c] = "waiting" /\ wire'[c] = "request" /\ client[c] = "prompt"
          /\ activeUser'[c] = activeUser[c] /\ asked'[c] = ParseRequest(c, line)
          /\ ~RefuseInput(c, line)
      BY <2>6 DEF Evaluate, Send
    <3>2. /\ asked'[c].action = "LOGIN" => activeUser[c] = NoUser
          /\ asked'[c].action \in NeedsUser =>
               activeUser[c] # NoUser /\ asked'[c].user = activeUser[c]
      BY <3>1 DEF ParseRequest, RefuseInput, NeedsUser
    <3> QED BY <3>1, <3>2 DEF SelfChecked, Agrees, Unserved, Serves, Codes
  <2> QED
    BY <2>1, <2>2, <2>3, <2>4, <2>5, <2>6 DEF Client
<1> QED BY <1>3, <1>4, <1>5

(***************************************************************************)
(* The steps of a handler on its way to an answer.                         *)
(***************************************************************************)
LEMMA HandlerAgrees ==
  ASSUME SessionsHold, ClientInv, Up, NEW w \in Workers, Acquire(w) \/ Proceed(w),
         pc[w] # "reply", UNCHANGED <<clients, wire>>, NEW c \in Conns
  PROVE  Agrees(c)'
<1>1. /\ pc[w] # "poll" /\ Fate(w) /\ Bystanders(w)
      /\ StepOf(w) /\ Frame(w) /\ Agrees(c) /\ SelfChecked(c) /\ WireInv
  BY HandlerSteps, WorkerKeepsFrame DEF SessionsHold, FrameInv, ClientInv
<1>2. SameFor(c)
  BY DEF SameFor, clients
<1>3. ASSUME NEW v \in Workers, v # w, Serves(v, c)'
      PROVE  /\ Serves(v, c)
             /\ req'[v] = req[v] /\ code'[v] = code[v] /\ pc'[v] = pc[v]
  BY <1>1, <1>3 DEF StepOf, Bystanders, Serves
<1>4. CASE conn[w] # c
  <2>1. slot'[c] = slot[c] /\ ~Serves(w, c)'
    BY <1>1, <1>4 DEF Bystanders, Fate, Serves
  <2> QED BY <1>1, <1>2, <1>3, <2>1, ElsewhereAgrees
<1>5. CASE conn[w] = c
  <2>1. Serves(w, c) /\ ~Unserved(c)
    BY <1>1, <1>5 DEF Serves, Unserved
  <2>2. client[c] \notin {"prompt", "exited"}
    BY <1>1, <2>1 DEF Agrees
  <2>3. CASE client[c] \in Waiting
    <3>1. wire[c] = "taken" /\ req[w] = asked[c] /\ slot[c] = activeUser[c]
      BY <1>1, <2>1, <2>3 DEF Agrees, SelfChecked, Taken, WireInv, SystemTypeOK
    <3>2. /\ Whole(asked[c]) /\ Slot(w) = activeUser[c]
          /\ Action(w) = asked[c].action /\ User(w) = asked[c].user
      BY <1>1, <1>5, <2>3, <3>1 DEF WireInv, Asking, Slot, Action, User
    <3>3. Honest(w) /\ Action(w) # "DROP"
      BY <1>1, <2>3, <3>2 DEF Honest, SelfChecked, Whole, Request, ClientActions
    <3>4. /\ pc'[w] # "poll" /\ conn'[w] = c /\ req'[w] = asked[c]
          /\ pc'[w] # "reply" => slot'[c] = activeUser[c]
          /\ pc'[w] = "reply" => /\ slot'[c] = After(w, code'[w])
                                 /\ code'[w] \notin Strange
                                 /\ Action(w) = "LOGOUT" => code'[w] = "SUCCESS"
      BY <1>1, <1>5, <3>1, <3>3 DEF Fate
    <3>5. Taken(w, c)'
      BY <1>2, <3>2, <3>4 DEF Taken, Answered, Outcome, After, SameFor
    <3>6. \A v \in Workers : Serves(v, c)' => v = w
      BY <1>3, <2>1, OneServes
    <3> QED
      BY <1>2, <2>3, <3>1, <3>5, <3>6 DEF Agrees, SameFor, Waiting, Codes
  <2>4. CASE client[c] \notin Waiting
    BY <1>2, <2>2, <2>4 DEF Agrees, SameFor
  <2> QED BY <2>3, <2>4
<1> QED BY <1>4, <1>5

(***************************************************************************)
(* An answer is sent, or a connection removed: w is done, or has a session *)
(* to end on the connection it looks at.                                   *)
(***************************************************************************)
Turns(w, c) ==
  /\ UNCHANGED slot
  /\ \A v \in Workers \ {w} :
       /\ conn'[v] = conn[v] /\ req'[v] = req[v]
       /\ code'[v] = code[v] /\ pc'[v] = pc[v]
  /\ pc'[w] = "poll" \/ (conn'[w] = c /\ slot[c] # NoUser)

LEMMA RemovalTurns ==
  ASSUME TypeOK, NEW w \in Workers, NEW c \in Conns, RemoveFromPollset(w, c)
  PROVE  Turns(w, c)
BY DEF RemoveFromPollset, Turns, Finish, Goto, TypeOK, conns

LEMMA RespondTurns ==
  ASSUME TypeOK, NEW w \in Workers, SendResponse(w)
  PROVE  Turns(w, conn[w])
BY DEF SendResponse, Turns, Finish, Goto, TypeOK, conns

LEMMA OthersAgree ==
  ASSUME TypeOK, NEW w \in Workers, NEW c \in Conns, Turns(w, c),
         NEW d \in Conns, d # c, Agrees(d), SameFor(d)
  PROVE  Agrees(d)'
<1>1. \A v \in Workers : Serves(v, d)' =>
        /\ Serves(v, d)
        /\ req'[v] = req[v] /\ code'[v] = code[v] /\ pc'[v] = pc[v]
  BY DEF Turns, Serves
<1> QED BY <1>1, ElsewhereAgrees DEF Turns

(***************************************************************************)
(* The connection of a client that is gone.                                *)
(***************************************************************************)
LEMMA GoneAgrees ==
  ASSUME TypeOK, NEW w \in Workers, NEW c \in Conns, Turns(w, c), Agrees(c),
         IsGone(c), client'[c] = client[c],
         wire'[c] = wire[c] \/ wire'[c] = "idle"
  PROVE  Agrees(c)'
<1>1. client[c] = "exited" => Unserved(c)' /\ slot'[c] = NoUser /\ wire'[c] = "idle"
  BY DEF Agrees, Turns, Unserved, Serves
<1> QED BY <1>1 DEF Agrees, IsGone, Ended, Waiting

LEMMA AnswerAgrees ==
  ASSUME SessionsHold, ClientInv, Up, NEW w \in Workers, Respond(w)
  PROVE  \A c \in Conns : SelfChecked(c)' /\ Agrees(c)'
<1>0. pc[w] = "reply" /\ conn[w] \in Conns
  BY DEF Respond, SendResponse, At, SessionsHold, FrameInv, Frame
<1> PICK d \in Conns : d = conn[w]
  BY <1>0
<1>1. /\ pc[w] = "reply" /\ Serves(w, d) /\ TypeOK /\ Turns(w, d)
      /\ SelfChecked(d) /\ Agrees(d) /\ wire' = [wire EXCEPT ![d] =
                IF IsGone(d) THEN "idle" ELSE code[w]]
      /\ code[w] \in Codes /\ d \in DOMAIN wire
  BY <1>0, RespondTurns
  DEF Respond, SendResponse, At, SessionsHold, FrameInv, Frame, Serves, ClientInv,
      TypeOK, WireInv, SystemTypeOK
<1>2. UNCHANGED clients
  BY DEF Respond
<1>3. ASSUME NEW c \in Conns, c # d PROVE SelfChecked(c)' /\ Agrees(c)'
  <2>1. SameFor(c) /\ SelfChecked(c) /\ Agrees(c)
    BY <1>1, <1>2, <1>3 DEF SameFor, clients, ClientInv, WireInv, SystemTypeOK
  <2> QED BY <1>1, <1>3, <2>1, OthersAgree, ElsewhereChecked
<1>4. CASE IsGone(d)
  <2>1. wire'[d] = "idle" /\ client'[d] = client[d] /\ activeUser'[d] = activeUser[d]
    BY <1>1, <1>2, <1>4 DEF clients
  <2>2. SelfChecked(d)'
    BY <1>1, <1>4, <2>1 DEF SelfChecked, IsGone, Ended, Waiting, Codes
  <2>3. Agrees(d)'
    BY <1>1, <1>4, <2>1, GoneAgrees
  <2> QED BY <1>3, <2>2, <2>3
<1>5. CASE ~IsGone(d)
  <2>1. client[d] \in Waiting /\ wire[d] = "taken" /\ Taken(w, d)
    <3>1. ~Unserved(d) /\ client[d] \in {"prompt"} \cup Waiting /\ wire[d] # "idle"
      BY <1>1, <1>5
      DEF Unserved, IsGone, ClientInv, WireInv, SystemTypeOK, Agrees, SelfChecked
    <3> QED
      BY <1>1, <3>1 DEF Agrees, ClientInv, WireInv, SystemTypeOK
  <2>2. Answered(d, code[w])
    BY <1>1, <2>1 DEF Taken
  <2>3. /\ wire'[d] = code[w] /\ client'[d] = client[d] /\ asked'[d] = asked[d]
        /\ activeUser'[d] = activeUser[d] /\ slot'[d] = slot[d]
    BY <1>1, <1>2, <1>5 DEF clients, Turns
  <2>4. Unserved(d)'
    <3>1. \A v \in Workers \ {w} : ~Serves(v, d)
      BY <1>1, OneServes
    <3>2. pc'[w] = "poll"
      BY <1>1 DEF Respond, SendResponse, Finish, Goto, TypeOK
    <3> QED BY <1>1, <3>1, <3>2 DEF Unserved, Serves, Turns
  <2>5. SelfChecked(d)'
    BY <1>1, <2>1, <2>2, <2>3 DEF SelfChecked, Answered, Codes, Waiting, Ended
  <2>6. Agrees(d)'
    BY <1>1, <2>1, <2>2, <2>3, <2>4 DEF Agrees, Answered, Outcome, Codes, Waiting
  <2> QED BY <1>3, <2>5, <2>6
<1> QED BY <1>4, <1>5

(***************************************************************************)
(* A connection whose client is gone is removed: after an answer could not *)
(* be sent, or when the end of the stream is noticed.                      *)
(***************************************************************************)
LEMMA RemovalAgrees ==
  ASSUME SessionsHold, ClientInv, Up, NEW w \in Workers, NEW c \in Conns,
         RemoveFromPollset(w, c), IsGone(c), UNCHANGED clients,
         wire'[c] = wire[c] \/ wire'[c] = "idle",
         \A d \in Conns \ {c} : wire'[d] = wire[d]
  PROVE  \A d \in Conns : SelfChecked(d)' /\ Agrees(d)'
<1>1. /\ TypeOK /\ Turns(w, c) /\ client' = client /\ activeUser' = activeUser
      /\ asked' = asked /\ \A d \in Conns : SelfChecked(d) /\ Agrees(d)
  BY RemovalTurns DEF SessionsHold, clients, ClientInv
<1>2. ASSUME NEW d \in Conns, d # c PROVE SelfChecked(d)' /\ Agrees(d)'
  BY <1>1, <1>2, OthersAgree, ElsewhereChecked DEF SameFor
<1>3. Agrees(c)'
  BY <1>1, GoneAgrees
<1>4. SelfChecked(c)'
  BY <1>1 DEF SelfChecked, IsGone, Ended, Waiting, Codes
<1> QED BY <1>2, <1>3, <1>4

LEMMA WorkerAgrees ==
  ASSUME SessionsHold, ClientInv, Up, NEW w \in Workers, Worker(w)
  PROVE  /\ \A c \in Conns : SelfChecked(c)'
         /\ Up' => \A c \in Conns : Agrees(c)'
<1>1. CASE HandlerLocks(w) \/ HandlerRuns(w)
  <2>1. /\ Acquire(w) \/ Proceed(w)
        /\ pc[w] # "reply"
        /\ UNCHANGED <<clients, wire>>
    BY <1>1
    DEF HandlerLocks, HandlerRuns, Acquire, LockArray, LockUser, Enroll, LockSeat, At
  <2>2. \A c \in Conns : SelfChecked(c)'
    BY <2>1, ElsewhereChecked DEF ClientInv, SameFor, clients
  <2> QED BY <2>1, <2>2, HandlerAgrees
<1>2. CASE Respond(w)
  BY <1>2, AnswerAgrees
<1>3. CASE RespondFails(w)
  <2>1. /\ conn[w] \in Conns /\ wire = [c \in Conns |-> wire[c]]
        /\ RemoveFromPollset(w, conn[w]) /\ IsGone(conn[w]) /\ UNCHANGED clients
        /\ wire' = [wire EXCEPT ![conn[w]] = "idle"]
    BY <1>3
    DEF RespondFails, SendFails, At, SessionsHold, FrameInv, Frame, ClientInv, WireInv,
        SystemTypeOK
  <2> QED BY <2>1, RemovalAgrees
<1>4. CASE Sigpipe(w)
  <2>1. ~Up' /\ UNCHANGED <<clients, wire>>
    BY <1>4 DEF Sigpipe, Up
  <2> QED BY <2>1, ElsewhereChecked DEF ClientInv, SameFor, clients
<1> QED BY <1>1, <1>2, <1>3, <1>4 DEF Worker

LEMMA PollAgrees ==
  ASSUME SessionsHold, ClientInv, Up, NEW c \in Conns, NEW w \in Workers,
         Accept(c, w) \/ TakeRequest(c, w) \/ NoticeEnd(c, w)
  PROVE  \A d \in Conns : SelfChecked(d)' /\ Agrees(d)'
<1>1. /\ TypeOK /\ FrameInv /\ AccountInv /\ WireInv /\ SystemTypeOK
      /\ \A d \in Conns : SelfChecked(d) /\ Agrees(d)
      /\ slot = [d \in Conns |-> slot[d]] /\ wire = [d \in Conns |-> wire[d]]
  BY DEF SessionsHold, ClientInv, WireInv, SystemTypeOK, TypeOK
<1>2. CASE Accept(c, w)
  <2>1. slot' = slot /\ UNCHANGED <<pc, conn, req, code, clients, wire>>
    BY <1>1, <1>2 DEF Accept, AddToPollset, AccountInv, frame
  <2>2. ASSUME NEW d \in Conns PROVE SameFor(d)
    BY <2>1 DEF SameFor, clients
  <2>3. ASSUME NEW d \in Conns, NEW v \in Workers, Serves(v, d)'
        PROVE  Serves(v, d) /\ req'[v] = req[v] /\ code'[v] = code[v] /\ pc'[v] = pc[v]
    BY <2>1, <2>3 DEF Serves
  <2> QED BY <1>1, <2>1, <2>2, <2>3, ElsewhereAgrees, ElsewhereChecked
<1>3. CASE TakeRequest(c, w)
  <2>1. /\ pc[w] = "poll" /\ owner[c] = w /\ wire[c] = "request" /\ UNCHANGED clients
        /\ wire'[c] = "taken" /\ \A d \in Conns \ {c} : wire'[d] = wire[d]
        /\ pc'[w] = "dispatch" /\ conn'[w] = c /\ req'[w] = asked[c]
        /\ slot' = slot /\ code' = code
        /\ \A v \in Workers \ {w} :
             pc'[v] = pc[v] /\ conn'[v] = conn[v] /\ req'[v] = req[v]
    BY <1>1, <1>3
    DEF TakeRequest, ReceiveRequest, At, Goto, TypeOK, conns
  <2>2. ASSUME NEW d \in Conns, d # c PROVE SelfChecked(d)' /\ Agrees(d)'
    <3>1. SameFor(d)
      BY <2>1, <2>2 DEF SameFor, clients
    <3>2. ASSUME NEW v \in Workers, Serves(v, d)'
          PROVE  Serves(v, d) /\ req'[v] = req[v] /\ code'[v] = code[v] /\ pc'[v] = pc[v]
      BY <2>1, <2>2, <3>2 DEF Serves
    <3> QED BY <1>1, <2>1, <3>1, <3>2, ElsewhereAgrees, ElsewhereChecked
  <2>3. SelfChecked(c)'
    BY <1>1, <2>1 DEF SelfChecked, clients, Codes
  <2>4. Agrees(c)'
    <3>1. \A v \in Workers : Serves(v, c)' => v = w
      <4>1. \A v \in Workers : Serves(v, c) => v = w
        BY <1>1, <2>1 DEF Serves, FrameInv, Frame
      <4> QED BY <2>1, <4>1 DEF Serves
    <3>2. client'[c] = client[c] /\ asked'[c] = asked[c] /\ activeUser'[c] = activeUser[c]
      BY <2>1 DEF clients
    <3>3. client[c] \in Waiting => slot[c] = activeUser[c]
      BY <1>1, <2>1 DEF Agrees
    <3>4. client[c] \notin {"prompt", "exited"}
      BY <1>1, <2>1 DEF Agrees
    <3> QED
      BY <2>1, <3>1, <3>2, <3>3, <3>4 DEF Agrees, Taken, Codes
  <2> QED BY <2>2, <2>3, <2>4
<1>4. CASE NoticeEnd(c, w)
  BY <1>4, RemovalAgrees DEF NoticeEnd, Hangup, clients
<1> QED BY <1>2, <1>3, <1>4
-----------------------------------------------------------------------------
(* The invariant of the whole system.                                      *)

SystemInv == SessionsHold /\ ClientInv

LEMMA InitClient == SystemInit => SystemInv
<1> SUFFICES ASSUME SystemInit PROVE SystemInv
  OBVIOUS
<1>1. SessionsHold
  BY InitFrame, InitLocks, InitSessions DEF SystemInit, SessionsHold
<1>2. ClientInv
  BY InitWire
  DEF SystemInit, ClientInv, SelfChecked, Agrees, Ended, Waiting, Codes
<1> QED BY <1>1, <1>2 DEF SystemInv

LEMMA NextKeepsClients ==
  ASSUME SystemInv, [SystemNext]_system
  PROVE  SystemInv'
<1>1. SessionsHold /\ ClientInv /\ WireInv /\ TypeOK
  BY DEF SystemInv, ClientInv, SessionsHold
<1>2. SessionsHold'
  BY <1>1, StepsAreServerSteps, NextKeepsFrame, NextKeepsLocks, NextKeepsSessions
  DEF SessionsHold
<1>3. WireInv'
  BY <1>1, SystemKeepsWire
<1>4. (\A c \in Conns : SelfChecked(c)') /\ (Up' => \A c \in Conns : Agrees(c)')
  <2>1. CASE UNCHANGED system
    <3>1. Up' = Up /\ slot' = slot /\ UNCHANGED <<pc, conn, req, code, clients, wire>>
      BY <2>1 DEF system, server, vars, conns, frame, Up
    <3>2. ASSUME NEW c \in Conns PROVE SameFor(c)
      BY <3>1 DEF SameFor, clients
    <3>3. ASSUME NEW c \in Conns, NEW v \in Workers, Serves(v, c)'
          PROVE  Serves(v, c) /\ req'[v] = req[v] /\ code'[v] = code[v] /\ pc'[v] = pc[v]
      BY <3>1, <3>3 DEF Serves
    <3> QED
      BY <1>1, <3>1, <3>2, <3>3, ElsewhereAgrees, ElsewhereChecked DEF ClientInv
  <2>2. ASSUME NEW w \in Workers, Worker(w)
        PROVE (\A c \in Conns : SelfChecked(c)') /\ (Up' => \A c \in Conns : Agrees(c)')
    BY <1>1, <2>2, WorkerAgrees
    DEF Worker, HandlerLocks, HandlerRuns, Respond, RespondFails, Sigpipe
  <2>3. ASSUME NEW c \in Conns, Client(c)
        PROVE (\A d \in Conns : SelfChecked(d)') /\ (Up' => \A d \in Conns : Agrees(d)')
    BY <1>1, <2>3, ClientSteps
  <2>4. ASSUME NEW c \in Conns, NEW w \in Workers,
               Accept(c, w) \/ TakeRequest(c, w) \/ NoticeEnd(c, w)
        PROVE (\A d \in Conns : SelfChecked(d)') /\ (Up' => \A d \in Conns : Agrees(d)')
    BY <1>1, <2>4, PollAgrees DEF Accept, TakeRequest, NoticeEnd
  <2> QED BY <2>1, <2>2, <2>3, <2>4 DEF SystemNext, Over
<1> QED BY <1>2, <1>3, <1>4 DEF SystemInv, ClientInv

LEMMA SystemInvariant == SystemSpec => []SystemInv
<1>1. SystemInit => SystemInv
  BY InitClient
<1>2. SystemInv /\ [SystemNext]_system => SystemInv'
  BY NextKeepsClients
<1> QED BY <1>1, <1>2, PTL DEF SystemSpec

(***************************************************************************)
(* A connection nobody serves is in neither of the windows in which its    *)
(* slot lags behind.                                                       *)
(***************************************************************************)
LEMMA IdleSession ==
  ASSUME NEW c \in Conns, Unserved(c)
  PROVE  Session(c) = slot[c]
BY DEF Session, Unserved, Serves
-----------------------------------------------------------------------------

(***************************************************************************)
(* In the company of its clients the server does what it may do when every *)
(* request can arrive at any time: whatever holds of SeatServer on its own *)
(* holds of the requests that clients really send.                         *)
(***************************************************************************)
THEOREM SystemImplementsServer == SystemSpec => Spec
<1>1. SystemInit => Init
  BY DEF SystemInit
<1>2. SystemInv /\ [SystemNext]_system => [Next]_vars
  BY StepsAreServerSteps DEF SystemInv, ClientInv
<1> QED BY <1>1, <1>2, SystemInvariant, PTL DEF SystemSpec, Spec

(***************************************************************************)
(* A client at its prompt knows the user the server has for it.            *)
(***************************************************************************)
THEOREM ClientsKnowTheirSessions == SystemSpec => []ClientKnowsItsSession
<1>1. SystemInv => ClientKnowsItsSession
  BY IdleSession DEF SystemInv, ClientInv, ClientKnowsItsSession, Agrees
<1> QED BY <1>1, SystemInvariant, PTL

(***************************************************************************)
(* No client is ever answered that it is not logged in, already logged in, *)
(* unknown, or asks for something the server does not know.                *)
(***************************************************************************)
THEOREM NobodyIsAStranger == SystemSpec => []NeverAStranger
<1>1. SystemInv => NeverAStranger
  BY DEF SystemInv, ClientInv, SelfChecked, NeverAStranger, Strange, Codes
<1> QED BY <1>1, SystemInvariant, PTL

(***************************************************************************)
(* A client that left by way of terminate() leaves no session behind.      *)
(***************************************************************************)
THEOREM OrderlyExitsLogOut == SystemSpec => []OrderlyExitLogsOut
<1>1. SystemInv => OrderlyExitLogsOut
  BY IdleSession DEF SystemInv, ClientInv, OrderlyExitLogsOut, Agrees
<1> QED BY <1>1, SystemInvariant, PTL
=============================================================================
