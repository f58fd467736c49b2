---------------------------- MODULE FileTransfer ----------------------------
(***************************************************************************)
(* The file transfer of week 10: clients (src/week10/client.c) that send   *)
(* files to one server (src/week10/server.c), which serves one connection  *)
(* after another and keeps a copy of each file on its disk.                *)
(*                                                                         *)
(* A client announces a name, waits for the acknowledgement, sends the     *)
(* file in blocks and ends it with EndOfFile.  Either side may be          *)
(* interrupted at any point, also in the middle of a message.              *)
(***************************************************************************)
EXTENDS Naturals, Sequences, FiniteSets, SequencesExt

CONSTANTS Clients,
          Names,      \* valid file names
          MaxLine,    \* MAXLINE
          Limit,      \* 200000: a file has to be smaller
          MaxSize,    \* bound: how far a file may grow
          Sizes,      \* the sizes a file may have at first
          Buffer,     \* messages a connection holds
          NoClient, NoName

ASSUME TransferAssumption ==
  /\ Clients # {} /\ NoClient \notin Clients
  /\ NoName \notin Names
  /\ MaxLine \in Nat \ {0} /\ Limit \in Nat \ {0} /\ Buffer \in Nat \ {0}
  /\ MaxSize \in Nat /\ Sizes \subseteq 0..MaxSize

VARIABLES
  size,       \* the size of each file of each client
  client,     \* where a client is
  name,       \* file_name
  sent,       \* total_chars_sent
  block,      \* file_data, read and not yet sent
  toServer,   \* what is on its way from a client
  acked,      \* the acknowledgement is on its way to a client
  ended,      \* the client's end of a connection is closed
  dropped,    \* the server's end of a connection is closed
  queue,      \* connections that wait to be accepted
  server,     \* where the server is
  peer,       \* the client it serves
  target,     \* the file it writes
  received,   \* total_chars_received
  copy        \* the copies on the server's disk

files == <<size, copy>>
sending == <<name, sent, block>>
wires == <<toServer, acked, ended, dropped>>
receiving == <<peer, target, received>>

vars == <<files, client, sending, wires, queue, server, receiving>>

(***************************************************************************)
(* The first n bytes of a client's file: no two bytes are the same.        *)
(***************************************************************************)
Bytes(c, from, n) == [i \in 1..n |-> <<c, from + i>>]

Messages ==
  [op : {"name"}, name : Names] \cup [op : {"data"}, data : Seq(Clients \X Nat)]
    \cup {[op |-> "eof"], [op |-> "torn"]}

Idle == {"off", "prompt"}
Sending == {"name", "block", "eof"}

TypeOK ==
  /\ size \in [Clients -> [Names -> 0..MaxSize]]
  /\ client \in [Clients -> Idle \cup Sending \cup {"ack", "read"}]
  /\ name \in [Clients -> Names \cup {NoName}]
  /\ sent \in [Clients -> 0..MaxSize]
  /\ \A c \in Clients : /\ Len(block[c]) \in 0..MaxLine
                        /\ Len(toServer[c]) \in 0..Buffer
                        /\ Range(toServer[c]) \subseteq Messages
  /\ acked \in [Clients -> BOOLEAN]
  /\ ended \in [Clients -> BOOLEAN]
  /\ dropped \in [Clients -> BOOLEAN]
  /\ IsInjective(queue) /\ Range(queue) \subseteq Clients
  /\ server \in {"down", "accept", "name", "ack", "data", "large", "close"}
  /\ peer \in Clients \cup {NoClient}
  /\ target \in Names \cup {NoName}
  /\ received \in 0..MaxSize
  /\ copy \in [Names -> Seq(Clients \X Nat)]

Init ==
  /\ size \in [Clients -> [Names -> Sizes]]
  /\ client = [c \in Clients |-> "off"]
  /\ name = [c \in Clients |-> NoName]
  /\ sent = [c \in Clients |-> 0]
  /\ block = [c \in Clients |-> <<>>]
  /\ toServer = [c \in Clients |-> <<>>]
  /\ acked = [c \in Clients |-> FALSE]
  /\ ended = [c \in Clients |-> TRUE]
  /\ dropped = [c \in Clients |-> TRUE]
  /\ queue = <<>>
  /\ server = "accept"
  /\ peer = NoClient
  /\ target = NoName
  /\ received = 0
  /\ copy = [f \in Names |-> <<>>]

-----------------------------------------------------------------------------
(* The client.                                                             *)

Goto(c, l) == client' = [client EXCEPT ![c] = l]

(***************************************************************************)
(* A message is written as a whole if there is room.  After the server has *)
(* closed its end it is lost, or SIGPIPE ends the client (ClientEnds).     *)
(***************************************************************************)
Put(c, m) ==
  \/ /\ ~dropped[c]
     /\ Len(toServer[c]) < Buffer
     /\ toServer' = [toServer EXCEPT ![c] = Append(@, m)]
  \/ /\ dropped[c]
     /\ UNCHANGED toServer

(***************************************************************************)
(* setup_conn_fd.                                                          *)
(***************************************************************************)
Connect(c) ==
  /\ client[c] = "off"
  /\ server # "down"
  /\ ended[c] /\ dropped[c]
  /\ Goto(c, "prompt")
  /\ sent' = [sent EXCEPT ![c] = 0]
  /\ ended' = [ended EXCEPT ![c] = FALSE]
  /\ dropped' = [dropped EXCEPT ![c] = FALSE]
  /\ queue' = Append(queue, c)
  /\ UNCHANGED <<files, name, block, toServer, acked, server, receiving>>

(***************************************************************************)
(* open and fstat: what is too large is not sent.                          *)
(***************************************************************************)
Fits(n) == n < Limit

Open(c, f) ==
  /\ client[c] = "prompt"
  /\ Fits(size[c][f])
  /\ name' = [name EXCEPT ![c] = f]
  /\ sent' = [sent EXCEPT ![c] = 0]
  /\ Goto(c, "name")
  /\ UNCHANGED <<files, block, wires, queue, server, receiving>>

SendName(c) ==
  /\ client[c] = "name"
  /\ Put(c, [op |-> "name", name |-> name[c]])
  /\ Goto(c, "ack")
  /\ UNCHANGED <<files, sending, acked, ended, dropped, queue, server, receiving>>

ReceiveAck(c) ==
  /\ client[c] = "ack"
  /\ acked[c]
  /\ acked' = [acked EXCEPT ![c] = FALSE]
  /\ Goto(c, "read")
  /\ UNCHANGED <<files, sending, toServer, ended, dropped, queue, server, receiving>>

(***************************************************************************)
(* read: the file may have grown meanwhile.                                *)
(***************************************************************************)
BlockSize(c) == Min({MaxLine, size[c][name[c]] - sent[c]})

ReadBlock(c) ==
  /\ client[c] = "read"
  /\ IF BlockSize(c) = 0
     THEN Goto(c, "eof") /\ UNCHANGED block
     ELSE /\ Goto(c, "block")
          /\ block' = [block EXCEPT ![c] = Bytes(c, sent[c], BlockSize(c))]
  /\ UNCHANGED <<files, name, sent, wires, queue, server, receiving>>

SendBlock(c) ==
  /\ client[c] = "block"
  /\ Put(c, [op |-> "data", data |-> block[c]])
  /\ sent' = [sent EXCEPT ![c] = @ + Len(block[c])]
  /\ block' = [block EXCEPT ![c] = <<>>]
  /\ Goto(c, "read")
  /\ UNCHANGED <<files, name, acked, ended, dropped, queue, server, receiving>>

SendEof(c) ==
  /\ client[c] = "eof"
  /\ Put(c, [op |-> "eof"])
  /\ Goto(c, "prompt")
  /\ UNCHANGED <<files, sending, acked, ended, dropped, queue, server, receiving>>

(***************************************************************************)
(* The process ends and its end of the connection is closed.               *)
(***************************************************************************)
Leave(c) ==
  /\ Goto(c, "off")
  /\ name' = [name EXCEPT ![c] = NoName]
  /\ sent' = [sent EXCEPT ![c] = 0]
  /\ block' = [block EXCEPT ![c] = <<>>]
  /\ acked' = [acked EXCEPT ![c] = FALSE]
  /\ ended' = [ended EXCEPT ![c] = TRUE]
  /\ UNCHANGED <<files, dropped, queue, server, receiving>>

Quit(c) ==
  /\ client[c] = "prompt"
  /\ Leave(c)
  /\ UNCHANGED toServer

(***************************************************************************)
(* SIGINT, at any point: the message that is being written may be cut.     *)
(***************************************************************************)
Interrupt(c) ==
  /\ client[c] # "off"
  /\ Leave(c)
  /\ \/ UNCHANGED toServer
     \/ client[c] \in Sending /\ ~dropped[c] /\ Put(c, [op |-> "torn"])

(***************************************************************************)
(* The server's end is closed: the client does not get its ack, or is      *)
(* ended by SIGPIPE.                                                       *)
(***************************************************************************)
ClientEnds(c) ==
  /\ dropped[c]
  /\ client[c] \in Sending \cup {"ack"}
  /\ Leave(c)
  /\ UNCHANGED toServer

(***************************************************************************)
(* Somebody appends to the file.                                           *)
(***************************************************************************)
Grow(c, f) ==
  /\ size[c][f] < MaxSize
  /\ size' = [size EXCEPT ![c][f] = @ + 1]
  /\ UNCHANGED <<client, sending, wires, queue, server, receiving, copy>>

-----------------------------------------------------------------------------
(* The server.                                                             *)

At(l) == server = l

Accept ==
  /\ At("accept")
  /\ queue # <<>>
  /\ peer' = Head(queue)
  /\ queue' = Tail(queue)
  /\ server' = "name"
  /\ UNCHANGED <<files, client, sending, wires, target, received>>

(***************************************************************************)
(* read_full returns a message.                                            *)
(***************************************************************************)
Message == Head(toServer[peer])
Arrived == peer # NoClient /\ toServer[peer] # <<>>
Take == toServer' = [toServer EXCEPT ![peer] = Tail(@)]

(***************************************************************************)
(* read_full finds the end of the stream, or of a message that was cut.    *)
(***************************************************************************)
Cut == Arrived /\ Message.op = "torn"

Broken ==
  /\ peer # NoClient
  /\ \/ toServer[peer] = <<>> /\ ended[peer]
     \/ Cut

(***************************************************************************)
(* open with O_TRUNC; if it fails, or if this is not a name, the           *)
(* connection is given up.                                                 *)
(***************************************************************************)
KeepOld(f) == UNCHANGED copy
Truncate(f) == copy' = [copy EXCEPT ![f] = <<>>]

ReceiveName ==
  /\ At("name")
  /\ Arrived /\ Message.op # "torn"
  /\ Take
  /\ received' = 0
  /\ \/ /\ Message.op = "name"
        /\ target' = Message.name
        /\ Truncate(Message.name)
        /\ server' = "ack"
     \/ /\ server' = "close"
        /\ UNCHANGED <<target, copy>>
  /\ UNCHANGED <<size, client, sending, acked, ended, dropped, queue, peer>>

SendAck ==
  /\ At("ack")
  /\ acked' = [acked EXCEPT ![peer] = ~ended[peer]]
  /\ server' = "data"
  /\ UNCHANGED <<files, client, sending, toServer, ended, dropped, queue, receiving>>

(***************************************************************************)
(* The limit of the server.                                                *)
(***************************************************************************)
TooManyBlocks(n) == received + MaxLine >= Limit
TooLarge(n) == received + n >= Limit

ReceiveData ==
  /\ At("data")
  /\ Arrived /\ Message.op # "torn"
  /\ Take
  /\ \/ /\ Message.op = "eof"
        /\ server' = "name"
        /\ UNCHANGED <<copy, received>>
     \/ /\ Message.op = "data" /\ ~TooLarge(Len(Message.data))
        /\ copy' = [copy EXCEPT ![target] = @ \o Message.data]
        /\ received' = received + Len(Message.data)
        /\ UNCHANGED server
     \/ /\ Message.op # "eof"
        /\ Message.op = "data" => TooLarge(Len(Message.data))
        /\ server' = IF Message.op = "data" THEN "large" ELSE "close"
        /\ UNCHANGED <<copy, received>>
  /\ UNCHANGED <<size, client, sending, acked, ended, dropped, queue, peer, target>>

GoOn == "data"
GiveUp == "close"

(***************************************************************************)
(* The disk is full: write_all has written n bytes of the block.           *)
(***************************************************************************)
WriteFails ==
  /\ At("data")
  /\ Arrived /\ Message.op = "data"
  /\ ~TooLarge(Len(Message.data))
  /\ Take
  /\ \E n \in 0..(Len(Message.data) - 1) :
       copy' = [copy EXCEPT ![target] = @ \o SubSeq(Message.data, 1, n)]
  /\ server' = GiveUp
  /\ UNCHANGED <<size, client, sending, acked, ended, dropped, queue, receiving>>

HangUp ==
  /\ server \in {"name", "data"}
  /\ Broken
  /\ server' = "close"
  /\ UNCHANGED <<files, client, sending, wires, queue, receiving>>

(***************************************************************************)
(* close(conn_fd): what has not been read is lost.                         *)
(***************************************************************************)
Close ==
  /\ server \in {"close", "large"}
  /\ toServer' = [toServer EXCEPT ![peer] = <<>>]
  /\ dropped' = [dropped EXCEPT ![peer] = TRUE]
  /\ peer' = NoClient
  /\ target' = NoName
  /\ received' = 0
  /\ server' = "accept"
  /\ UNCHANGED <<files, client, sending, acked, ended, queue>>

(***************************************************************************)
(* SIGINT: the server exits, every connection is closed.                   *)
(***************************************************************************)
InterruptServer ==
  /\ server # "down"
  /\ server' = "down"
  /\ toServer' = [c \in Clients |-> <<>>]
  /\ dropped' = [c \in Clients |-> TRUE]
  /\ queue' = <<>>
  /\ peer' = NoClient
  /\ target' = NoName
  /\ received' = 0
  /\ UNCHANGED <<files, client, sending, acked, ended>>

(***************************************************************************)
(* It may be started again, with the copies it has made.                   *)
(***************************************************************************)
StartServer ==
  /\ At("down")
  /\ server' = "accept"
  /\ UNCHANGED <<files, client, sending, wires, queue, receiving>>

-----------------------------------------------------------------------------

ClientRuns(c) ==
  \/ SendName(c) \/ ReceiveAck(c) \/ ReadBlock(c) \/ SendBlock(c) \/ SendEof(c)
  \/ ClientEnds(c)

ServerRuns ==
  Accept \/ ReceiveName \/ SendAck \/ ReceiveData \/ WriteFails \/ HangUp \/ Close

Next ==
  \/ \E c \in Clients : \/ ClientRuns(c) \/ Connect(c) \/ Quit(c) \/ Interrupt(c)
                        \/ \E f \in Names : Open(c, f) \/ Grow(c, f)
  \/ ServerRuns \/ InterruptServer \/ StartServer

Spec == Init /\ [][Next]_vars

(***************************************************************************)
(* Whoever can go on does; nobody has to enter another name, to quit or to *)
(* start the server again.                                                 *)
(***************************************************************************)
FairSpec == Spec /\ WF_vars(ServerRuns) /\ \A c \in Clients : WF_vars(ClientRuns(c))

-----------------------------------------------------------------------------
(* Correctness.                                                            *)

(***************************************************************************)
(* A copy is never a mixture: whatever was interrupted, started again or   *)
(* sent by another client under the same name, it is the beginning of one  *)
(* client's file.                                                          *)
(***************************************************************************)
CopiesAreNotMixed ==
  \A f \in Names : \E c \in Clients :
    copy[f] = Bytes(c, 0, Len(copy[f])) /\ Len(copy[f]) <= size[c][f]

(***************************************************************************)
(* "Sent n bytes" and "Received n bytes" agree: once the server has read   *)
(* EndOfFile the copy is what the client says it has sent.                 *)
(***************************************************************************)
Finished(c) ==
  /\ server = "name" /\ peer = c /\ target # NoName
  /\ client[c] = "prompt"
  /\ toServer[c] = <<>>

FinishedCopiesAreWhole ==
  \A c \in Clients :
    Finished(c) => received = sent[c] /\ copy[target] = Bytes(c, 0, sent[c])

(***************************************************************************)
(* The limits of both sides agree to the byte (client.c:138 looks at the   *)
(* size of the file, server.c:183 at what has arrived): the server gives a *)
(* transfer up for its size only if the file has become too large since    *)
(* the client looked, and no copy reaches the limit.  All counts stay      *)
(* within the types of TypeOK.                                             *)
(***************************************************************************)
LimitsAgree ==
  /\ TypeOK
  /\ server = "large" => size[peer][target] >= Limit
  /\ \A f \in Names : Len(copy[f]) < Limit

(***************************************************************************)
(* A transfer that the server is serving comes to its end, one way or the  *)
(* other, also when either side disappears in the middle of it, and the    *)
(* server does not stay with a client that has gone.                       *)
(***************************************************************************)
TransfersEnd ==
  \A c \in Clients :
    /\ peer = c /\ client[c] \notin Idle ~> client[c] \in Idle
    /\ peer = c /\ client[c] = "off" ~> peer # c
=============================================================================
