------------------------- MODULE FileTransferProofs -------------------------
(***************************************************************************)
(* Proofs about FileTransfer, for any number of clients and files, any     *)
(* sizes, blocks, limits and buffers: a copy is the beginning of one       *)
(* client's file and never reaches the limit, a finished one is what the   *)
(* client has sent, and the server gives up only what has grown too large. *)
(***************************************************************************)
EXTENDS FileTransfer, SequenceTheorems, TLAPS

(***************************************************************************)
(* The types of TypeOK, with queue as a sequence.                          *)
(***************************************************************************)
Types ==
  /\ size \in [Clients -> [Names -> 0..MaxSize]]
  /\ copy \in [Names -> Seq(Clients \X Nat)]
  /\ client \in [Clients -> Idle \cup Sending \cup {"ack", "read"}]
  /\ name \in [Clients -> Names \cup {NoName}]
  /\ sent \in [Clients -> 0..MaxSize]
  /\ block \in [Clients -> Seq(Clients \X Nat)]
  /\ toServer \in [Clients -> Seq(Messages)]
  /\ \A c \in Clients : Len(block[c]) <= MaxLine /\ Len(toServer[c]) <= Buffer
  /\ acked \in [Clients -> BOOLEAN]
  /\ ended \in [Clients -> BOOLEAN]
  /\ dropped \in [Clients -> BOOLEAN]
  /\ queue \in Seq(Clients)
  /\ server \in {"down", "accept", "name", "ack", "data", "large", "close"}
  /\ peer \in Clients \cup {NoClient}
  /\ target \in Names \cup {NoName}
  /\ received \in 0..MaxSize

(***************************************************************************)
(* A connection is in the queue, once, or served, or the server's end of   *)
(* it is closed and what was on its way is lost.                           *)
(***************************************************************************)
Queued(c) == \E i \in 1..Len(queue) : queue[i] = c

ConnectionsInv ==
  /\ \A i, j \in 1..Len(queue) : queue[i] = queue[j] => i = j
  /\ \A c \in Clients :
       /\ ended[c] <=> client[c] = "off"
       /\ ~dropped[c] <=> peer = c \/ Queued(c)
       /\ ~(peer = c /\ Queued(c))
       /\ dropped[c] => toServer[c] = <<>>
  /\ peer = NoClient <=> server \in {"down", "accept"}
  /\ server \in {"down", "accept"} => target = NoName /\ received = 0
  /\ server \in {"ack", "data", "large"} => target \in Names

(***************************************************************************)
(* A client has sent no more than there is in the file.                    *)
(***************************************************************************)
ClientInv(c) ==
  /\ client[c] \notin Idle => name[c] \in Names
  /\ client[c] \in {"name", "ack"} => sent[c] = 0
  /\ client[c] \in {"read", "block", "eof"} => sent[c] <= size[c][name[c]]
  /\ client[c] = "block" => /\ Len(block[c]) \in 1..MaxLine
                            /\ block[c] = Bytes(c, sent[c], Len(block[c]))
                            /\ sent[c] + Len(block[c]) <= size[c][name[c]]
  /\ client[c] # "block" => block[c] = <<>>
  /\ acked[c] => client[c] = "ack"

ClientsInv == \A c \in Clients : ClientInv(c)

(***************************************************************************)
(* What is on its way before the server has read a name: nothing, the name *)
(* a client waits to have acknowledged, or the end of a message.           *)
(***************************************************************************)
BeforeName(c) ==
  /\ Len(toServer[c]) <= 1
  /\ client[c] \in {"prompt", "name"} => toServer[c] = <<>>
  /\ client[c] = "ack" => toServer[c] = <<[op |-> "name", name |-> name[c]]>>
  /\ client[c] \in {"prompt", "name", "ack", "off"}
  /\ toServer[c] # <<>> => toServer[c][1].op \in {"name", "torn"}
  /\ ~acked[c]

NameAwaited(c) == Queued(c) \/ (peer = c /\ server = "name")

NamesInv ==
  /\ \A c \in Clients : NameAwaited(c) => BeforeName(c)
  /\ server = "name" /\ target # NoName =>
       /\ copy[target] = Bytes(peer, 0, received)
       /\ client[peer] = "prompt" => received = sent[peer]

(***************************************************************************)
(* The server has created the copy and says so.                            *)
(***************************************************************************)
AwaitsAck(c) ==
  /\ toServer[c] = <<>>
  /\ client[c] \in {"ack", "off"}
  /\ client[c] = "ack" => target = name[c]
  /\ ~acked[c]

AckInv ==
  server = "ack" => AwaitsAck(peer) /\ received = 0 /\ copy[target] = <<>>

(***************************************************************************)
(* The stream s of a transfer of the first n bytes of a file of c, after   *)
(* the first r: blocks, EndOfFile, and perhaps the name of the next file;  *)
(* the end of a message that was cut comes last.  Position is where in the *)
(* file the k-th message begins: where the one before it ends.             *)
(***************************************************************************)
EndOf(d) == d[Len(d)][2]
Position(s, r, k) == IF k = 1 THEN r ELSE EndOf(s[k - 1].data)

IsBlock(d, c, from, n) ==
  /\ Len(d) \in 1..MaxLine
  /\ d = Bytes(c, from, Len(d))
  /\ from \in Nat /\ from + Len(d) <= n

Continues(s, k, op) == k > 1 => s[k - 1].op = op

Follows(s, c, r, n, k) ==
  /\ s[k].op = "data" => /\ Continues(s, k, "data")
                         /\ IsBlock(s[k].data, c, Position(s, r, k), n)
  /\ s[k].op = "eof" => Continues(s, k, "data")
  /\ s[k].op = "name" => k > 1 /\ Continues(s, k, "eof")
  /\ s[k].op \in {"name", "torn"} => k = Len(s)

IsStream(s, c, r, n) == \A k \in 1..Len(s) : Follows(s, c, r, n, k)

(***************************************************************************)
(* Where the client is tells how its stream ends.                          *)
(***************************************************************************)
EndsWith(s, op) == s # <<>> /\ s[Len(s)].op = op

StreamEnds(s, c) ==
  /\ client[c] \in {"read", "block", "eof"} =>
       /\ s = <<>> \/ EndsWith(s, "data")
       /\ target = name[c]
       /\ Position(s, received, Len(s) + 1) = sent[c]
  /\ client[c] \in {"prompt", "name"} => EndsWith(s, "eof")
  /\ client[c] = "prompt" => Position(s, received, Len(s)) = sent[c]
  /\ client[c] = "ack" /\ acked[c] =>
       s = <<>> /\ target = name[c] /\ received = 0
  /\ client[c] = "ack" /\ ~acked[c] =>
       EndsWith(s, "name") /\ s[Len(s)].name = name[c]

Transfer(c) ==
  /\ IsStream(toServer[c], c, received, size[c][target])
  /\ StreamEnds(toServer[c], c)

DataInv ==
  server = "data" =>
    /\ copy[target] = Bytes(peer, 0, received)
    /\ received <= size[peer][target]
    /\ Transfer(peer)

(***************************************************************************)
(* What the copies are, and why the server gives up.                       *)
(***************************************************************************)
CopiesInv ==
  /\ CopiesAreNotMixed
  /\ \A f \in Names : Len(copy[f]) < Limit
  /\ server = "large" => size[peer][target] >= Limit

IInv ==
  /\ Types /\ ConnectionsInv /\ ClientsInv /\ NamesInv /\ AckInv /\ DataInv
  /\ CopiesInv

-----------------------------------------------------------------------------
(* Bytes and messages.                                                     *)

LEMMA BytesProperties ==
  ASSUME NEW c \in Clients, NEW r \in Nat, NEW n \in Nat
  PROVE  /\ Bytes(c, r, n) \in Seq(Clients \X Nat)
         /\ Len(Bytes(c, r, n)) = n
         /\ \A i \in 1..n : Bytes(c, r, n)[i] = <<c, r + i>>
<1>1. Bytes(c, r, n) \in [1..n -> Clients \X Nat]
  BY DEF Bytes
<1>2. Bytes(c, r, n) \in Seq(Clients \X Nat)
  BY <1>1
<1>3. Len(Bytes(c, r, n)) = n
  BY <1>1, <1>2, LenProperties
<1> QED BY <1>2, <1>3 DEF Bytes

(***************************************************************************)
(* write_all after r bytes: the copy goes on where it ended, also if only  *)
(* the first k bytes of the block are written.                             *)
(***************************************************************************)
LEMMA BytesGoOn ==
  ASSUME NEW c \in Clients, NEW r \in Nat, NEW n \in Nat, NEW k \in 0..n
  PROVE  /\ Bytes(c, 0, r) \o Bytes(c, r, n) = Bytes(c, 0, r + n)
         /\ Bytes(c, 0, r) \o SubSeq(Bytes(c, r, n), 1, k) = Bytes(c, 0, r + k)
<1> DEFINE T == Clients \X Nat
<1>1. ASSUME NEW m \in Nat, NEW s \in Seq(T), Len(s) = m,
             \A i \in 1..m : s[i] = <<c, r + i>>
      PROVE  Bytes(c, 0, r) \o s = Bytes(c, 0, r + m)
  <2>1. /\ Bytes(c, 0, r) \in Seq(T) /\ Len(Bytes(c, 0, r)) = r
        /\ \A i \in 1..r : Bytes(c, 0, r)[i] = <<c, 0 + i>>
    BY BytesProperties
  <2>2. /\ Bytes(c, 0, r + m) \in Seq(T) /\ Len(Bytes(c, 0, r + m)) = r + m
        /\ \A i \in 1..r + m : Bytes(c, 0, r + m)[i] = <<c, 0 + i>>
    <3>1. r + m \in Nat /\ 0 \in Nat
      OBVIOUS
    <3> QED BY <3>1, BytesProperties
  <2> DEFINE l == Bytes(c, 0, r)
  <2> HIDE DEF T, l
  <2>3. /\ l \o s \in Seq(T)
        /\ Len(l \o s) = Len(l) + Len(s)
        /\ \A i \in 1..Len(l) + Len(s) :
             (l \o s)[i] = IF i <= Len(l) THEN l[i] ELSE s[i - Len(l)]
    BY <1>1, <2>1, ConcatProperties DEF l
  <2>4. \A i \in 1..r + m : (l \o s)[i] = Bytes(c, 0, r + m)[i]
    <3>1. ASSUME NEW i \in 1..r + m
          PROVE  (l \o s)[i] = <<c, i>>
      <4>1. CASE i <= r
        BY <1>1, <2>1, <2>3, <4>1 DEF l
      <4>2. CASE ~(i <= r)
        <5>1. i - r \in 1..m /\ r + (i - r) = i
          BY <4>2
        <5>2. (l \o s)[i] = s[i - r]
          BY <1>1, <2>1, <2>3, <4>2 DEF l
        <5> QED BY <1>1, <5>1, <5>2
      <4> QED BY <4>1, <4>2
    <3>2. \A i \in 1..r + m : Bytes(c, 0, r + m)[i] = <<c, i>>
      BY <2>2
    <3> QED BY <3>1, <3>2
  <2> DEFINE whole == Bytes(c, 0, r + m)
             joined == l \o s
  <2>5. /\ joined \in Seq(T) /\ Len(joined) = r + m
        /\ whole \in Seq(T) /\ Len(whole) = r + m
    BY <1>1, <2>1, <2>2, <2>3 DEF l
  <2>6. \A i \in 1..Len(joined) : joined[i] = whole[i]
    BY <2>4, <2>5
  <2> HIDE DEF whole, joined
  <2>7. joined = whole
    BY <2>5, <2>6, SeqEqual
  <2> QED BY <2>7 DEF whole, joined, l
<1>2. /\ Bytes(c, r, n) \in Seq(T) /\ Len(Bytes(c, r, n)) = n
      /\ \A i \in 1..n : Bytes(c, r, n)[i] = <<c, r + i>>
  BY BytesProperties
<1> DEFINE b == Bytes(c, r, n)
           p == SubSeq(b, 1, k)
<1> HIDE DEF b
<1>3. /\ p \in Seq(T)
      /\ Len(p) = IF 1 <= k THEN k - 1 + 1 ELSE 0
      /\ \A i \in 1..k - 1 + 1 : p[i] = b[1 + i - 1]
  <2>1. \A i \in 1..k : b[i] \in T
    BY <1>2, ElementOfSeq DEF b
  <2> QED BY <2>1, SubSeqProperties
<1>4. Len(p) = k /\ \A i \in 1..k : p[i] = <<c, r + i>>
  BY <1>2, <1>3 DEF b
<1>5. Bytes(c, 0, r) \o b = Bytes(c, 0, r + n)
  BY <1>1, <1>2 DEF b
<1>6. Bytes(c, 0, r) \o p = Bytes(c, 0, r + k)
  <2>1. k \in Nat /\ p \in Seq(T)
    BY <1>3
  <2> HIDE DEF p
  <2> QED BY <1>1, <1>4, <2>1
<1> QED BY <1>5, <1>6 DEF b

(***************************************************************************)
(* What Put does to the wire of a client: a message more if there is       *)
(* anybody to read it.                                                     *)
(***************************************************************************)
LEMMA PutProperties ==
  ASSUME Types, NEW c \in Clients, NEW m \in Messages, Put(c, m)
  PROVE  /\ toServer' \in [Clients -> Seq(Messages)]
         /\ \A d \in Clients : Len(toServer'[d]) <= Buffer
         /\ \A d \in Clients : d # c => toServer'[d] = toServer[d]
         /\ dropped[c] => toServer'[c] = toServer[c]
         /\ ~dropped[c] =>
              /\ toServer'[c] = Append(toServer[c], m)
              /\ Len(toServer[c]) \in Nat
              /\ Len(toServer'[c]) = Len(toServer[c]) + 1
              /\ \A k \in 1..Len(toServer[c]) : toServer'[c][k] = toServer[c][k]
              /\ toServer'[c][Len(toServer[c]) + 1] = m
<1>1. CASE dropped[c]
  BY <1>1 DEF Put, Types
<1>2. CASE ~dropped[c]
  <2>1. /\ Len(toServer[c]) < Buffer
        /\ toServer' = [toServer EXCEPT ![c] = Append(toServer[c], m)]
    BY <1>2 DEF Put
  <2>2. /\ Append(toServer[c], m) \in Seq(Messages)
        /\ Len(Append(toServer[c], m)) = Len(toServer[c]) + 1
        /\ \A k \in 1..Len(toServer[c]) : Append(toServer[c], m)[k] = toServer[c][k]
        /\ Append(toServer[c], m)[Len(toServer[c]) + 1] = m
    BY AppendProperties DEF Types
  <2>3. toServer'[c] = Append(toServer[c], m) /\ Len(toServer[c]) \in Nat
    BY <2>1, LenProperties DEF Types
  <2>4. toServer' \in [Clients -> Seq(Messages)]
    BY <2>1, <2>2 DEF Types
  <2>5. \A d \in Clients : d # c => toServer'[d] = toServer[d]
    BY <2>1 DEF Types
  <2>6. \A d \in Clients : Len(toServer'[d]) <= Buffer
    BY <2>1, <2>2, <2>3, <2>5, TransferAssumption DEF Types, TransferAssumption
  <2> QED BY <1>2, <2>2, <2>3, <2>4, <2>5, <2>6
<1> QED BY <1>1, <1>2

(***************************************************************************)
(* What Take does: the messages move up.                                   *)
(***************************************************************************)
LEMMA TakeProperties ==
  ASSUME Types, Arrived, Take
  PROVE  /\ peer \in Clients
         /\ toServer' \in [Clients -> Seq(Messages)]
         /\ \A d \in Clients : Len(toServer'[d]) <= Buffer
         /\ \A d \in Clients : d # peer => toServer'[d] = toServer[d]
         /\ Len(toServer[peer]) \in Nat \ {0}
         /\ Len(toServer'[peer]) = Len(toServer[peer]) - 1
         /\ \A k \in 1..Len(toServer[peer]) - 1 :
              toServer'[peer][k] = toServer[peer][k + 1]
         /\ Message = toServer[peer][1]
         /\ Message \in Messages
<1> DEFINE s == toServer[peer]
<1>1. peer \in Clients /\ s \in Seq(Messages) /\ s # <<>>
  BY DEF Arrived, Types
<1>2. toServer' = [toServer EXCEPT ![peer] = Tail(s)]
  BY DEF Take
<1>3. Len(s) \in Nat \ {0}
  BY <1>1, EmptySeq
<1>4. /\ Head(s) \in Messages
      /\ Tail(s) \in Seq(Messages)
      /\ Len(Tail(s)) = Len(s) - 1
      /\ \A i \in 1..Len(Tail(s)) : Tail(s)[i] = s[i + 1]
  BY <1>1, HeadTailProperties
<1>5. toServer'[peer] = Tail(s) /\ Head(s) = s[1]
  BY <1>1, <1>2 DEF Types
<1>6. toServer' \in [Clients -> Seq(Messages)]
  BY <1>2, <1>4 DEF Types
<1>7. \A d \in Clients : d # peer => toServer'[d] = toServer[d]
  BY <1>2 DEF Types
<1>8. \A d \in Clients : Len(toServer'[d]) <= Buffer
  <2>1. \A d \in Clients : Len(toServer[d]) <= Buffer
    BY DEF Types
  <2>2. Len(toServer'[peer]) <= Buffer
    BY <1>1, <1>3, <1>4, <1>5, <2>1, TransferAssumption DEF TransferAssumption
  <2> QED BY <1>7, <2>1, <2>2
<1> QED BY <1>1, <1>3, <1>4, <1>5, <1>6, <1>7, <1>8 DEF Message

(***************************************************************************)
(* The messages that are sent are messages.                                *)
(***************************************************************************)
LEMMA MessageKinds ==
  /\ \A f \in Names : [op |-> "name", name |-> f] \in Messages
  /\ \A d \in Seq(Clients \X Nat) : [op |-> "data", data |-> d] \in Messages
  /\ [op |-> "eof"] \in Messages
  /\ [op |-> "torn"] \in Messages
  /\ \A m \in Messages : /\ m.op \in {"name", "data", "eof", "torn"}
                         /\ m.op = "name" => m.name \in Names
                         /\ m.op = "data" => m.data \in Seq(Clients \X Nat)
BY DEF Messages

-----------------------------------------------------------------------------
(* Streams.                                                                *)

LEMMA BlockEnds ==
  ASSUME NEW c \in Clients, NEW n \in Nat, NEW from,
         NEW d \in Seq(Clients \X Nat), IsBlock(d, c, from, n)
  PROVE  EndOf(d) = from + Len(d) /\ EndOf(d) \in Nat
<1>1. /\ Len(d) \in 1..MaxLine /\ from \in Nat
      /\ d = Bytes(c, from, Len(d))
  BY DEF IsBlock
<1>2. Len(d) \in Nat /\ Len(d) \in 1..Len(d)
  BY <1>1, TransferAssumption DEF TransferAssumption
<1>3. Bytes(c, from, Len(d))[Len(d)] = <<c, from + Len(d)>>
  BY <1>1, <1>2, BytesProperties
<1> QED BY <1>1, <1>2, <1>3 DEF EndOf

(***************************************************************************)
(* A message that continues the stream.                                    *)
(***************************************************************************)
MayFollow(s, c, r, n, m) ==
  /\ s # <<>> => s[Len(s)].op \notin {"name", "torn"}
  /\ m.op = "data" => /\ s # <<>> => s[Len(s)].op = "data"
                      /\ IsBlock(m.data, c, Position(s, r, Len(s) + 1), n)
  /\ m.op = "eof" /\ s # <<>> => s[Len(s)].op = "data"
  /\ m.op = "name" => s # <<>> /\ s[Len(s)].op = "eof"

LEMMA StreamGrows ==
  ASSUME NEW c \in Clients, NEW r \in Nat, NEW n \in Nat,
         NEW s \in Seq(Messages), NEW t \in Seq(Messages), NEW m \in Messages,
         Len(t) = Len(s) + 1, \A k \in 1..Len(s) : t[k] = s[k],
         t[Len(s) + 1] = m,
         IsStream(s, c, r, n), MayFollow(s, c, r, n, m)
  PROVE  /\ IsStream(t, c, r, n)
         /\ \A k \in 1..Len(s) + 1 : Position(t, r, k) = Position(s, r, k)
<1>1. Len(s) \in Nat /\ (s # <<>> <=> Len(s) # 0)
  BY EmptySeq
<1>2. ASSUME NEW k \in 1..Len(s) + 1
      PROVE  Position(t, r, k) = Position(s, r, k)
  <2>1. CASE k = 1
    BY <2>1 DEF Position
  <2>2. CASE k # 1
    <3>1. k - 1 \in 1..Len(s)
      BY <1>1, <2>2
    <3> QED BY <2>2, <3>1 DEF Position
  <2> QED BY <2>1, <2>2
<1>3. ASSUME NEW k \in 1..Len(s)
      PROVE  Follows(t, c, r, n, k)
  <2>1. Follows(s, c, r, n, k) /\ t[k] = s[k]
    BY DEF IsStream
  <2>2. Position(t, r, k) = Position(s, r, k)
    BY <1>1, <1>2
  <2>3. k > 1 => t[k - 1] = s[k - 1]
    BY <1>1
  <2>4. s[k].op \notin {"name", "torn"}
    <3>1. CASE k = Len(s)
      BY <1>1, <3>1 DEF MayFollow
    <3>2. CASE k # Len(s)
      BY <2>1, <3>2 DEF Follows
    <3> QED BY <3>1, <3>2
  <2> QED BY <2>1, <2>2, <2>3, <2>4 DEF Follows, Continues
<1>4. Follows(t, c, r, n, Len(s) + 1)
  <2>1. Len(s) + 1 > 1 <=> s # <<>>
    BY <1>1
  <2>2. Len(s) + 1 > 1 => t[Len(s) + 1 - 1] = s[Len(s)]
    BY <1>1
  <2>3. Position(t, r, Len(s) + 1) = Position(s, r, Len(s) + 1)
    BY <1>1, <1>2
  <2> QED BY <2>1, <2>2, <2>3 DEF Follows, Continues, MayFollow
<1>5. IsStream(t, c, r, n)
  <2>1. ASSUME NEW k \in 1..Len(t)
        PROVE  Follows(t, c, r, n, k)
    <3>1. k \in 1..Len(s) \/ k = Len(s) + 1
      BY <1>1
    <3> QED BY <1>3, <1>4, <3>1
  <2> QED BY <2>1 DEF IsStream
<1> QED BY <1>2, <1>5

(***************************************************************************)
(* The first block is taken from the stream.                               *)
(***************************************************************************)
LEMMA StreamShrinks ==
  ASSUME NEW c \in Clients, NEW r \in Nat, NEW n \in Nat,
         NEW s \in Seq(Messages), NEW t \in Seq(Messages), s # <<>>,
         Len(t) = Len(s) - 1, \A k \in 1..Len(s) - 1 : t[k] = s[k + 1],
         IsStream(s, c, r, n), s[1].op = "data"
  PROVE  /\ IsBlock(s[1].data, c, r, n)
         /\ IsStream(t, c, r + Len(s[1].data), n)
         /\ \A k \in 1..Len(s) :
              Position(t, r + Len(s[1].data), k) = Position(s, r, k + 1)
<1> DEFINE q == r + Len(s[1].data)
<1>1. Len(s) \in Nat \ {0} /\ 1 \in 1..Len(s)
  BY EmptySeq
<1>2. IsBlock(s[1].data, c, r, n)
  BY <1>1 DEF IsStream, Follows, Position
<1>3. EndOf(s[1].data) = q
  <2>1. s[1] \in Messages
    BY <1>1, ElementOfSeq
  <2>2. s[1].data \in Seq(Clients \X Nat)
    BY <2>1, MessageKinds
  <2> QED BY <1>2, <2>2, BlockEnds, ZenonT(60)
<1>4. ASSUME NEW k \in 1..Len(s)
      PROVE  Position(t, q, k) = Position(s, r, k + 1)
  <2>0. k + 1 # 1 /\ k + 1 - 1 = k
    BY <1>1
  <2>1. CASE k = 1
    BY <1>3, <2>0, <2>1 DEF Position
  <2>2. CASE k # 1
    <3>1. k - 1 \in 1..Len(s) - 1 /\ k - 1 + 1 = k
      BY <1>1, <2>2
    <3>2. t[k - 1] = s[k]
      BY <3>1
    <3> QED BY <2>0, <2>2, <3>2 DEF Position
  <2> QED BY <2>1, <2>2
<1>5. ASSUME NEW k \in 1..Len(t)
      PROVE  Follows(t, c, q, n, k)
  <2>1. k + 1 \in 1..Len(s) /\ k \in 1..Len(s) /\ t[k] = s[k + 1]
    BY <1>1
  <2>2. Follows(s, c, r, n, k + 1)
    BY <2>1 DEF IsStream
  <2>3. Position(t, q, k) = Position(s, r, k + 1)
    BY <1>4, <2>1
  <2>4. k + 1 > 1 /\ k + 1 - 1 = k
    BY <1>1
  <2>5. k > 1 => t[k - 1] = s[k]
    <3>1. k > 1 => k - 1 \in 1..Len(s) - 1 /\ k - 1 + 1 = k
      BY <1>1
    <3> QED BY <3>1
  <2>6. k = 1 => s[k].op = "data"
    OBVIOUS
  <2>7. s[k + 1].op # "name" \/ k > 1
    <3>1. CASE k = 1
      BY <2>2, <2>4, <2>6, <3>1 DEF Follows, Continues
    <3>2. CASE k # 1
      BY <1>1, <3>2
    <3> QED BY <3>1, <3>2
  <2>8. s[k + 1].op \in {"name", "torn"} => k = Len(t)
    BY <1>1, <2>1, <2>2 DEF Follows
  <2>9. s[k + 1].op = "data" =>
          Continues(t, k, "data") /\ IsBlock(t[k].data, c, Position(t, q, k), n)
    BY <2>1, <2>2, <2>3, <2>4, <2>5 DEF Follows, Continues
  <2>10. /\ s[k + 1].op = "eof" => Continues(t, k, "data")
         /\ s[k + 1].op = "name" => Continues(t, k, "eof")
    BY <2>1, <2>2, <2>4, <2>5 DEF Follows, Continues
  <2> QED BY <2>1, <2>7, <2>8, <2>9, <2>10 DEF Follows
<1>6. IsStream(t, c, q, n)
  BY <1>5 DEF IsStream
<1> QED BY <1>2, <1>4, <1>6

(***************************************************************************)
(* After EndOfFile there is at most the name of the next file, or the end  *)
(* of a message.                                                           *)
(***************************************************************************)
LEMMA AfterEndOfFile ==
  ASSUME NEW c \in Clients, NEW r \in Nat, NEW n \in Nat,
         NEW s \in Seq(Messages), s # <<>>,
         IsStream(s, c, r, n), s[1].op = "eof"
  PROVE  /\ Len(s) \in {1, 2}
         /\ Len(s) = 2 => s[2].op \in {"name", "torn"}
<1>1. Len(s) \in Nat /\ Len(s) # 0
  BY EmptySeq
<1>2. CASE Len(s) = 1
  BY <1>2
<1>3. CASE Len(s) > 1
  <2>1. 2 \in 1..Len(s) /\ 2 > 1 /\ 2 - 1 = 1
    BY <1>3, <1>1
  <2>2. Follows(s, c, r, n, 2) /\ s[2] \in Messages
    BY <2>1, ElementOfSeq DEF IsStream
  <2>3. s[2].op \in {"name", "data", "eof", "torn"}
    BY <2>2, MessageKinds
  <2>4. s[2].op \in {"name", "torn"}
    BY <2>1, <2>2, <2>3 DEF Follows, Continues
  <2> QED BY <2>2, <2>4 DEF Follows
<1>4. Len(s) = 1 \/ Len(s) > 1
  <2>1. \A l \in Nat : l # 0 => l = 1 \/ l > 1
    OBVIOUS
  <2> QED BY <1>1, <2>1
<1> QED BY <1>2, <1>3, <1>4

(***************************************************************************)
(* A file that has grown takes the same stream.                            *)
(***************************************************************************)
LEMMA StreamOfGrownFile ==
  ASSUME NEW s \in Seq(Messages), NEW c \in Clients, NEW r, NEW n \in Nat, NEW m \in Nat,
         n <= m, IsStream(s, c, r, n)
  PROVE  IsStream(s, c, r, m)
<1>1. ASSUME NEW d, NEW from, IsBlock(d, c, from, n)
      PROVE  IsBlock(d, c, from, m)
  BY <1>1, TransferAssumption DEF IsBlock, TransferAssumption
<1>2. ASSUME NEW k \in 1..Len(s)
      PROVE  Follows(s, c, r, m, k)
  <2>1. Follows(s, c, r, n, k)
    BY DEF IsStream
  <2> QED BY <1>1, <2>1 DEF Follows
<1> QED BY <1>2 DEF IsStream

-----------------------------------------------------------------------------
(* The steps of a client.                                                  *)

Same(d) ==
  /\ client'[d] = client[d] /\ name'[d] = name[d] /\ sent'[d] = sent[d]
  /\ block'[d] = block[d] /\ toServer'[d] = toServer[d] /\ acked'[d] = acked[d]
  /\ ended'[d] = ended[d] /\ dropped'[d] = dropped[d]

(***************************************************************************)
(* What a step of client c leaves alone, and what it has to show: its own  *)
(* part of the invariant, and the one of its connection, wherever that is. *)
(***************************************************************************)
ClientStep(c) ==
  /\ UNCHANGED <<files, queue, server, receiving>>
  /\ \A d \in Clients : d # c => Same(d)
  /\ dropped'[c] = dropped[c]
  /\ ended'[c] <=> client'[c] = "off"
  /\ dropped[c] => toServer'[c] = toServer[c]

LEMMA ClientStepKeeps ==
  ASSUME IInv, Types', NEW c \in Clients, ClientStep(c), ClientInv(c)',
         NameAwaited(c) => BeforeName(c)',
         peer = c /\ server = "name" /\ target # NoName /\ client'[c] = "prompt"
           => received = sent'[c],
         peer = c /\ server = "ack" => AwaitsAck(c)',
         peer = c /\ server = "data" => Transfer(c)'
  PROVE  IInv'
<1>1. /\ UNCHANGED <<size, copy, queue, server, peer, target, received>>
      /\ \A d \in Clients : d # c => Same(d)
  BY DEF ClientStep, files, receiving
<1>2. \A d \in Clients : Queued(d)' <=> Queued(d)
  BY <1>1 DEF Queued
<1>3. ConnectionsInv'
  <2>1. \A i, j \in 1..Len(queue) : queue[i] = queue[j] => i = j
    BY DEF IInv, ConnectionsInv
  <2>2. ASSUME NEW d \in Clients
        PROVE  /\ ended'[d] <=> client'[d] = "off"
               /\ ~dropped'[d] <=> peer = d \/ Queued(d)
               /\ ~(peer = d /\ Queued(d))
               /\ dropped'[d] => toServer'[d] = <<>>
    <3>1. /\ ended[d] <=> client[d] = "off"
          /\ ~dropped[d] <=> peer = d \/ Queued(d)
          /\ ~(peer = d /\ Queued(d))
          /\ dropped[d] => toServer[d] = <<>>
      BY DEF IInv, ConnectionsInv
    <3>2. CASE d = c
      BY <3>1, <3>2 DEF ClientStep
    <3>3. CASE d # c
      BY <1>1, <3>1, <3>3 DEF Same
    <3> QED BY <3>2, <3>3
  <2>3. /\ peer = NoClient <=> server \in {"down", "accept"}
        /\ server \in {"down", "accept"} => target = NoName /\ received = 0
        /\ server \in {"ack", "data", "large"} => target \in Names
    BY DEF IInv, ConnectionsInv
  <2> QED BY <1>1, <1>2, <2>1, <2>2, <2>3 DEF ConnectionsInv
<1>4. ClientsInv'
  <2>1. ASSUME NEW d \in Clients
        PROVE  ClientInv(d)'
    <3>1. CASE d = c
      BY <3>1
    <3>2. CASE d # c
      <4>1. ClientInv(d)
        BY DEF IInv, ClientsInv
      <4> QED BY <1>1, <3>2, <4>1 DEF Same, ClientInv
    <3> QED BY <3>1, <3>2
  <2> QED BY <2>1 DEF ClientsInv
<1>5. NamesInv'
  <2>1. ASSUME NEW d \in Clients, NameAwaited(d)'
        PROVE  BeforeName(d)'
    <3>1. NameAwaited(d)
      BY <1>1, <1>2, <2>1 DEF NameAwaited
    <3>2. CASE d = c
      BY <3>1, <3>2
    <3>3. CASE d # c
      <4>1. BeforeName(d)
        BY <3>1 DEF IInv, NamesInv
      <4> QED BY <1>1, <3>3, <4>1 DEF Same, BeforeName
    <3> QED BY <3>2, <3>3
  <2>2. ASSUME server = "name", target # NoName
        PROVE  /\ copy[target] = Bytes(peer, 0, received)
               /\ client'[peer] = "prompt" => received = sent'[peer]
    <3>1. /\ peer \in Clients
          /\ copy[target] = Bytes(peer, 0, received)
          /\ client[peer] = "prompt" => received = sent[peer]
      BY <2>2 DEF IInv, NamesInv, ConnectionsInv, Types
    <3>2. CASE peer = c
      BY <2>2, <3>1, <3>2
    <3>3. CASE peer # c
      BY <1>1, <3>1, <3>3 DEF Same
    <3> QED BY <3>1, <3>2, <3>3
  <2> QED BY <1>1, <2>1, <2>2 DEF NamesInv
<1>6. AckInv'
  <2>1. ASSUME server = "ack"
        PROVE  AwaitsAck(peer)' /\ received = 0 /\ copy[target] = <<>>
    <3>1. /\ peer \in Clients
          /\ AwaitsAck(peer) /\ received = 0 /\ copy[target] = <<>>
      BY <2>1 DEF IInv, AckInv, ConnectionsInv, Types
    <3>2. CASE peer = c
      BY <1>1, <2>1, <3>1, <3>2 DEF AwaitsAck
    <3>3. CASE peer # c
      BY <1>1, <3>1, <3>3 DEF Same, AwaitsAck
    <3> QED BY <3>1, <3>2, <3>3
  <2> QED BY <1>1, <2>1 DEF AckInv
<1>7. DataInv'
  <2>1. ASSUME server = "data"
        PROVE  /\ copy[target] = Bytes(peer, 0, received)
               /\ received <= size[peer][target]
               /\ Transfer(peer)'
    <3>1. /\ peer \in Clients
          /\ copy[target] = Bytes(peer, 0, received)
          /\ received <= size[peer][target]
          /\ Transfer(peer)
      BY <2>1 DEF IInv, DataInv, ConnectionsInv, Types
    <3>2. CASE peer = c
      <4>1. Transfer(c)'
        BY <2>1, <3>2
      <4> QED BY <1>1, <3>1, <3>2, <4>1 DEF Transfer, StreamEnds
    <3>3. CASE peer # c
      <4>1. Same(peer)
        BY <1>1, <3>1, <3>3
      <4>2. StreamEnds(toServer[peer], peer)'
        BY <1>1, <3>1, <4>1 DEF Same, Transfer, StreamEnds
      <4> QED BY <1>1, <3>1, <4>1, <4>2 DEF Same, Transfer
    <3> QED BY <3>2, <3>3
  <2> QED BY <1>1, <2>1 DEF DataInv
<1>8. CopiesInv'
  BY <1>1 DEF IInv, CopiesInv, CopiesAreNotMixed
<1> QED BY <1>3, <1>4, <1>5, <1>6, <1>7, <1>8 DEF IInv

(***************************************************************************)
(* What a message that is written does to a connection that is served or   *)
(* waits: it is there.                                                     *)
(***************************************************************************)
LEMMA Written ==
  ASSUME IInv, NEW c \in Clients, NEW m \in Messages, Put(c, m),
         NameAwaited(c) \/ peer = c
  PROVE  /\ ~dropped[c]
         /\ toServer'[c] = Append(toServer[c], m)
         /\ toServer[c] = <<>> => toServer'[c] = <<m>>
<1>1. Types /\ ~dropped[c]
  BY DEF IInv, ConnectionsInv, NameAwaited
<1>2. toServer'[c] = Append(toServer[c], m)
  BY <1>1, PutProperties
<1>3. Append(<<>>, m) = <<m>>
  OBVIOUS
<1> QED BY <1>1, <1>2, <1>3

(***************************************************************************)
(* A message that continues the transfer being served.                     *)
(***************************************************************************)
LEMMA TransferGoesOn ==
  ASSUME IInv, NEW c \in Clients, NEW m \in Messages, Put(c, m),
         peer = c, server = "data",
         MayFollow(toServer[c], c, received, size[c][target], m)
  PROVE  /\ toServer'[c] \in Seq(Messages)
         /\ Len(toServer'[c]) = Len(toServer[c]) + 1
         /\ Len(toServer[c]) \in Nat
         /\ toServer'[c][Len(toServer[c]) + 1] = m
         /\ toServer'[c] # <<>>
         /\ IsStream(toServer'[c], c, received, size[c][target])
         /\ \A k \in 1..Len(toServer[c]) + 1 :
              Position(toServer'[c], received, k) = Position(toServer[c], received, k)
<1> DEFINE s == toServer[c]
           t == toServer'[c]
<1>1. Types /\ ~dropped[c]
  BY DEF IInv, ConnectionsInv
<1>2. /\ toServer' \in [Clients -> Seq(Messages)]
      /\ Len(s) \in Nat /\ Len(t) = Len(s) + 1
      /\ \A k \in 1..Len(s) : t[k] = s[k]
      /\ t[Len(s) + 1] = m
  BY <1>1, PutProperties
<1>3. s \in Seq(Messages) /\ t \in Seq(Messages)
  BY <1>1, <1>2 DEF Types
<1>4. target \in Names /\ received \in Nat /\ size[c][target] \in Nat
  BY <1>1, TransferAssumption DEF IInv, ConnectionsInv, Types, TransferAssumption
<1>5. IsStream(s, c, received, size[c][target])
  BY DEF IInv, DataInv, Transfer
<1>6. t # <<>>
  BY <1>2, <1>3, EmptySeq
<1> HIDE DEF s, t
<1>7. /\ IsStream(t, c, received, size[c][target])
      /\ \A k \in 1..Len(s) + 1 : Position(t, received, k) = Position(s, received, k)
  BY <1>2, <1>3, <1>4, <1>5, StreamGrows, ZenonT(60) DEF s
<1> QED BY <1>2, <1>3, <1>6, <1>7 DEF s, t

(***************************************************************************)
(* What the invariant says of the client that takes a step.                *)
(***************************************************************************)
LEMMA ClientFacts ==
  ASSUME IInv, NEW c \in Clients
  PROVE  /\ Types /\ ClientInv(c)
         /\ NameAwaited(c) => BeforeName(c)
         /\ peer = c /\ server = "ack" => AwaitsAck(c)
         /\ peer = c /\ server = "data" => Transfer(c) /\ target \in Names
         /\ ended[c] <=> client[c] = "off"
         /\ dropped[c] => toServer[c] = <<>>
         /\ toServer[c] \in Seq(Messages) /\ Len(toServer[c]) \in Nat
         /\ toServer[c] # <<>> <=> Len(toServer[c]) # 0
<1>1. toServer[c] \in Seq(Messages)
  BY DEF IInv, Types
<1>2. Len(toServer[c]) \in Nat /\ (toServer[c] # <<>> <=> Len(toServer[c]) # 0)
  BY <1>1, EmptySeq
<1> QED BY <1>1, <1>2 DEF IInv, ClientsInv, NamesInv, AckInv, DataInv, ConnectionsInv

LEMMA OpenKeeps ==
  ASSUME IInv, NEW c \in Clients, NEW f \in Names, Open(c, f)
  PROVE  IInv'
<1>1. /\ UNCHANGED <<files, block, wires, queue, server, receiving>>
      /\ client[c] = "prompt"
      /\ name' = [name EXCEPT ![c] = f]
      /\ sent' = [sent EXCEPT ![c] = 0]
      /\ client' = [client EXCEPT ![c] = "name"]
  BY DEF Open, Goto
<1>2. UNCHANGED <<size, copy, block, toServer, acked, ended, dropped, queue, server,
                  peer, target, received>>
  BY <1>1 DEF files, wires, receiving
<1>3. /\ client'[c] = "name" /\ name'[c] = f /\ sent'[c] = 0
      /\ \A d \in Clients : d # c => /\ client'[d] = client[d] /\ name'[d] = name[d]
                                     /\ sent'[d] = sent[d]
  BY <1>1 DEF IInv, Types
<1>4. Types'
  <2>1. "name" \in Sending /\ 0 \in 0..MaxSize
    BY TransferAssumption DEF Sending, TransferAssumption
  <2> QED BY <1>1, <1>2, <2>1 DEF IInv, Types
<1>5. ClientStep(c)
  BY <1>1, <1>2, <1>3, ClientFacts DEF ClientStep, Same, IInv
<1>6. ClientInv(c)'
  BY <1>1, <1>2, <1>3, ClientFacts DEF ClientInv, Idle
<1>7. NameAwaited(c) => BeforeName(c)'
  BY <1>1, <1>2, <1>3, ClientFacts DEF BeforeName
<1>8. peer = c /\ server = "ack" => AwaitsAck(c)'
  BY <1>1, ClientFacts DEF AwaitsAck
<1>9. peer = c /\ server = "data" => Transfer(c)'
  BY <1>1, <1>2, <1>3, ClientFacts DEF Transfer, StreamEnds
<1> QED BY <1>3, <1>4, <1>5, <1>6, <1>7, <1>8, <1>9, ClientStepKeeps

LEMMA SendNameKeeps ==
  ASSUME IInv, NEW c \in Clients, SendName(c)
  PROVE  IInv'
<1> DEFINE m == [op |-> "name", name |-> name[c]]
           s == toServer[c]
<1>1. /\ client[c] = "name"
      /\ Put(c, m)
      /\ client' = [client EXCEPT ![c] = "ack"]
      /\ UNCHANGED <<files, sending, acked, ended, dropped, queue, server, receiving>>
  BY DEF SendName, Goto
<1>2. UNCHANGED <<size, copy, name, sent, block, acked, ended, dropped, queue, server,
                  peer, target, received>>
  BY <1>1 DEF files, sending, receiving
<1>3. /\ name[c] \in Names /\ sent[c] = 0 /\ block[c] = <<>> /\ ~acked[c]
      /\ client'[c] = "ack"
      /\ \A d \in Clients : d # c => client'[d] = client[d]
  BY <1>1, ClientFacts DEF IInv, Types, ClientInv, Idle
<1>4. m \in Messages
  BY <1>3, MessageKinds
<1> HIDE DEF m
<1>5. /\ toServer' \in [Clients -> Seq(Messages)]
      /\ \A d \in Clients : Len(toServer'[d]) <= Buffer
      /\ \A d \in Clients : d # c => toServer'[d] = toServer[d]
      /\ dropped[c] => toServer'[c] = toServer[c]
  BY <1>1, <1>4, PutProperties DEF IInv
<1>6. Types'
  BY <1>1, <1>2, <1>5 DEF IInv, Types
<1>7. ClientStep(c)
  BY <1>1, <1>2, <1>3, <1>5, ClientFacts DEF ClientStep, Same
<1>8. ClientInv(c)'
  BY <1>2, <1>3 DEF ClientInv, Idle
<1>9. NameAwaited(c) => BeforeName(c)'
  <2>1. ASSUME NameAwaited(c)
        PROVE  toServer'[c] = <<m>>
    BY <1>1, <1>4, <2>1, ClientFacts, Written DEF BeforeName
  <2>2. /\ NameAwaited(c) => ~acked'[c]
        /\ Len(<<m>>) <= 1
        /\ <<m>>[1].op = "name"
        /\ <<m>> = <<[op |-> "name", name |-> name'[c]]>>
    BY <1>2, <1>3 DEF m
  <2> QED BY <1>3, <2>1, <2>2 DEF BeforeName
<1>10. peer = c /\ server = "ack" => AwaitsAck(c)'
  BY <1>1, ClientFacts DEF AwaitsAck
<1>11. ASSUME peer = c, server = "data"
       PROVE  Transfer(c)'
  <2>1. EndsWith(s, "eof")
    BY <1>1, <1>11, ClientFacts DEF Transfer, StreamEnds
  <2>2. MayFollow(s, c, received, size[c][target], m)
    BY <2>1 DEF MayFollow, EndsWith, m
  <2>3. /\ Len(toServer'[c]) = Len(s) + 1
        /\ toServer'[c][Len(s) + 1] = m
        /\ toServer'[c] # <<>>
        /\ IsStream(toServer'[c], c, received, size[c][target])
    BY <1>1, <1>4, <1>11, <2>2, TransferGoesOn
  <2>4. EndsWith(toServer'[c], "name") /\ toServer'[c][Len(toServer'[c])].name = name[c]
    BY <2>3 DEF EndsWith, m
  <2> QED BY <1>2, <1>3, <2>3, <2>4 DEF Transfer, StreamEnds
<1> QED BY <1>3, <1>6, <1>7, <1>8, <1>9, <1>10, <1>11, ClientStepKeeps

LEMMA ReceiveAckKeeps ==
  ASSUME IInv, NEW c \in Clients, ReceiveAck(c)
  PROVE  IInv'
<1>1. /\ client[c] = "ack" /\ acked[c]
      /\ acked' = [acked EXCEPT ![c] = FALSE]
      /\ client' = [client EXCEPT ![c] = "read"]
      /\ UNCHANGED <<files, sending, toServer, ended, dropped, queue, server, receiving>>
  BY DEF ReceiveAck, Goto
<1>2. UNCHANGED <<size, copy, name, sent, block, toServer, ended, dropped, queue, server,
                  peer, target, received>>
  BY <1>1 DEF files, sending, receiving
<1>3. /\ name[c] \in Names /\ sent[c] = 0 /\ block[c] = <<>>
      /\ client'[c] = "read" /\ ~acked'[c]
      /\ \A d \in Clients : d # c => client'[d] = client[d] /\ acked'[d] = acked[d]
  BY <1>1, ClientFacts DEF IInv, Types, ClientInv, Idle
<1>4. Types'
  BY <1>1, <1>2 DEF IInv, Types
<1>5. ClientStep(c)
  BY <1>1, <1>2, <1>3, ClientFacts DEF ClientStep, Same
<1>6. ClientInv(c)'
  <2>1. size[c][name[c]] \in 0..MaxSize
    BY <1>3 DEF IInv, Types
  <2>2. 0 <= size[c][name[c]]
    BY <2>1, TransferAssumption DEF TransferAssumption
  <2> QED BY <1>2, <1>3, <2>2 DEF ClientInv, Idle
<1>7. ~NameAwaited(c) /\ ~(peer = c /\ server = "ack")
  BY <1>1, ClientFacts DEF BeforeName, AwaitsAck
<1>8. ASSUME peer = c, server = "data"
      PROVE  Transfer(c)'
  <2>1. toServer[c] = <<>> /\ target = name[c] /\ received = 0
    BY <1>1, <1>8, ClientFacts DEF Transfer, StreamEnds
  <2>2. Position(toServer[c], received, Len(toServer[c]) + 1) = sent[c]
    BY <1>3, <2>1 DEF Position
  <2>3. Transfer(c)
    BY <1>8, ClientFacts
  <2> QED BY <1>2, <1>3, <2>1, <2>2, <2>3 DEF Transfer, StreamEnds
<1> QED BY <1>3, <1>4, <1>5, <1>6, <1>7, <1>8, ClientStepKeeps

(***************************************************************************)
(* What read returns: never more than MAXLINE, and never more than there   *)
(* is in the file.                                                         *)
(***************************************************************************)
LEMMA BlockSizes ==
  ASSUME IInv, NEW c \in Clients, client[c] = "read"
  PROVE  /\ name[c] \in Names /\ sent[c] \in Nat
         /\ BlockSize(c) \in 0..MaxLine
         /\ sent[c] + BlockSize(c) <= size[c][name[c]]
<1>1. /\ name[c] \in Names /\ sent[c] \in 0..MaxSize
      /\ sent[c] <= size[c][name[c]]
  BY ClientFacts DEF ClientInv, Idle, IInv, Types
<1>2. size[c][name[c]] \in 0..MaxSize
  BY <1>1 DEF IInv, Types
<1>3. /\ sent[c] \in Nat /\ size[c][name[c]] \in Nat /\ MaxLine \in Nat
      /\ size[c][name[c]] - sent[c] \in Nat
  BY <1>1, <1>2, TransferAssumption DEF TransferAssumption
<1>4. ASSUME NEW a \in Nat, NEW b \in Nat
      PROVE  Min({a, b}) = IF a <= b THEN a ELSE b
  BY DEF Min
<1>5. BlockSize(c) = IF MaxLine <= size[c][name[c]] - sent[c]
                     THEN MaxLine ELSE size[c][name[c]] - sent[c]
  BY <1>3, <1>4 DEF BlockSize
<1> QED BY <1>1, <1>3, <1>5

LEMMA ReadBlockKeeps ==
  ASSUME IInv, NEW c \in Clients, ReadBlock(c)
  PROVE  IInv'
<1> DEFINE n == BlockSize(c)
<1>1. /\ client[c] = "read"
      /\ IF n = 0
         THEN client' = [client EXCEPT ![c] = "eof"] /\ UNCHANGED block
         ELSE /\ client' = [client EXCEPT ![c] = "block"]
              /\ block' = [block EXCEPT ![c] = Bytes(c, sent[c], n)]
      /\ UNCHANGED <<files, name, sent, wires, queue, server, receiving>>
  BY DEF ReadBlock, Goto
<1>2. UNCHANGED <<size, copy, name, sent, toServer, acked, ended, dropped, queue, server,
                  peer, target, received>>
  BY <1>1 DEF files, wires, receiving
<1>3. /\ name[c] \in Names /\ sent[c] \in Nat /\ n \in 0..MaxLine /\ n \in Nat
      /\ sent[c] + n <= size[c][name[c]]
      /\ sent[c] <= size[c][name[c]] /\ block[c] = <<>> /\ ~acked[c]
  BY <1>1, BlockSizes, ClientFacts, TransferAssumption
  DEF ClientInv, TransferAssumption
<1> HIDE DEF n
<1>4. /\ Bytes(c, sent[c], n) \in Seq(Clients \X Nat)
      /\ Len(Bytes(c, sent[c], n)) = n
  BY <1>3, BytesProperties
<1>5. /\ client'[c] = IF n = 0 THEN "eof" ELSE "block"
      /\ block'[c] = IF n = 0 THEN <<>> ELSE Bytes(c, sent[c], n)
      /\ \A d \in Clients : d # c => client'[d] = client[d] /\ block'[d] = block[d]
      /\ client' \in [Clients -> Idle \cup Sending \cup {"ack", "read"}]
      /\ block' \in [Clients -> Seq(Clients \X Nat)]
  <2>1. /\ client \in [Clients -> Idle \cup Sending \cup {"ack", "read"}]
        /\ block \in [Clients -> Seq(Clients \X Nat)]
        /\ "eof" \in Sending /\ "block" \in Sending
    BY DEF IInv, Types, Sending
  <2>2. CASE n = 0
    BY <1>1, <1>3, <2>1, <2>2
  <2>3. CASE n # 0
    BY <1>1, <1>4, <2>1, <2>3
  <2> QED BY <2>2, <2>3
<1>6. Types'
  <2>1. \A d \in Clients : Len(block'[d]) <= MaxLine
    <3>1. Len(block'[c]) <= MaxLine
      <4>1. Len(<<>>) = 0 /\ MaxLine \in Nat
        BY TransferAssumption DEF TransferAssumption
      <4> QED BY <1>3, <1>4, <1>5, <4>1
    <3> QED BY <1>5, <3>1 DEF IInv, Types
  <2> QED BY <1>2, <1>5, <2>1 DEF IInv, Types
<1>7. ClientStep(c)
  BY <1>1, <1>2, <1>5, ClientFacts DEF ClientStep, Same
<1>8. ClientInv(c)'
  <2>1. CASE n = 0
    BY <1>2, <1>3, <1>5, <2>1 DEF ClientInv, Idle
  <2>2. CASE n # 0
    <3>1. n \in 1..MaxLine
      BY <1>3, <2>2
    <3> QED BY <1>2, <1>3, <1>4, <1>5, <2>2, <3>1 DEF ClientInv, Idle
  <2> QED BY <2>1, <2>2
<1>9. ~NameAwaited(c) /\ ~(peer = c /\ server = "ack")
  BY <1>1, ClientFacts DEF BeforeName, AwaitsAck
<1>10. peer = c /\ server = "data" => Transfer(c)'
  BY <1>1, <1>2, <1>5, ClientFacts DEF Transfer, StreamEnds
<1> QED BY <1>5, <1>6, <1>7, <1>8, <1>9, <1>10, ClientStepKeeps

LEMMA SendBlockKeeps ==
  ASSUME IInv, NEW c \in Clients, SendBlock(c)
  PROVE  IInv'
<1> DEFINE m == [op |-> "data", data |-> block[c]]
           s == toServer[c]
           t == toServer'[c]
<1>1. /\ client[c] = "block"
      /\ Put(c, m)
      /\ sent' = [sent EXCEPT ![c] = sent[c] + Len(block[c])]
      /\ block' = [block EXCEPT ![c] = <<>>]
      /\ client' = [client EXCEPT ![c] = "read"]
      /\ UNCHANGED <<files, name, acked, ended, dropped, queue, server, receiving>>
  BY DEF SendBlock, Goto
<1>2. UNCHANGED <<size, copy, name, acked, ended, dropped, queue, server,
                  peer, target, received>>
  BY <1>1 DEF files, receiving
<1>3. /\ name[c] \in Names /\ ~acked[c]
      /\ Len(block[c]) \in 1..MaxLine
      /\ block[c] = Bytes(c, sent[c], Len(block[c]))
      /\ sent[c] + Len(block[c]) <= size[c][name[c]]
  BY <1>1, ClientFacts DEF ClientInv, Idle
<1>4. /\ size[c][name[c]] \in 0..MaxSize /\ sent[c] \in 0..MaxSize
      /\ block[c] \in Seq(Clients \X Nat)
  BY <1>3 DEF IInv, Types
<1>5. /\ sent[c] \in Nat /\ Len(block[c]) \in Nat /\ size[c][name[c]] \in Nat
      /\ sent[c] + Len(block[c]) \in 0..MaxSize
  BY <1>3, <1>4, TransferAssumption, SMTT(40) DEF TransferAssumption
<1>6. m \in Messages
  BY <1>4, MessageKinds
<1> HIDE DEF m, s, t
<1>7. /\ toServer' \in [Clients -> Seq(Messages)]
      /\ \A d \in Clients : Len(toServer'[d]) <= Buffer
      /\ \A d \in Clients : d # c => toServer'[d] = toServer[d]
      /\ dropped[c] => toServer'[c] = toServer[c]
  BY <1>1, <1>6, PutProperties DEF IInv
<1>8. /\ client'[c] = "read" /\ block'[c] = <<>>
      /\ sent'[c] = sent[c] + Len(block[c])
      /\ \A d \in Clients : d # c => /\ client'[d] = client[d] /\ sent'[d] = sent[d]
                                     /\ block'[d] = block[d]
  BY <1>1 DEF IInv, Types
<1>9. Types'
  <2>1. block' \in [Clients -> Seq(Clients \X Nat)]
    <3>1. <<>> \in Seq(Clients \X Nat)
      OBVIOUS
    <3> QED BY <1>1, <3>1 DEF IInv, Types
  <2>2. \A d \in Clients : Len(block'[d]) <= MaxLine
    <3>1. Len(block'[c]) <= MaxLine
      BY <1>8, TransferAssumption DEF TransferAssumption
    <3> QED BY <1>8, <3>1 DEF IInv, Types
  <2>3. sent' \in [Clients -> 0..MaxSize]
    BY <1>1, <1>5 DEF IInv, Types
  <2>4. client' \in [Clients -> Idle \cup Sending \cup {"ack", "read"}]
    BY <1>1 DEF IInv, Types
  <2> QED BY <1>2, <1>7, <2>1, <2>2, <2>3, <2>4 DEF IInv, Types
<1>10. ClientStep(c)
  BY <1>1, <1>2, <1>7, <1>8, ClientFacts DEF ClientStep, Same
<1>11. ClientInv(c)'
  BY <1>2, <1>3, <1>8 DEF ClientInv, Idle
<1>12. ~NameAwaited(c) /\ ~(peer = c /\ server = "ack")
  BY <1>1, ClientFacts DEF BeforeName, AwaitsAck
<1>13. ASSUME peer = c, server = "data"
       PROVE  Transfer(c)'
  <2>1. /\ s = <<>> \/ EndsWith(s, "data")
        /\ target = name[c]
        /\ Position(s, received, Len(s) + 1) = sent[c]
    BY <1>1, <1>13, ClientFacts DEF Transfer, StreamEnds, s
  <2>2. IsBlock(block[c], c, sent[c], size[c][target])
    BY <1>3, <1>5, <2>1 DEF IsBlock
  <2>3. MayFollow(s, c, received, size[c][target], m)
    BY <2>1, <2>2 DEF MayFollow, EndsWith, m
  <2>4. /\ Len(t) = Len(s) + 1 /\ Len(s) \in Nat
        /\ t[Len(s) + 1] = m
        /\ t # <<>>
        /\ IsStream(t, c, received, size[c][target])
    BY <1>1, <1>6, <1>13, <2>3, TransferGoesOn DEF s, t
  <2>5. EndsWith(t, "data")
    BY <2>4 DEF EndsWith, m
  <2>6. EndOf(block[c]) = sent[c] + Len(block[c])
    BY <1>4, <1>5, <2>1, <2>2, BlockEnds
  <2>7. Position(t, received, Len(t) + 1) = sent'[c]
    <3>1. Len(t) + 1 # 1 /\ Len(t) + 1 - 1 = Len(s) + 1
      BY <2>4
    <3> QED BY <1>8, <2>4, <2>6, <3>1 DEF Position, m
  <2> QED BY <1>2, <1>8, <2>1, <2>4, <2>5, <2>7 DEF Transfer, StreamEnds, t
<1> QED BY <1>8, <1>9, <1>10, <1>11, <1>12, <1>13, ClientStepKeeps

LEMMA SendEofKeeps ==
  ASSUME IInv, NEW c \in Clients, SendEof(c)
  PROVE  IInv'
<1> DEFINE m == [op |-> "eof"]
           s == toServer[c]
           t == toServer'[c]
<1>1. /\ client[c] = "eof"
      /\ Put(c, m)
      /\ client' = [client EXCEPT ![c] = "prompt"]
      /\ UNCHANGED <<files, sending, acked, ended, dropped, queue, server, receiving>>
  BY DEF SendEof, Goto
<1>2. UNCHANGED <<size, copy, name, sent, block, acked, ended, dropped, queue, server,
                  peer, target, received>>
  BY <1>1 DEF files, sending, receiving
<1>3. block[c] = <<>> /\ ~acked[c]
  BY <1>1, ClientFacts DEF ClientInv
<1>4. m \in Messages
  BY MessageKinds
<1> HIDE DEF m, s, t
<1>5. /\ toServer' \in [Clients -> Seq(Messages)]
      /\ \A d \in Clients : Len(toServer'[d]) <= Buffer
      /\ \A d \in Clients : d # c => toServer'[d] = toServer[d]
      /\ dropped[c] => toServer'[c] = toServer[c]
  BY <1>1, <1>4, PutProperties DEF IInv
<1>6. /\ client'[c] = "prompt"
      /\ \A d \in Clients : d # c => client'[d] = client[d]
  BY <1>1 DEF IInv, Types
<1>7. Types'
  <2>1. "prompt" \in Idle
    BY DEF Idle
  <2> QED BY <1>1, <1>2, <1>5, <2>1 DEF IInv, Types
<1>8. ClientStep(c)
  BY <1>1, <1>2, <1>5, <1>6, ClientFacts DEF ClientStep, Same
<1>9. ClientInv(c)'
  BY <1>2, <1>3, <1>6 DEF ClientInv, Idle
<1>10. ~NameAwaited(c) /\ ~(peer = c /\ server = "ack")
  BY <1>1, ClientFacts DEF BeforeName, AwaitsAck
<1>11. ASSUME peer = c, server = "data"
       PROVE  Transfer(c)'
  <2>1. /\ s = <<>> \/ EndsWith(s, "data")
        /\ Position(s, received, Len(s) + 1) = sent[c]
    BY <1>1, <1>11, ClientFacts DEF Transfer, StreamEnds, s
  <2>2. MayFollow(s, c, received, size[c][target], m)
    BY <2>1 DEF MayFollow, EndsWith, m
  <2>3. /\ Len(t) = Len(s) + 1 /\ Len(s) \in Nat
        /\ t[Len(s) + 1] = m
        /\ t # <<>>
        /\ IsStream(t, c, received, size[c][target])
        /\ Position(t, received, Len(s) + 1) = Position(s, received, Len(s) + 1)
    BY <1>1, <1>4, <1>11, <2>2, TransferGoesOn DEF s, t
  <2>4. EndsWith(t, "eof")
    BY <2>3 DEF EndsWith, m
  <2> QED BY <1>2, <1>6, <2>1, <2>3, <2>4 DEF Transfer, StreamEnds, t
<1>12. ~(peer = c /\ server = "name")
  BY <1>10 DEF NameAwaited
<1> QED BY <1>6, <1>7, <1>8, <1>9, <1>10, <1>11, <1>12, ClientStepKeeps

(***************************************************************************)
(* The process ends; the message that is being written may be cut.         *)
(***************************************************************************)
LEMMA LeaveKeeps ==
  ASSUME IInv, NEW c \in Clients, Leave(c),
         \/ UNCHANGED toServer
         \/ client[c] \in Sending /\ ~dropped[c] /\ Put(c, [op |-> "torn"])
  PROVE  IInv'
<1> DEFINE m == [op |-> "torn"]
           s == toServer[c]
           t == toServer'[c]
<1>1. /\ client' = [client EXCEPT ![c] = "off"]
      /\ name' = [name EXCEPT ![c] = NoName]
      /\ sent' = [sent EXCEPT ![c] = 0]
      /\ block' = [block EXCEPT ![c] = <<>>]
      /\ acked' = [acked EXCEPT ![c] = FALSE]
      /\ ended' = [ended EXCEPT ![c] = TRUE]
      /\ UNCHANGED <<files, dropped, queue, server, receiving>>
  BY DEF Leave, Goto
<1>2. UNCHANGED <<size, copy, dropped, queue, server, peer, target, received>>
  BY <1>1 DEF files, receiving
<1>3. m \in Messages
  BY MessageKinds
<1>4. /\ client'[c] = "off" /\ block'[c] = <<>> /\ ~acked'[c] /\ ended'[c]
      /\ \A d \in Clients : d # c =>
           /\ client'[d] = client[d] /\ name'[d] = name[d] /\ sent'[d] = sent[d]
           /\ block'[d] = block[d] /\ acked'[d] = acked[d] /\ ended'[d] = ended[d]
  BY <1>1 DEF IInv, Types
<1>5. /\ toServer' \in [Clients -> Seq(Messages)]
      /\ \A d \in Clients : Len(toServer'[d]) <= Buffer
      /\ \A d \in Clients : d # c => toServer'[d] = toServer[d]
      /\ dropped[c] => toServer'[c] = toServer[c]
  <2>1. CASE UNCHANGED toServer
    BY <2>1 DEF IInv, Types
  <2>2. CASE Put(c, m)
    BY <1>3, <2>2, PutProperties DEF IInv
  <2> QED BY <2>1, <2>2
<1> HIDE DEF m, s, t
<1>6. Types'
  <2>1. "off" \in Idle /\ 0 \in 0..MaxSize /\ <<>> \in Seq(Clients \X Nat)
        /\ Len(<<>>) = 0 /\ 0 <= MaxLine
    BY TransferAssumption DEF Idle, TransferAssumption
  <2>2. \A d \in Clients : Len(block'[d]) <= MaxLine
    <3>1. Len(block'[c]) <= MaxLine
      BY <1>4, <2>1
    <3> QED BY <1>4, <3>1 DEF IInv, Types
  <2>3. /\ client' \in [Clients -> Idle \cup Sending \cup {"ack", "read"}]
        /\ name' \in [Clients -> Names \cup {NoName}]
        /\ sent' \in [Clients -> 0..MaxSize]
        /\ block' \in [Clients -> Seq(Clients \X Nat)]
        /\ acked' \in [Clients -> BOOLEAN]
        /\ ended' \in [Clients -> BOOLEAN]
    BY <1>1, <2>1 DEF IInv, Types
  <2> QED BY <1>2, <1>5, <2>2, <2>3 DEF IInv, Types
<1>7. ClientStep(c)
  BY <1>1, <1>2, <1>4, <1>5, ClientFacts DEF ClientStep, Same
<1>8. ClientInv(c)'
  BY <1>4 DEF ClientInv, Idle
<1>9. ASSUME NameAwaited(c)
      PROVE  BeforeName(c)'
  <2>1. BeforeName(c)
    BY <1>9, ClientFacts
  <2>2. CASE UNCHANGED toServer
    BY <1>4, <2>1, <2>2 DEF BeforeName
  <2>3. CASE client[c] \in Sending /\ Put(c, m)
    <3>1. s = <<>>
      BY <2>1, <2>3 DEF BeforeName, Sending, s
    <3>2. t = <<m>>
      BY <1>3, <1>9, <2>3, <3>1, Written DEF s, t
    <3>3. Len(<<m>>) <= 1 /\ <<m>>[1].op = "torn"
      BY DEF m
    <3> QED BY <1>4, <3>2, <3>3 DEF BeforeName, t
  <2> QED BY <2>2, <2>3 DEF m
<1>10. ASSUME peer = c, server = "ack"
       PROVE  AwaitsAck(c)'
  <2>1. AwaitsAck(c)
    BY <1>10, ClientFacts
  <2>2. UNCHANGED toServer
    BY <2>1 DEF AwaitsAck, Sending
  <2> QED BY <1>4, <2>1, <2>2 DEF AwaitsAck
<1>11. ASSUME peer = c, server = "data"
       PROVE  Transfer(c)'
  <2>1. Transfer(c)
    BY <1>11, ClientFacts
  <2>2. IsStream(t, c, received, size[c][target])
    <3>1. CASE UNCHANGED toServer
      BY <2>1, <3>1 DEF Transfer, t
    <3>2. CASE client[c] \in Sending /\ Put(c, m)
      <4>1. s = <<>> \/ EndsWith(s, "data") \/ EndsWith(s, "eof")
        BY <2>1, <3>2 DEF Transfer, StreamEnds, Sending, s
      <4>2. MayFollow(s, c, received, size[c][target], m)
        BY <4>1 DEF MayFollow, EndsWith, m
      <4> QED BY <1>3, <1>11, <3>2, <4>2, TransferGoesOn DEF s, t
    <3> QED BY <3>1, <3>2 DEF m
  <2> QED BY <1>2, <1>4, <2>2 DEF Transfer, StreamEnds, t
<1> QED BY <1>4, <1>6, <1>7, <1>8, <1>9, <1>10, <1>11, ClientStepKeeps

LEMMA QuitKeeps ==
  ASSUME IInv, NEW c \in Clients, Quit(c) \/ Interrupt(c) \/ ClientEnds(c)
  PROVE  IInv'
<1>1. CASE Quit(c)
  BY <1>1, LeaveKeeps DEF Quit
<1>2. CASE Interrupt(c)
  BY <1>2, LeaveKeeps DEF Interrupt
<1>3. CASE ClientEnds(c)
  BY <1>3, LeaveKeeps DEF ClientEnds
<1> QED BY <1>1, <1>2, <1>3

(***************************************************************************)
(* A new connection waits to be accepted, and only once.                   *)
(***************************************************************************)
LEMMA ConnectKeeps ==
  ASSUME IInv, NEW c \in Clients, Connect(c)
  PROVE  IInv'
<1>1. /\ client[c] = "off" /\ ended[c] /\ dropped[c]
      /\ client' = [client EXCEPT ![c] = "prompt"]
      /\ sent' = [sent EXCEPT ![c] = 0]
      /\ ended' = [ended EXCEPT ![c] = FALSE]
      /\ dropped' = [dropped EXCEPT ![c] = FALSE]
      /\ queue' = Append(queue, c)
      /\ UNCHANGED <<files, name, block, toServer, acked, server, receiving>>
  BY DEF Connect, Goto
<1>2. UNCHANGED <<size, copy, name, block, toServer, acked, server,
                  peer, target, received>>
  BY <1>1 DEF files, receiving
<1>3. /\ client'[c] = "prompt" /\ ~ended'[c] /\ ~dropped'[c]
      /\ \A d \in Clients : d # c =>
           /\ client'[d] = client[d] /\ sent'[d] = sent[d]
           /\ ended'[d] = ended[d] /\ dropped'[d] = dropped[d]
  BY <1>1 DEF IInv, Types
<1>4. peer # c /\ ~Queued(c) /\ toServer[c] = <<>> /\ block[c] = <<>> /\ ~acked[c]
  BY <1>1, ClientFacts DEF IInv, ConnectionsInv, ClientInv
<1>5. /\ queue \in Seq(Clients) /\ Len(queue) \in Nat
      /\ queue' \in Seq(Clients)
      /\ Len(queue') = Len(queue) + 1
      /\ \A i \in 1..Len(queue) : queue'[i] = queue[i]
      /\ queue'[Len(queue) + 1] = c
  BY <1>1, AppendProperties DEF IInv, Types
<1>6. \A d \in Clients : Queued(d)' <=> Queued(d) \/ d = c
  <2>1. ASSUME NEW d \in Clients, NEW i \in 1..Len(queue'), queue'[i] = d
        PROVE  Queued(d) \/ d = c
    <3>1. i \in 1..Len(queue) \/ i = Len(queue) + 1
      BY <1>5
    <3> QED BY <1>5, <2>1, <3>1 DEF Queued
  <2>2. ASSUME NEW d \in Clients, NEW i \in 1..Len(queue), queue[i] = d
        PROVE  i \in 1..Len(queue') /\ queue'[i] = d
    BY <1>5, <2>2
  <2>3. Len(queue) + 1 \in 1..Len(queue')
    BY <1>5
  <2> QED BY <1>5, <2>1, <2>2, <2>3 DEF Queued
<1>7. \A i, j \in 1..Len(queue') : queue'[i] = queue'[j] => i = j
  <2>1. \A i, j \in 1..Len(queue) : queue[i] = queue[j] => i = j
    BY DEF IInv, ConnectionsInv
  <2>2. \A i \in 1..Len(queue) : queue[i] # c
    BY <1>4 DEF Queued
  <2>3. \A i \in 1..Len(queue') : i \in 1..Len(queue) \/ i = Len(queue) + 1
    BY <1>5
  <2> QED BY <1>5, <2>1, <2>2, <2>3
<1>8. Types'
  <2>1. "prompt" \in Idle /\ 0 \in 0..MaxSize
    BY TransferAssumption DEF Idle, TransferAssumption
  <2>2. /\ client' \in [Clients -> Idle \cup Sending \cup {"ack", "read"}]
        /\ sent' \in [Clients -> 0..MaxSize]
        /\ ended' \in [Clients -> BOOLEAN]
        /\ dropped' \in [Clients -> BOOLEAN]
    BY <1>1, <2>1 DEF IInv, Types
  <2> QED BY <1>2, <1>5, <2>2 DEF IInv, Types
<1>9. ConnectionsInv'
  <2>1. ASSUME NEW d \in Clients
        PROVE  /\ ended'[d] <=> client'[d] = "off"
               /\ ~dropped'[d] <=> peer = d \/ Queued(d) \/ d = c
               /\ ~(peer = d /\ (Queued(d) \/ d = c))
               /\ dropped'[d] => toServer[d] = <<>>
    <3>1. CASE d = c
      BY <1>3, <1>4, <3>1
    <3>2. CASE d # c
      BY <1>3, <3>2 DEF IInv, ConnectionsInv
    <3> QED BY <3>1, <3>2
  <2>2. /\ peer = NoClient <=> server \in {"down", "accept"}
        /\ server \in {"down", "accept"} => target = NoName /\ received = 0
        /\ server \in {"ack", "data", "large"} => target \in Names
    BY DEF IInv, ConnectionsInv
  <2> QED BY <1>2, <1>6, <1>7, <2>1, <2>2 DEF ConnectionsInv
<1>10. ClientsInv'
  <2>1. ASSUME NEW d \in Clients
        PROVE  ClientInv(d)'
    <3>1. CASE d = c
      BY <1>2, <1>3, <1>4, <3>1 DEF ClientInv, Idle
    <3>2. CASE d # c
      BY <1>2, <1>3, <3>2, ClientFacts DEF ClientInv
    <3> QED BY <3>1, <3>2
  <2> QED BY <2>1 DEF ClientsInv
<1>11. NamesInv'
  <2>1. ASSUME NEW d \in Clients, NameAwaited(d)'
        PROVE  BeforeName(d)'
    <3>1. CASE d = c
      <4>1. Len(<<>>) <= 1
        OBVIOUS
      <4> QED BY <1>2, <1>3, <1>4, <3>1, <4>1 DEF BeforeName
    <3>2. CASE d # c
      <4>1. NameAwaited(d)
        BY <1>2, <1>6, <2>1, <3>2 DEF NameAwaited
      <4> QED BY <1>2, <1>3, <3>2, <4>1, ClientFacts DEF BeforeName
    <3> QED BY <3>1, <3>2
  <2>2. ASSUME server = "name", target # NoName
        PROVE  /\ copy[target] = Bytes(peer, 0, received)
               /\ client'[peer] = "prompt" => received = sent'[peer]
    <3>1. peer \in Clients
      BY <2>2 DEF IInv, ConnectionsInv, Types
    <3> QED BY <1>3, <1>4, <2>2, <3>1 DEF IInv, NamesInv
  <2> QED BY <1>2, <2>1, <2>2 DEF NamesInv
<1>12. AckInv' /\ DataInv'
  <2>1. ASSUME server \in {"ack", "data"}
        PROVE  /\ peer \in Clients
               /\ client'[peer] = client[peer] /\ sent'[peer] = sent[peer]
    BY <1>3, <1>4, <2>1 DEF IInv, ConnectionsInv, Types
  <2>2. AckInv'
    BY <1>2, <2>1 DEF IInv, AckInv, AwaitsAck
  <2>3. DataInv'
    BY <1>2, <2>1 DEF IInv, DataInv, Transfer, StreamEnds
  <2> QED BY <2>2, <2>3
<1>13. CopiesInv'
  BY <1>2 DEF IInv, CopiesInv, CopiesAreNotMixed
<1> QED BY <1>8, <1>9, <1>10, <1>11, <1>12, <1>13 DEF IInv

LEMMA GrowKeeps ==
  ASSUME IInv, NEW c \in Clients, NEW f \in Names, Grow(c, f)
  PROVE  IInv'
<1>1. /\ size[c][f] < MaxSize
      /\ size' = [size EXCEPT ![c][f] = size[c][f] + 1]
      /\ UNCHANGED <<client, sending, wires, queue, server, receiving, copy>>
  BY DEF Grow
<1>2. UNCHANGED <<client, name, sent, block, toServer, acked, ended, dropped, queue, server,
                  peer, target, received, copy>>
  BY <1>1 DEF sending, wires, receiving
<1>3. ASSUME NEW d \in Clients, NEW g \in Names
      PROVE  /\ size[d][g] \in Nat /\ size'[d][g] \in Nat
             /\ size'[d][g] \in 0..MaxSize
             /\ size[d][g] <= size'[d][g]
  <2>1. size[d][g] \in 0..MaxSize /\ MaxSize \in Nat
    BY TransferAssumption DEF IInv, Types, TransferAssumption
  <2>2. CASE d = c /\ g = f
    <3>1. size'[d][g] = size[d][g] + 1
      BY <1>1, <2>2 DEF IInv, Types
    <3> QED BY <1>1, <2>1, <2>2, <3>1
  <2>3. CASE ~(d = c /\ g = f)
    <3>1. size'[d][g] = size[d][g]
      BY <1>1, <2>3 DEF IInv, Types
    <3> QED BY <2>1, <3>1
  <2> QED BY <2>2, <2>3
<1>4. Types'
  <2>1. size' \in [Clients -> [Names -> 0..MaxSize]]
    <3>1. size[c][f] + 1 \in 0..MaxSize
      <4>1. size[c][f] \in 0..MaxSize
        BY DEF IInv, Types
      <4> QED BY <1>1, <4>1, TransferAssumption DEF TransferAssumption
    <3>2. [size[c] EXCEPT ![f] = size[c][f] + 1] \in [Names -> 0..MaxSize]
      BY <3>1 DEF IInv, Types
    <3>3. size' = [size EXCEPT ![c] = [size[c] EXCEPT ![f] = size[c][f] + 1]]
      BY <1>1
    <3> QED BY <3>2, <3>3 DEF IInv, Types
  <2> QED BY <1>2, <2>1 DEF IInv, Types
<1>5. ConnectionsInv'
  BY <1>2 DEF IInv, ConnectionsInv, Queued
<1>6. ClientsInv'
  <2>1. ASSUME NEW d \in Clients
        PROVE  ClientInv(d)'
    <3>1. ClientInv(d) /\ sent[d] \in Nat
      BY TransferAssumption DEF IInv, ClientsInv, Types, TransferAssumption
    <3>2. CASE client[d] \in {"read", "block", "eof"}
      <4>1. name[d] \in Names /\ sent[d] <= size[d][name[d]]
        BY <3>1, <3>2 DEF ClientInv, Idle
      <4>2. sent[d] <= size'[d][name[d]]
        BY <1>3, <3>1, <4>1
      <4>3. client[d] = "block" => sent[d] + Len(block[d]) <= size'[d][name[d]]
        <5>1. ASSUME client[d] = "block"
              PROVE  /\ Len(block[d]) \in Nat
                     /\ sent[d] + Len(block[d]) <= size[d][name[d]]
          BY <3>1, <5>1, TransferAssumption DEF ClientInv, TransferAssumption
        <5> QED BY <1>3, <3>1, <4>1, <5>1
      <4> QED BY <1>2, <3>1, <4>2, <4>3 DEF ClientInv
    <3>3. CASE client[d] \notin {"read", "block", "eof"}
      BY <1>2, <3>1, <3>3 DEF ClientInv
    <3> QED BY <3>2, <3>3
  <2> QED BY <2>1 DEF ClientsInv
<1>7. NamesInv' /\ AckInv'
  BY <1>2 DEF IInv, NamesInv, NameAwaited, Queued, BeforeName, AckInv, AwaitsAck
<1>8. DataInv'
  <2>1. ASSUME server = "data"
        PROVE  /\ copy[target] = Bytes(peer, 0, received)
               /\ received <= size'[peer][target]
               /\ Transfer(peer)'
    <3>1. /\ peer \in Clients /\ target \in Names /\ received \in Nat
          /\ toServer[peer] \in Seq(Messages)
      BY <2>1, TransferAssumption
      DEF IInv, ConnectionsInv, Types, TransferAssumption
    <3>2. /\ copy[target] = Bytes(peer, 0, received)
          /\ received <= size[peer][target]
          /\ IsStream(toServer[peer], peer, received, size[peer][target])
          /\ StreamEnds(toServer[peer], peer)
      BY <2>1 DEF IInv, DataInv, Transfer
    <3>3. received <= size'[peer][target]
      BY <1>3, <3>1, <3>2
    <3>4. IsStream(toServer[peer], peer, received, size'[peer][target])
      BY <1>3, <3>1, <3>2, StreamOfGrownFile
    <3>5. StreamEnds(toServer[peer], peer)'
      BY <1>2, <3>2 DEF StreamEnds
    <3> QED BY <1>2, <3>2, <3>3, <3>4, <3>5 DEF Transfer
  <2> QED BY <1>2, <2>1 DEF DataInv
<1>9. CopiesInv'
  <2>1. CopiesAreNotMixed'
    <3>1. ASSUME NEW g \in Names
          PROVE  \E d \in Clients :
                   copy[g] = Bytes(d, 0, Len(copy[g])) /\ Len(copy[g]) <= size'[d][g]
      <4>1. PICK d \in Clients :
              copy[g] = Bytes(d, 0, Len(copy[g])) /\ Len(copy[g]) <= size[d][g]
        BY DEF IInv, CopiesInv, CopiesAreNotMixed
      <4>2. Len(copy[g]) \in Nat
        BY DEF IInv, Types
      <4>3. Len(copy[g]) <= size'[d][g]
        BY <1>3, <4>1, <4>2
      <4> QED BY <4>1, <4>3
    <3> QED BY <1>2, <3>1 DEF CopiesAreNotMixed
  <2>2. server = "large" => size'[peer][target] >= Limit
    <3>1. ASSUME server = "large"
          PROVE  /\ peer \in Clients /\ target \in Names /\ Limit \in Nat
                 /\ size[peer][target] >= Limit
      BY <3>1, TransferAssumption
      DEF IInv, ConnectionsInv, Types, CopiesInv, TransferAssumption
    <3> QED BY <1>3, <3>1
  <2> QED BY <1>2, <2>1, <2>2 DEF IInv, CopiesInv
<1> QED BY <1>4, <1>5, <1>6, <1>7, <1>8, <1>9 DEF IInv

-----------------------------------------------------------------------------
(* The steps of the server.                                                *)

LEMMA AcceptKeeps ==
  ASSUME IInv, Accept
  PROVE  IInv'
<1> DEFINE q == queue'
<1>1. /\ server = "accept" /\ queue # <<>>
      /\ peer' = Head(queue)
      /\ queue' = Tail(queue)
      /\ server' = "name"
      /\ UNCHANGED <<files, client, sending, wires, target, received>>
  BY DEF Accept, At
<1>2. UNCHANGED <<size, copy, client, name, sent, block, toServer, acked, ended, dropped,
                  target, received>>
  BY <1>1 DEF files, sending, wires
<1>3. Types
  BY DEF IInv
<1>4. Len(queue) \in Nat /\ Len(queue) # 0
  BY <1>1, <1>3, EmptySeq DEF Types
<1>5. /\ Head(queue) \in Clients /\ Head(queue) = queue[1]
      /\ q \in Seq(Clients)
      /\ Len(q) = Len(queue) - 1
      /\ \A i \in 1..Len(q) : q[i] = queue[i + 1]
  BY <1>1, <1>3, HeadTailProperties DEF Types
<1>6. \A i, j \in 1..Len(queue) : queue[i] = queue[j] => i = j
  BY DEF IInv, ConnectionsInv
<1> HIDE DEF q
<1>7. \A d \in Clients : Queued(d) <=> d = peer' \/ Queued(d)'
  <2>1. ASSUME NEW d \in Clients, NEW i \in 1..Len(queue), queue[i] = d, i # 1
        PROVE  i - 1 \in 1..Len(q) /\ q[i - 1] = d
    <3>1. i - 1 \in 1..Len(q) /\ i - 1 + 1 = i
      BY <1>4, <1>5, <2>1
    <3> QED BY <1>5, <2>1, <3>1
  <2>2. \A i \in 1..Len(q) : i + 1 \in 1..Len(queue)
    BY <1>4, <1>5
  <2>3. 1 \in 1..Len(queue)
    BY <1>4
  <2>4. ASSUME NEW d \in Clients, Queued(d)
        PROVE  d = peer' \/ Queued(d)'
    BY <1>1, <1>5, <2>1, <2>4 DEF Queued, q
  <2>5. ASSUME NEW d \in Clients, d = peer' \/ Queued(d)'
        PROVE  Queued(d)
    BY <1>1, <1>5, <2>2, <2>3, <2>5 DEF Queued, q
  <2> QED BY <2>4, <2>5
<1>8. \A d \in Clients : d = peer' => ~Queued(d)'
  <2>1. ASSUME NEW i \in 1..Len(q), q[i] = queue[1]
        PROVE  FALSE
    <3>1. i + 1 \in 1..Len(queue) /\ 1 \in 1..Len(queue) /\ i + 1 # 1
      BY <1>4, <1>5
    <3> QED BY <1>5, <1>6, <2>1, <3>1
  <2> QED BY <1>1, <1>5, <2>1 DEF Queued, q
<1>9. Types'
  BY <1>1, <1>2, <1>3, <1>5 DEF Types, q
<1>10. peer = NoClient /\ target = NoName
  BY <1>1 DEF IInv, ConnectionsInv
<1>11. ConnectionsInv'
  <2>1. \A i, j \in 1..Len(q) : q[i] = q[j] => i = j
    <3>1. ASSUME NEW i \in 1..Len(q), NEW j \in 1..Len(q), q[i] = q[j]
          PROVE  i = j
      <4>1. i + 1 \in 1..Len(queue) /\ j + 1 \in 1..Len(queue)
        BY <1>4, <1>5
      <4>2. i + 1 = j + 1
        BY <1>5, <1>6, <3>1, <4>1
      <4> QED BY <1>4, <1>5, <4>2
    <3> QED BY <3>1
  <2>2. ASSUME NEW d \in Clients
        PROVE  /\ ended[d] <=> client[d] = "off"
               /\ ~dropped[d] <=> peer' = d \/ Queued(d)'
               /\ ~(peer' = d /\ Queued(d)')
               /\ dropped[d] => toServer[d] = <<>>
    <3>1. peer # d
      BY <1>10, TransferAssumption DEF TransferAssumption
    <3> QED BY <1>7, <1>8, <3>1 DEF IInv, ConnectionsInv
  <2>3. peer' # NoClient
    BY <1>1, <1>5, TransferAssumption DEF TransferAssumption
  <2> QED BY <1>1, <1>2, <2>1, <2>2, <2>3 DEF ConnectionsInv, q
<1>12. ClientsInv'
  BY <1>2 DEF IInv, ClientsInv, ClientInv
<1>13. NamesInv'
  <2>1. ASSUME NEW d \in Clients, NameAwaited(d)'
        PROVE  BeforeName(d)'
    <3>1. Queued(d)
      BY <1>7, <2>1 DEF NameAwaited
    <3>2. BeforeName(d)
      BY <3>1 DEF IInv, NamesInv, NameAwaited
    <3> QED BY <1>2, <3>2 DEF BeforeName
  <2> QED BY <1>2, <1>10, <2>1 DEF NamesInv
<1>14. AckInv' /\ DataInv' /\ CopiesInv'
  BY <1>1, <1>2 DEF IInv, AckInv, DataInv, CopiesInv, CopiesAreNotMixed
<1> QED BY <1>9, <1>11, <1>12, <1>13, <1>14 DEF IInv

(***************************************************************************)
(* A step of the server with the client it serves: nothing that other      *)
(* connections have to do with changes.                                    *)
(***************************************************************************)
ServerStep ==
  /\ UNCHANGED <<size, client, name, sent, block, ended, dropped, queue, peer>>
  /\ peer \in Clients
  /\ server \notin {"down", "accept"} /\ server' \notin {"down", "accept"}
  /\ \A d \in Clients : d # peer => toServer'[d] = toServer[d] /\ acked'[d] = acked[d]
  /\ acked'[peer] => client[peer] = "ack"

LEMMA ServerStepKeeps ==
  ASSUME IInv, Types', ServerStep,
         server' \in {"ack", "data", "large"} => target' \in Names,
         server' = "name" => /\ BeforeName(peer)'
                             /\ copy'[target'] = Bytes(peer, 0, received')
                             /\ client[peer] = "prompt" => received' = sent[peer],
         AckInv', DataInv', CopiesInv'
  PROVE  IInv'
<1>1. \A d \in Clients : Queued(d)' <=> Queued(d)
  BY DEF Queued, ServerStep
<1>2. ConnectionsInv'
  <2>1. ASSUME NEW d \in Clients
        PROVE  /\ ended[d] <=> client[d] = "off"
               /\ ~dropped[d] <=> peer = d \/ Queued(d)
               /\ ~(peer = d /\ Queued(d))
               /\ dropped[d] => toServer'[d] = <<>>
    <3>1. /\ ended[d] <=> client[d] = "off"
          /\ ~dropped[d] <=> peer = d \/ Queued(d)
          /\ ~(peer = d /\ Queued(d))
          /\ dropped[d] => toServer[d] = <<>>
      BY DEF IInv, ConnectionsInv
    <3> QED BY <3>1 DEF ServerStep
  <2>2. peer # NoClient
    BY TransferAssumption DEF ServerStep, TransferAssumption
  <2>3. \A i, j \in 1..Len(queue) : queue[i] = queue[j] => i = j
    BY DEF IInv, ConnectionsInv
  <2> QED BY <1>1, <2>1, <2>2, <2>3 DEF ConnectionsInv, ServerStep
<1>3. ClientsInv'
  <2>1. ASSUME NEW d \in Clients
        PROVE  ClientInv(d)'
    <3>1. ClientInv(d)
      BY DEF IInv, ClientsInv
    <3> QED BY <3>1 DEF ClientInv, ServerStep
  <2> QED BY <2>1 DEF ClientsInv
<1>4. NamesInv'
  <2>1. ASSUME NEW d \in Clients, NameAwaited(d)'
        PROVE  BeforeName(d)'
    <3>1. CASE d = peer
      <4>1. ~Queued(d)
        BY <3>1 DEF IInv, ConnectionsInv
      <4>2. server' = "name"
        BY <1>1, <2>1, <4>1 DEF NameAwaited
      <4> QED BY <3>1, <4>2 DEF ServerStep, BeforeName
    <3>2. CASE d # peer
      <4>1. Queued(d)
        BY <1>1, <2>1, <3>2 DEF NameAwaited, ServerStep
      <4>2. BeforeName(d)
        BY <4>1 DEF IInv, NamesInv, NameAwaited
      <4> QED BY <3>2, <4>2 DEF BeforeName, ServerStep
    <3> QED BY <3>1, <3>2
  <2> QED BY <2>1 DEF NamesInv, ServerStep
<1> QED BY <1>2, <1>3, <1>4 DEF IInv

(***************************************************************************)
(* The byte counts a leaf needs to be numbers.                             *)
(***************************************************************************)
LEMMA ServerTypes ==
  ASSUME IInv, server \in {"name", "ack", "data", "large", "close"}
  PROVE  /\ Types /\ peer \in Clients
         /\ toServer[peer] \in Seq(Messages) /\ Len(toServer[peer]) \in Nat
         /\ (toServer[peer] # <<>> <=> Len(toServer[peer]) # 0)
         /\ received \in Nat /\ Limit \in Nat \ {0} /\ MaxSize \in Nat
         /\ MaxLine \in Nat
<1>1. Types /\ peer \in Clients
  BY DEF IInv, ConnectionsInv, Types
<1>2. toServer[peer] \in Seq(Messages)
  BY <1>1 DEF Types
<1>3. Len(toServer[peer]) \in Nat /\ (toServer[peer] # <<>> <=> Len(toServer[peer]) # 0)
  BY <1>2, EmptySeq
<1>4. received \in Nat /\ Limit \in Nat \ {0} /\ MaxSize \in Nat /\ MaxLine \in Nat
  BY <1>1, TransferAssumption DEF Types, TransferAssumption
<1> QED BY <1>1, <1>2, <1>3, <1>4

(***************************************************************************)
(* A file created anew: it is the beginning of any file.                   *)
(***************************************************************************)
LEMMA NothingCopied ==
  ASSUME NEW c \in Clients
  PROVE  Bytes(c, 0, 0) = <<>> /\ Len(<<>>) = 0
<1>1. Bytes(c, 0, 0) \in Seq(Clients \X Nat) /\ Len(Bytes(c, 0, 0)) = 0
  BY BytesProperties
<1> QED BY <1>1, EmptySeq

(***************************************************************************)
(* What becomes of the copies when one of them is written to.              *)
(***************************************************************************)
LEMMA CopyWritten ==
  ASSUME IInv, NEW f \in Names, NEW c \in Clients, NEW n \in Nat,
         n <= size[c][f], n < Limit, UNCHANGED size,
         copy' = [copy EXCEPT ![f] = Bytes(c, 0, n)],
         server' # "large"
  PROVE  /\ CopiesInv'
         /\ copy' \in [Names -> Seq(Clients \X Nat)]
         /\ copy'[f] = Bytes(c, 0, n)
<1>1. Bytes(c, 0, n) \in Seq(Clients \X Nat) /\ Len(Bytes(c, 0, n)) = n
  BY BytesProperties
<1>2. /\ copy'[f] = Bytes(c, 0, n)
      /\ \A g \in Names : g # f => copy'[g] = copy[g]
      /\ copy' \in [Names -> Seq(Clients \X Nat)]
  BY <1>1 DEF IInv, Types
<1>3. CopiesAreNotMixed'
  <2>1. ASSUME NEW g \in Names
        PROVE  \E d \in Clients :
                 copy'[g] = Bytes(d, 0, Len(copy'[g])) /\ Len(copy'[g]) <= size[d][g]
    <3>1. CASE g = f
      BY <1>1, <1>2, <3>1
    <3>2. CASE g # f
      BY <1>2, <3>2 DEF IInv, CopiesInv, CopiesAreNotMixed
    <3> QED BY <3>1, <3>2
  <2> QED BY <2>1 DEF CopiesAreNotMixed
<1>4. \A g \in Names : Len(copy'[g]) < Limit
  BY <1>1, <1>2 DEF IInv, CopiesInv
<1> QED BY <1>2, <1>3, <1>4 DEF CopiesInv

LEMMA ReceiveNameKeeps ==
  ASSUME IInv, ReceiveName
  PROVE  IInv'
<1>1. /\ server = "name"
      /\ Arrived /\ Message.op # "torn" /\ Take
      /\ received' = 0
      /\ UNCHANGED <<size, client, name, sent, block, acked, ended, dropped, queue, peer>>
  BY DEF ReceiveName, At, sending
<1>2. /\ Types /\ peer \in Clients /\ Limit \in Nat \ {0} /\ MaxSize \in Nat
      /\ Len(toServer[peer]) \in Nat
  BY <1>1, ServerTypes
<1>3. /\ toServer' \in [Clients -> Seq(Messages)]
      /\ \A d \in Clients : Len(toServer'[d]) <= Buffer
      /\ \A d \in Clients : d # peer => toServer'[d] = toServer[d]
      /\ Len(toServer'[peer]) = Len(toServer[peer]) - 1
      /\ Len(toServer[peer]) # 0
      /\ Message = toServer[peer][1]
      /\ Message \in Messages
  BY <1>1, <1>2, TakeProperties
<1>4. BeforeName(peer)
  BY <1>1, <1>2 DEF IInv, NamesInv, NameAwaited
<1>5. toServer'[peer] = <<>>
  <2>1. Len(toServer'[peer]) = 0
    <3>1. \A l \in Nat : l <= 1 /\ l # 0 => l - 1 = 0
      OBVIOUS
    <3> QED BY <1>2, <1>3, <1>4, <3>1 DEF BeforeName
  <2>2. toServer'[peer] \in Seq(Messages)
    BY <1>2, <1>3
  <2> QED BY <2>1, <2>2, EmptySeq
<1>6. /\ Message.op = "name"
      /\ Message.name \in Names
      /\ client[peer] \in {"ack", "off"}
      /\ client[peer] = "ack" => Message.name = name[peer]
  <2>1. toServer[peer] # <<>>
    BY <1>1 DEF Arrived
  <2>2. Message.op = "name"
    BY <1>1, <1>3, <1>4, <2>1 DEF BeforeName
  <2>3. client[peer] \in {"ack", "off"}
    BY <1>4, <2>1 DEF BeforeName
  <2>4. client[peer] = "ack" => Message = [op |-> "name", name |-> name[peer]]
    <3>1. ASSUME NEW m
          PROVE  <<m>>[1] = m
      OBVIOUS
    <3> QED BY <1>3, <1>4, <3>1 DEF BeforeName
  <2> QED BY <1>3, <2>2, <2>3, <2>4, MessageKinds
<1> DEFINE f == Message.name
<1>7. CASE /\ target' = f
           /\ copy' = [copy EXCEPT ![f] = <<>>]
           /\ server' = "ack"
  <2>1. size[peer][f] \in 0..MaxSize
    BY <1>2, <1>6 DEF Types
  <2>2. Bytes(peer, 0, 0) = <<>> /\ 0 <= size[peer][f] /\ 0 < Limit
    BY <1>2, <2>1, NothingCopied
  <2> HIDE DEF f
  <2>3. f \in Names
    BY <1>6 DEF f
  <2>4. CopiesInv' /\ copy' \in [Names -> Seq(Clients \X Nat)] /\ copy'[f] = <<>>
    BY <1>1, <1>2, <1>7, <2>2, <2>3, CopyWritten
  <2>5. Types'
    BY <1>1, <1>2, <1>3, <1>7, <2>3, <2>4, SMTT(60) DEF Types
  <2>6. AckInv'
    BY <1>1, <1>4, <1>5, <1>6, <1>7, <2>4 DEF AckInv, AwaitsAck, BeforeName, f
  <2>7. DataInv' /\ ServerStep
    BY <1>1, <1>2, <1>3, <1>4, <1>7 DEF DataInv, ServerStep, BeforeName
  <2> QED BY <1>7, <2>3, <2>4, <2>5, <2>6, <2>7, ServerStepKeeps
<1>8. CASE server' = "close" /\ UNCHANGED <<target, copy>>
  <2>1. Types'
    <3>1. 0 \in 0..MaxSize
      BY <1>2
    <3> QED BY <1>1, <1>2, <1>3, <1>8, <3>1 DEF Types
  <2>2. CopiesInv'
    BY <1>1, <1>8 DEF IInv, CopiesInv, CopiesAreNotMixed
  <2>3. AckInv' /\ DataInv' /\ ServerStep
    BY <1>1, <1>2, <1>3, <1>4, <1>8 DEF AckInv, DataInv, ServerStep, BeforeName
  <2> QED BY <1>8, <2>1, <2>2, <2>3, ServerStepKeeps
<1> QED BY <1>7, <1>8 DEF ReceiveName, Truncate

(***************************************************************************)
(* The acknowledgement is sent to a client that waits for it, or has gone. *)
(***************************************************************************)
LEMMA SendAckKeeps ==
  ASSUME IInv, SendAck
  PROVE  IInv'
<1>1. /\ server = "ack" /\ server' = "data"
      /\ acked' = [acked EXCEPT ![peer] = ~ended[peer]]
      /\ UNCHANGED <<size, copy, client, name, sent, block, toServer, ended, dropped, queue,
                     peer, target, received>>
  BY DEF SendAck, At, files, sending, receiving
<1>2. Types /\ peer \in Clients /\ MaxSize \in Nat /\ target \in Names
  BY <1>1, ServerTypes DEF IInv, ConnectionsInv
<1>3. /\ toServer[peer] = <<>>
      /\ client[peer] \in {"ack", "off"}
      /\ client[peer] = "ack" => target = name[peer]
      /\ received = 0 /\ copy[target] = <<>>
  BY <1>1 DEF IInv, AckInv, AwaitsAck
<1>4. /\ acked'[peer] <=> client[peer] = "ack"
      /\ \A d \in Clients : d # peer => acked'[d] = acked[d]
      /\ acked' \in [Clients -> BOOLEAN]
  <2>1. acked'[peer] = ~ended[peer]
    BY <1>1, <1>2 DEF Types
  <2>2. ended[peer] <=> client[peer] = "off"
    BY <1>2 DEF IInv, ConnectionsInv
  <2>3. \A d \in Clients : d # peer => acked'[d] = acked[d]
    BY <1>1, <1>2 DEF Types
  <2>4. acked' \in [Clients -> BOOLEAN]
    BY <1>1, <1>2 DEF Types
  <2> QED BY <1>3, <2>1, <2>2, <2>3, <2>4
<1>5. Types'
  BY <1>1, <1>2, <1>4 DEF Types
<1>6. ServerStep
  BY <1>1, <1>2, <1>4 DEF ServerStep
<1>7. DataInv'
  <2>1. copy[target] = Bytes(peer, 0, received)
    BY <1>2, <1>3, NothingCopied
  <2>2. received <= size[peer][target]
    <3>1. size[peer][target] \in 0..MaxSize
      BY <1>2 DEF Types
    <3> QED BY <1>2, <1>3, <3>1
  <2>3. IsStream(toServer[peer], peer, received, size[peer][target])
    <3>1. Len(<<>>) = 0
      OBVIOUS
    <3> QED BY <1>3, <3>1 DEF IsStream
  <2>4. StreamEnds(toServer[peer], peer)'
    BY <1>1, <1>3, <1>4 DEF StreamEnds
  <2> QED BY <1>1, <2>1, <2>2, <2>3, <2>4 DEF DataInv, Transfer
<1>8. CopiesInv' /\ AckInv'
  BY <1>1 DEF IInv, CopiesInv, CopiesAreNotMixed, AckInv
<1> QED BY <1>1, <1>2, <1>5, <1>6, <1>7, <1>8, ServerStepKeeps

(***************************************************************************)
(* What the invariant says of the transfer the server reads from.          *)
(***************************************************************************)
LEMMA DataFacts ==
  ASSUME IInv, server = "data", Arrived, Take
  PROVE  /\ Types /\ peer \in Clients /\ target \in Names
         /\ received \in Nat /\ Limit \in Nat \ {0} /\ MaxSize \in Nat /\ MaxLine \in Nat
         /\ size[peer][target] \in 0..MaxSize /\ size[peer][target] \in Nat
         /\ copy[target] = Bytes(peer, 0, received)
         /\ received <= size[peer][target]
         /\ IsStream(toServer[peer], peer, received, size[peer][target])
         /\ StreamEnds(toServer[peer], peer)
         /\ toServer[peer] \in Seq(Messages) /\ toServer[peer] # <<>>
         /\ Len(toServer[peer]) \in Nat /\ Len(toServer[peer]) # 0
         /\ toServer' \in [Clients -> Seq(Messages)]
         /\ \A d \in Clients : Len(toServer'[d]) <= Buffer
         /\ \A d \in Clients : d # peer => toServer'[d] = toServer[d]
         /\ toServer'[peer] \in Seq(Messages)
         /\ Len(toServer'[peer]) = Len(toServer[peer]) - 1
         /\ \A k \in 1..Len(toServer[peer]) - 1 :
              toServer'[peer][k] = toServer[peer][k + 1]
         /\ Message = toServer[peer][1] /\ Message \in Messages
<1>1. /\ Types /\ peer \in Clients /\ target \in Names
      /\ toServer[peer] \in Seq(Messages) /\ Len(toServer[peer]) \in Nat
      /\ (toServer[peer] # <<>> <=> Len(toServer[peer]) # 0)
      /\ received \in Nat /\ Limit \in Nat \ {0} /\ MaxSize \in Nat /\ MaxLine \in Nat
  BY ServerTypes DEF IInv, ConnectionsInv
<1>2. toServer[peer] # <<>>
  BY DEF Arrived
<1>3. size[peer][target] \in 0..MaxSize /\ size[peer][target] \in Nat
  <2>1. size[peer][target] \in 0..MaxSize
    BY <1>1 DEF Types
  <2> QED BY <1>1, <2>1
<1>4. /\ toServer' \in [Clients -> Seq(Messages)]
      /\ \A d \in Clients : Len(toServer'[d]) <= Buffer
      /\ \A d \in Clients : d # peer => toServer'[d] = toServer[d]
      /\ Len(toServer'[peer]) = Len(toServer[peer]) - 1
      /\ \A k \in 1..Len(toServer[peer]) - 1 :
           toServer'[peer][k] = toServer[peer][k + 1]
      /\ Message = toServer[peer][1]
      /\ Message \in Messages
  BY <1>1, TakeProperties
<1>5. toServer'[peer] \in Seq(Messages)
  BY <1>1, <1>4
<1>6. /\ copy[target] = Bytes(peer, 0, received)
      /\ received <= size[peer][target]
      /\ IsStream(toServer[peer], peer, received, size[peer][target])
      /\ StreamEnds(toServer[peer], peer)
  BY DEF IInv, DataInv, Transfer
<1> QED BY <1>1, <1>2, <1>3, <1>4, <1>5, <1>6

(***************************************************************************)
(* EndOfFile: what is left is what a server that waits for a name expects. *)
(***************************************************************************)
LEMMA EndOfFileKeeps ==
  ASSUME IInv, server = "data", Arrived, Take, Message.op = "eof",
         server' = "name",
         UNCHANGED <<size, copy, client, name, sent, block, acked, ended, dropped, queue,
                     peer, target, received>>
  PROVE  IInv'
<1> DEFINE s == toServer[peer]
           t == toServer'[peer]
<1>1. /\ Types /\ peer \in Clients /\ target \in Names
      /\ received \in Nat /\ size[peer][target] \in Nat
      /\ copy[target] = Bytes(peer, 0, received)
      /\ IsStream(s, peer, received, size[peer][target])
      /\ StreamEnds(s, peer)
      /\ s \in Seq(Messages) /\ s # <<>> /\ Len(s) \in Nat /\ Len(s) # 0
      /\ toServer' \in [Clients -> Seq(Messages)]
      /\ \A d \in Clients : Len(toServer'[d]) <= Buffer
      /\ \A d \in Clients : d # peer => toServer'[d] = toServer[d]
      /\ t \in Seq(Messages)
      /\ Len(t) = Len(s) - 1
      /\ \A k \in 1..Len(s) - 1 : t[k] = s[k + 1]
      /\ s[1].op = "eof"
  BY DataFacts
<1> HIDE DEF s, t
<1>2. Len(s) \in {1, 2} /\ (Len(s) = 2 => s[2].op \in {"name", "torn"})
  BY <1>1, AfterEndOfFile
<1>3. /\ Len(s) = 1 => t = <<>>
      /\ Len(s) = 2 => Len(t) = 1 /\ t[1] = s[2] /\ t # <<>>
  <2>1. Len(s) = 1 => Len(t) = 0
    BY <1>1
  <2>2. Len(s) = 2 => Len(t) = 1 /\ 1 \in 1..Len(s) - 1
    BY <1>1
  <2>3. Len(t) = 0 <=> t = <<>>
    BY <1>1, EmptySeq
  <2> QED BY <1>1, <2>1, <2>2, <2>3
<1>4. ~EndsWith(s, "data") /\ (EndsWith(s, "eof") => Len(s) = 1)
  BY <1>1, <1>2 DEF EndsWith
<1>5. client[peer] \in Idle \cup Sending \cup {"ack", "read"}
  BY <1>1 DEF Types
<1>6. client[peer] \in {"prompt", "name", "ack", "off"} /\ ~acked[peer]
  BY <1>1, <1>4, <1>5, ClientFacts DEF StreamEnds, Idle, Sending, ClientInv
<1>7. client[peer] = "ack" => t = <<[op |-> "name", name |-> name[peer]]>>
  <2>1. ASSUME client[peer] = "ack"
        PROVE  t = <<[op |-> "name", name |-> name[peer]]>>
    <3>1. s[Len(s)].op = "name" /\ s[Len(s)].name = name[peer]
      BY <1>1, <1>6, <2>1 DEF StreamEnds, EndsWith
    <3>2. Len(s) = 2
      BY <1>1, <1>2, <3>1
    <3>3. s[2] = [op |-> "name", name |-> name[peer]]
      <4>1. s[2] \in Messages
        BY <1>1, <3>2, ElementOfSeq
      <4> QED BY <3>1, <3>2, <4>1 DEF Messages
    <3>4. t = <<t[1]>>
      <4>1. \A x : <<x>> \in Seq({x}) /\ Len(<<x>>) = 1 /\ <<x>>[1] = x
        OBVIOUS
      <4>2. t \in Seq(Messages) /\ Len(t) = 1 /\ 1 \in 1..Len(t)
        BY <1>1, <1>3, <3>2
      <4>3. t[1] \in Messages
        BY <4>2, ElementOfSeq
      <4>4. <<t[1]>> \in Seq(Messages)
        BY <4>3
      <4> QED BY <4>1, <4>2, <4>4, SeqEqual
    <3> QED BY <1>3, <3>2, <3>3, <3>4
  <2> QED BY <2>1
<1>8. BeforeName(peer)'
  <2>1. Len(t) <= 1
    BY <1>1, <1>2
  <2>2. client[peer] \in {"prompt", "name"} => t = <<>>
    BY <1>1, <1>3, <1>4 DEF StreamEnds
  <2>3. t # <<>> => t[1].op \in {"name", "torn"}
    BY <1>2, <1>3
  <2> QED BY <1>6, <1>7, <2>1, <2>2, <2>3 DEF BeforeName, t
<1>9. client[peer] = "prompt" => received = sent[peer]
  BY <1>1, <1>4 DEF StreamEnds, Position
<1>10. Types'
  BY <1>1 DEF Types
<1>11. ServerStep
  BY <1>1, <1>6 DEF ServerStep
<1>12. AckInv' /\ DataInv' /\ CopiesInv'
  BY DEF AckInv, DataInv, IInv, CopiesInv, CopiesAreNotMixed
<1> QED BY <1>1, <1>8, <1>9, <1>10, <1>11, <1>12, ServerStepKeeps

(***************************************************************************)
(* A block that was sent where the copy ends: with it the copy is longer,  *)
(* and the stream goes on from there.                                      *)
(***************************************************************************)
LEMMA BlockArrives ==
  ASSUME IInv, server = "data", Arrived, Take, Message.op = "data"
  PROVE  LET d == Message.data IN
         /\ d \in Seq(Clients \X Nat) /\ Len(d) \in 1..MaxLine /\ Len(d) \in Nat
         /\ d = Bytes(peer, received, Len(d))
         /\ received + Len(d) <= size[peer][target]
         /\ IsStream(toServer'[peer], peer, received + Len(d), size[peer][target])
         /\ \A k \in 1..Len(toServer[peer]) :
              Position(toServer'[peer], received + Len(d), k) =
                Position(toServer[peer], received, k + 1)
<1> DEFINE s == toServer[peer]
           t == toServer'[peer]
           d == Message.data
<1>1. /\ peer \in Clients /\ received \in Nat /\ size[peer][target] \in Nat
      /\ IsStream(s, peer, received, size[peer][target])
      /\ s \in Seq(Messages) /\ s # <<>>
      /\ t \in Seq(Messages)
      /\ Len(t) = Len(s) - 1
      /\ \A k \in 1..Len(s) - 1 : t[k] = s[k + 1]
      /\ Message = s[1] /\ Message \in Messages
      /\ MaxLine \in Nat
  BY DataFacts
<1>2. d \in Seq(Clients \X Nat)
  BY <1>1, MessageKinds
<1> HIDE DEF s, t
<1>3. /\ IsBlock(s[1].data, peer, received, size[peer][target])
      /\ IsStream(t, peer, received + Len(s[1].data), size[peer][target])
      /\ \A k \in 1..Len(s) :
           Position(t, received + Len(s[1].data), k) = Position(s, received, k + 1)
  BY <1>1, StreamShrinks, ZenonT(60)
<1>4. s[1].data = d
  BY <1>1
<1> HIDE DEF d
<1>5. /\ IsBlock(d, peer, received, size[peer][target])
      /\ IsStream(t, peer, received + Len(d), size[peer][target])
      /\ \A k \in 1..Len(s) :
           Position(t, received + Len(d), k) = Position(s, received, k + 1)
  BY <1>3, <1>4
<1>6. Len(d) \in Nat
  BY <1>2, LenProperties
<1> QED BY <1>2, <1>5, <1>6 DEF IsBlock, s, t, d

LEMMA BlockKeeps ==
  ASSUME IInv, server = "data", Arrived, Take, Message.op = "data",
         ~TooLarge(Len(Message.data)),
         copy' = [copy EXCEPT ![target] = copy[target] \o Message.data],
         received' = received + Len(Message.data),
         UNCHANGED <<size, client, name, sent, block, acked, ended, dropped, queue,
                     peer, target, server>>
  PROVE  IInv'
<1> DEFINE s == toServer[peer]
           t == toServer'[peer]
           d == Message.data
           r == received + Len(Message.data)
<1>1. /\ d \in Seq(Clients \X Nat) /\ Len(d) \in 1..MaxLine /\ Len(d) \in Nat
      /\ d = Bytes(peer, received, Len(d))
      /\ r <= size[peer][target]
      /\ IsStream(t, peer, r, size[peer][target])
      /\ \A k \in 1..Len(s) : Position(t, r, k) = Position(s, received, k + 1)
  BY BlockArrives
<1>2. /\ Types /\ peer \in Clients /\ target \in Names
      /\ received \in Nat /\ Limit \in Nat \ {0} /\ MaxSize \in Nat
      /\ size[peer][target] \in 0..MaxSize
      /\ copy[target] = Bytes(peer, 0, received)
      /\ StreamEnds(s, peer)
      /\ s \in Seq(Messages) /\ s # <<>> /\ Len(s) \in Nat /\ Len(s) # 0
      /\ toServer' \in [Clients -> Seq(Messages)]
      /\ \A e \in Clients : Len(toServer'[e]) <= Buffer
      /\ \A e \in Clients : e # peer => toServer'[e] = toServer[e]
      /\ t \in Seq(Messages)
      /\ Len(t) = Len(s) - 1
      /\ \A k \in 1..Len(s) - 1 : t[k] = s[k + 1]
      /\ s[1].op = "data"
  BY DataFacts
<1>3. copy[target] \o d = Bytes(peer, 0, r)
  <2>1. Len(d) \in 0..Len(d)
    BY <1>1
  <2>2. Bytes(peer, 0, received) \o Bytes(peer, received, Len(d)) = Bytes(peer, 0, r)
    BY <1>1, <1>2, <2>1, BytesGoOn
  <2> QED BY <1>1, <1>2, <2>2
<1>4. r \in Nat /\ r \in 0..MaxSize /\ r < Limit
  <2>1. r \in Nat
    BY <1>1, <1>2
  <2>2. r < Limit
    BY <1>2, <2>1 DEF TooLarge
  <2>3. r \in 0..MaxSize
    <3> HIDE DEF r
    <3> QED BY <1>1, <1>2, <2>1, SMTT(40)
  <2> QED BY <2>1, <2>2, <2>3
<1>5. copy' = [copy EXCEPT ![target] = Bytes(peer, 0, r)] /\ received' = r
  BY <1>3
<1> HIDE DEF s, t, d, r
<1>6. /\ CopiesInv'
      /\ copy' \in [Names -> Seq(Clients \X Nat)]
      /\ copy'[target] = Bytes(peer, 0, r)
  BY <1>1, <1>2, <1>4, <1>5, CopyWritten
<1>7. Types'
  BY <1>2, <1>4, <1>5, <1>6 DEF Types
<1>8. /\ t # <<>> <=> Len(t) # 0
      /\ Len(s) # 1 => Len(t) # 0 /\ Len(t) \in 1..Len(s) - 1 /\ Len(t) + 1 = Len(s)
      /\ Len(s) \in 1..Len(s) /\ Len(t) + 1 = Len(s)
  BY <1>2, EmptySeq, SMTT(60)
<1>9. /\ EndsWith(s, "data") => t = <<>> \/ EndsWith(t, "data")
      /\ EndsWith(s, "eof") => Len(s) # 1 /\ EndsWith(t, "eof") /\ t[Len(t)] = s[Len(s)]
      /\ EndsWith(s, "name") => EndsWith(t, "name") /\ t[Len(t)] = s[Len(s)]
  <2>1. CASE Len(s) = 1
    BY <1>2, <1>8, <2>1 DEF EndsWith
  <2>2. CASE Len(s) # 1
    <3>1. t[Len(t)] = s[Len(s)] /\ t # <<>>
      BY <1>2, <1>8, <2>2
    <3> QED BY <1>2, <2>2, <3>1 DEF EndsWith
  <2> QED BY <2>1, <2>2
<1>10. StreamEnds(toServer[peer], peer)'
  <2>1. ASSUME client[peer] \in {"read", "block", "eof"}
        PROVE  /\ t = <<>> \/ EndsWith(t, "data")
               /\ target = name[peer]
               /\ Position(t, r, Len(t) + 1) = sent[peer]
    BY <1>1, <1>2, <1>8, <1>9, <2>1 DEF StreamEnds
  <2>2. client[peer] \in {"prompt", "name"} => EndsWith(t, "eof")
    BY <1>2, <1>9 DEF StreamEnds
  <2>3. ASSUME client[peer] = "prompt"
        PROVE  Position(t, r, Len(t)) = sent[peer]
    <3>1. Position(s, received, Len(s)) = sent[peer] /\ EndsWith(s, "eof")
      BY <1>2, <2>3 DEF StreamEnds
    <3>2. Len(t) \in 1..Len(s)
      BY <1>2, <1>8, <1>9, <3>1
    <3> QED BY <1>1, <1>8, <3>1, <3>2
  <2>4. ~(client[peer] = "ack" /\ acked[peer])
    BY <1>2 DEF StreamEnds
  <2>5. client[peer] = "ack" /\ ~acked[peer] =>
          EndsWith(t, "name") /\ t[Len(t)].name = name[peer]
    BY <1>2, <1>9 DEF StreamEnds
  <2> QED BY <1>5, <2>1, <2>2, <2>3, <2>4, <2>5 DEF StreamEnds, t
<1>11. DataInv'
  BY <1>1, <1>5, <1>6, <1>10 DEF DataInv, Transfer, t
<1>12. ServerStep
  BY <1>2, ClientFacts DEF ServerStep, ClientInv
<1>13. AckInv'
  BY DEF AckInv
<1> QED BY <1>2, <1>6, <1>7, <1>11, <1>12, <1>13, ServerStepKeeps

(***************************************************************************)
(* The connection is given up: only the copy may have got a part of the    *)
(* block, or the limit is the reason.                                      *)
(***************************************************************************)
LEMMA GivenUpKeeps ==
  ASSUME IInv, Types', CopiesInv',
         server \in {"name", "data"}, server' \in {"close", "large"},
         server' = "large" => server = "data",
         \A d \in Clients : d # peer => toServer'[d] = toServer[d],
         UNCHANGED <<size, client, name, sent, block, acked, ended, dropped, queue,
                     peer, target>>
  PROVE  IInv'
<1>1. /\ peer \in Clients /\ (server = "data" => target \in Names)
      /\ acked[peer] => client[peer] = "ack"
  BY DEF IInv, ConnectionsInv, ClientsInv, ClientInv, Types
<1>2. ServerStep
  BY <1>1 DEF ServerStep
<1>3. AckInv' /\ DataInv'
  BY DEF AckInv, DataInv
<1> QED BY <1>1, <1>2, <1>3, ServerStepKeeps

LEMMA ReceiveDataKeeps ==
  ASSUME IInv, ReceiveData
  PROVE  IInv'
<1> DEFINE d == Message.data
<1>1. /\ server = "data" /\ Arrived /\ Take
      /\ UNCHANGED <<size, client, name, sent, block, acked, ended, dropped, queue,
                     peer, target>>
  BY DEF ReceiveData, At, sending
<1>2. CASE Message.op = "eof" /\ server' = "name" /\ UNCHANGED <<copy, received>>
  BY <1>1, <1>2, EndOfFileKeeps
<1>3. CASE /\ Message.op = "data" /\ ~TooLarge(Len(d))
           /\ copy' = [copy EXCEPT ![target] = copy[target] \o d]
           /\ received' = received + Len(d)
           /\ UNCHANGED server
  BY <1>1, <1>3, BlockKeeps
<1>4. CASE /\ Message.op = "data" => TooLarge(Len(d))
           /\ server' = IF Message.op = "data" THEN "large" ELSE "close"
           /\ UNCHANGED <<copy, received>>
  <2>1. Types'
    BY <1>1, <1>4, DataFacts DEF Types
  <2>2. server' = "large" => size[peer][target] >= Limit
    <3>1. ASSUME Message.op = "data"
          PROVE  size[peer][target] >= Limit
      <4>1. /\ received + Len(d) <= size[peer][target] /\ Len(d) \in Nat
        BY <1>1, <3>1, BlockArrives
      <4>2. received + Len(d) >= Limit
        BY <1>4, <3>1 DEF TooLarge
      <4>3. received \in Nat /\ size[peer][target] \in Nat /\ Limit \in Nat
        BY <1>1, DataFacts
      <4> QED BY <4>1, <4>2, <4>3
    <3> QED BY <1>4, <3>1
  <2>3. CopiesInv'
    BY <1>1, <1>4, <2>2 DEF IInv, CopiesInv, CopiesAreNotMixed
  <2> QED BY <1>1, <1>4, <2>1, <2>3, DataFacts, GivenUpKeeps
<1> QED BY <1>2, <1>3, <1>4 DEF ReceiveData

(***************************************************************************)
(* A part of a block that was written is a part of the file.               *)
(***************************************************************************)
LEMMA WriteFailsKeeps ==
  ASSUME IInv, WriteFails
  PROVE  IInv'
<1> DEFINE d == Message.data
<1>1. /\ server = "data" /\ Arrived /\ Take /\ Message.op = "data"
      /\ ~TooLarge(Len(d))
      /\ server' = "close"
      /\ UNCHANGED <<size, client, name, sent, block, acked, ended, dropped, queue,
                     peer, target, received>>
  BY DEF WriteFails, At, GiveUp, sending, receiving
<1>2. PICK n \in 0..(Len(d) - 1) :
        copy' = [copy EXCEPT ![target] = copy[target] \o SubSeq(d, 1, n)]
  BY DEF WriteFails
<1>3. /\ Len(d) \in Nat
      /\ d = Bytes(peer, received, Len(d))
      /\ received + Len(d) <= size[peer][target]
  BY <1>1, BlockArrives
<1>4. /\ peer \in Clients /\ target \in Names
      /\ received \in Nat /\ size[peer][target] \in Nat /\ Limit \in Nat
      /\ copy[target] = Bytes(peer, 0, received)
      /\ Types
      /\ toServer' \in [Clients -> Seq(Messages)]
      /\ \A e \in Clients : Len(toServer'[e]) <= Buffer
      /\ \A e \in Clients : e # peer => toServer'[e] = toServer[e]
  BY <1>1, DataFacts
<1>5. received + Len(d) < Limit
  <2>1. received + Len(d) \in Nat
    BY <1>3, <1>4
  <2> QED BY <1>1, <1>4, <2>1 DEF TooLarge
<1> HIDE DEF d
<1>6. /\ n \in 0..Len(d)
      /\ received + n \in Nat
      /\ received + n <= size[peer][target]
      /\ received + n < Limit
  BY <1>3, <1>4, <1>5
<1>7. copy[target] \o SubSeq(d, 1, n) = Bytes(peer, 0, received + n)
  <2>1. Bytes(peer, 0, received) \o SubSeq(Bytes(peer, received, Len(d)), 1, n)
          = Bytes(peer, 0, received + n)
    BY <1>3, <1>4, <1>6, BytesGoOn
  <2> QED BY <1>3, <1>4, <2>1
<1>8. copy' = [copy EXCEPT ![target] = Bytes(peer, 0, received + n)]
  BY <1>2, <1>7
<1>9. CopiesInv' /\ copy' \in [Names -> Seq(Clients \X Nat)]
  BY <1>1, <1>4, <1>6, <1>8, CopyWritten
<1>10. Types'
  BY <1>1, <1>4, <1>9 DEF Types
<1> QED BY <1>1, <1>4, <1>9, <1>10, GivenUpKeeps

LEMMA HangUpKeeps ==
  ASSUME IInv, HangUp
  PROVE  IInv'
<1>1. /\ server \in {"name", "data"} /\ server' = "close"
      /\ UNCHANGED <<size, copy, client, name, sent, block, toServer, acked, ended, dropped,
                     queue, peer, target, received>>
  BY DEF HangUp, files, sending, wires, receiving
<1>2. Types'
  BY <1>1 DEF IInv, Types
<1>3. CopiesInv'
  BY <1>1 DEF IInv, CopiesInv, CopiesAreNotMixed
<1> QED BY <1>1, <1>2, <1>3, GivenUpKeeps

(***************************************************************************)
(* close and exit: nobody is served, and what was on its way is lost.      *)
(***************************************************************************)
LEMMA NobodyServed ==
  ASSUME IInv, Types', ConnectionsInv', ClientsInv', server' \in {"down", "accept"},
         UNCHANGED <<size, copy>>,
         \A d \in Clients : Queued(d)' => Queued(d) /\ Same(d)
  PROVE  IInv'
<1>1. target' = NoName
  BY DEF ConnectionsInv
<1>2. NamesInv'
  <2>1. ASSUME NEW d \in Clients, NameAwaited(d)'
        PROVE  BeforeName(d)'
    <3>1. Queued(d)'
      BY <2>1 DEF NameAwaited
    <3>2. Same(d) /\ BeforeName(d)
      BY <3>1 DEF IInv, NamesInv, NameAwaited
    <3> QED BY <3>2 DEF Same, BeforeName
  <2> QED BY <2>1 DEF NamesInv
<1>3. AckInv' /\ DataInv'
  BY DEF AckInv, DataInv
<1>4. CopiesInv'
  BY DEF IInv, CopiesInv, CopiesAreNotMixed
<1> QED BY <1>2, <1>3, <1>4 DEF IInv

LEMMA CloseKeeps ==
  ASSUME IInv, Close
  PROVE  IInv'
<1>1. /\ server \in {"close", "large"}
      /\ toServer' = [toServer EXCEPT ![peer] = <<>>]
      /\ dropped' = [dropped EXCEPT ![peer] = TRUE]
      /\ peer' = NoClient /\ target' = NoName /\ received' = 0 /\ server' = "accept"
      /\ UNCHANGED <<size, copy, client, name, sent, block, acked, ended, queue>>
  BY DEF Close, files, sending
<1>2. Types /\ peer \in Clients /\ MaxSize \in Nat
  BY <1>1, ServerTypes
<1>3. /\ toServer'[peer] = <<>> /\ dropped'[peer]
      /\ \A d \in Clients : d # peer => toServer'[d] = toServer[d] /\ dropped'[d] = dropped[d]
  BY <1>1, <1>2 DEF Types
<1>4. \A d \in Clients : Queued(d)' <=> Queued(d)
  BY <1>1 DEF Queued
<1>5. Types'
  <2>1. <<>> \in Seq(Messages) /\ Len(<<>>) = 0 /\ 0 <= Buffer /\ 0 \in 0..MaxSize
    BY <1>2, TransferAssumption DEF TransferAssumption
  <2>2. toServer' \in [Clients -> Seq(Messages)] /\ dropped' \in [Clients -> BOOLEAN]
    BY <1>1, <2>1 DEF IInv, Types
  <2>3. \A d \in Clients : Len(toServer'[d]) <= Buffer
    BY <1>2, <1>3, <2>1 DEF Types
  <2> QED BY <1>1, <1>2, <2>1, <2>2, <2>3 DEF Types
<1>6. ConnectionsInv'
  <2>1. ASSUME NEW d \in Clients
        PROVE  /\ ended[d] <=> client[d] = "off"
               /\ ~dropped'[d] <=> Queued(d)
               /\ NoClient # d
               /\ dropped'[d] => toServer'[d] = <<>>
    <3>1. NoClient # d
      BY TransferAssumption DEF TransferAssumption
    <3>2. CASE d = peer
      BY <1>3, <3>1, <3>2 DEF IInv, ConnectionsInv
    <3>3. CASE d # peer
      BY <1>3, <3>1, <3>3 DEF IInv, ConnectionsInv
    <3> QED BY <3>2, <3>3
  <2>2. \A i, j \in 1..Len(queue) : queue[i] = queue[j] => i = j
    BY DEF IInv, ConnectionsInv
  <2> QED BY <1>1, <1>4, <2>1, <2>2 DEF ConnectionsInv
<1>7. ClientsInv'
  BY <1>1 DEF IInv, ClientsInv, ClientInv
<1>8. \A d \in Clients : Queued(d)' => Queued(d) /\ Same(d)
  <2>1. ~Queued(peer)
    BY <1>2 DEF IInv, ConnectionsInv
  <2> QED BY <1>1, <1>3, <1>4, <2>1 DEF Same
<1> QED BY <1>1, <1>5, <1>6, <1>7, <1>8, NobodyServed

LEMMA InterruptServerKeeps ==
  ASSUME IInv, InterruptServer
  PROVE  IInv'
<1>1. /\ server' = "down" /\ queue' = <<>>
      /\ toServer' = [d \in Clients |-> <<>>]
      /\ dropped' = [d \in Clients |-> TRUE]
      /\ peer' = NoClient /\ target' = NoName /\ received' = 0
      /\ UNCHANGED <<size, copy, client, name, sent, block, acked, ended>>
  BY DEF InterruptServer, files, sending
<1>2. /\ <<>> \in Seq(Messages) /\ <<>> \in Seq(Clients) /\ Len(<<>>) = 0
      /\ 0 <= Buffer /\ 0 \in 0..MaxSize
  BY TransferAssumption DEF TransferAssumption
<1>3. \A d \in Clients : ~Queued(d)'
  BY <1>1, <1>2 DEF Queued
<1>4. Types'
  BY <1>1, <1>2 DEF IInv, Types
<1>5. ConnectionsInv'
  <2>1. \A d \in Clients : (ended[d] <=> client[d] = "off") /\ NoClient # d
    BY TransferAssumption DEF IInv, ConnectionsInv, TransferAssumption
  <2>2. \A i, j \in 1..Len(queue') : queue'[i] = queue'[j] => i = j
    BY <1>1, <1>2
  <2> QED BY <1>1, <1>3, <2>1, <2>2 DEF ConnectionsInv
<1>6. ClientsInv'
  BY <1>1 DEF IInv, ClientsInv, ClientInv
<1> QED BY <1>1, <1>3, <1>4, <1>5, <1>6, NobodyServed

LEMMA StartServerKeeps ==
  ASSUME IInv, StartServer
  PROVE  IInv'
<1>1. /\ server = "down" /\ server' = "accept"
      /\ UNCHANGED <<size, copy, client, name, sent, block, toServer, acked, ended, dropped,
                     queue, peer, target, received>>
  BY DEF StartServer, At, files, sending, wires, receiving
<1>2. Types' /\ ConnectionsInv' /\ ClientsInv'
  BY <1>1 DEF IInv, Types, ConnectionsInv, ClientsInv, ClientInv, Queued
<1>3. \A d \in Clients : Queued(d)' => Queued(d) /\ Same(d)
  BY <1>1 DEF Queued, Same
<1> QED BY <1>1, <1>2, <1>3, NobodyServed

-----------------------------------------------------------------------------
(* The invariant.                                                          *)

LEMMA InitIsSound ==
  ASSUME Init
  PROVE  IInv
<1>1. /\ <<>> \in Seq(Messages) /\ <<>> \in Seq(Clients) /\ <<>> \in Seq(Clients \X Nat)
      /\ Len(<<>>) = 0 /\ 0 <= Buffer /\ 0 <= MaxLine /\ 0 \in 0..MaxSize
      /\ 0 < Limit
  BY TransferAssumption DEF TransferAssumption
<1>2. \A c \in Clients : ~Queued(c)
  BY <1>1 DEF Init, Queued
<1>3. size \in [Clients -> [Names -> 0..MaxSize]]
  BY TransferAssumption DEF Init, TransferAssumption
<1>4. Types
  <2>1. /\ client \in [Clients -> Idle \cup Sending \cup {"ack", "read"}]
        /\ sent \in [Clients -> 0..MaxSize]
        /\ received \in 0..MaxSize
    BY <1>1 DEF Init, Idle
  <2>2. /\ name \in [Clients -> Names \cup {NoName}]
        /\ block \in [Clients -> Seq(Clients \X Nat)]
        /\ toServer \in [Clients -> Seq(Messages)]
        /\ \A c \in Clients : Len(block[c]) <= MaxLine /\ Len(toServer[c]) <= Buffer
        /\ copy \in [Names -> Seq(Clients \X Nat)]
    BY <1>1 DEF Init
  <2> QED BY <1>1, <1>3, <2>1, <2>2 DEF Init, Types
<1>5. ConnectionsInv
  <2>1. \A c \in Clients : NoClient # c
    BY TransferAssumption DEF TransferAssumption
  <2> QED BY <1>1, <1>2, <2>1 DEF Init, ConnectionsInv
<1>6. ClientsInv /\ NamesInv /\ AckInv /\ DataInv
  BY <1>2 DEF Init, ClientsInv, ClientInv, Idle, NamesInv, NameAwaited, AckInv, DataInv
<1>7. CopiesInv
  <2>1. PICK c \in Clients : TRUE
    BY TransferAssumption DEF TransferAssumption
  <2>2. \A f \in Names : 0 <= size[c][f]
    BY <1>3
  <2>3. CopiesAreNotMixed
    BY <2>2, NothingCopied DEF Init, CopiesAreNotMixed
  <2> QED BY <1>1, <2>3 DEF Init, CopiesInv
<1> QED BY <1>4, <1>5, <1>6, <1>7 DEF IInv

LEMMA NextKeeps ==
  ASSUME IInv, [Next]_vars
  PROVE  IInv'
<1>1. CASE \E c \in Clients : \/ ClientRuns(c) \/ Connect(c) \/ Quit(c) \/ Interrupt(c)
                              \/ \E f \in Names : Open(c, f) \/ Grow(c, f)
  <2>1. PICK c \in Clients : \/ ClientRuns(c) \/ Connect(c) \/ Quit(c) \/ Interrupt(c)
                             \/ \E f \in Names : Open(c, f) \/ Grow(c, f)
    BY <1>1
  <2>2. CASE ClientRuns(c)
    BY <2>2, SendNameKeeps, ReceiveAckKeeps, ReadBlockKeeps, SendBlockKeeps, SendEofKeeps,
       QuitKeeps DEF ClientRuns
  <2>3. CASE Connect(c)
    BY <2>3, ConnectKeeps
  <2>4. CASE Quit(c) \/ Interrupt(c)
    BY <2>4, QuitKeeps
  <2>5. CASE \E f \in Names : Open(c, f) \/ Grow(c, f)
    BY <2>5, OpenKeeps, GrowKeeps
  <2> QED BY <2>1, <2>2, <2>3, <2>4, <2>5
<1>2. CASE ServerRuns
  BY <1>2, AcceptKeeps, ReceiveNameKeeps, SendAckKeeps, ReceiveDataKeeps, WriteFailsKeeps,
     HangUpKeeps, CloseKeeps DEF ServerRuns
<1>3. CASE InterruptServer \/ StartServer
  BY <1>3, InterruptServerKeeps, StartServerKeeps
<1>4. CASE UNCHANGED vars
  <2>1. UNCHANGED <<size, copy, client, name, sent, block, toServer, acked, ended, dropped,
                    queue, server, peer, target, received>>
    BY <1>4 DEF vars, files, sending, wires, receiving
  <2>2. Types' /\ ConnectionsInv' /\ ClientsInv'
    BY <2>1 DEF IInv, Types, ConnectionsInv, Queued, ClientsInv, ClientInv
  <2>3. NamesInv' /\ AckInv'
    BY <2>1 DEF IInv, NamesInv, NameAwaited, Queued, BeforeName, AckInv, AwaitsAck
  <2>4. DataInv' /\ CopiesInv'
    BY <2>1 DEF IInv, DataInv, Transfer, StreamEnds, CopiesInv, CopiesAreNotMixed
  <2> QED BY <2>2, <2>3, <2>4 DEF IInv
<1> QED BY <1>1, <1>2, <1>3, <1>4 DEF Next

(***************************************************************************)
(* Every state of the transfer satisfies the invariant.                    *)
(***************************************************************************)
THEOREM TransferInvariant == Spec => []IInv
<1>1. Init => IInv
  BY InitIsSound
<1>2. IInv /\ [Next]_vars => IInv'
  BY NextKeeps
<1> QED BY <1>1, <1>2, PTL DEF Spec

(***************************************************************************)
(* A copy on the server's disk is the beginning of one client's file,      *)
(* whatever was interrupted, repeated or sent under the same name: open    *)
(* with O_TRUNC empties the copy, and write_all appends the blocks in the  *)
(* order in which the client has read them.                                *)
(***************************************************************************)
THEOREM NoCopyIsMixed == Spec => []CopiesAreNotMixed
<1>1. IInv => CopiesAreNotMixed
  BY DEF IInv, CopiesInv
<1> QED BY <1>1, TransferInvariant, PTL

(***************************************************************************)
(* "Sent n bytes" and "Received n bytes" agree, and the copy has all of    *)
(* them, once EndOfFile has been read and the client is back at its prompt.*)
(***************************************************************************)
THEOREM NoByteIsLost == Spec => []FinishedCopiesAreWhole
<1>1. IInv => FinishedCopiesAreWhole
  <2> SUFFICES ASSUME IInv, NEW c \in Clients, Finished(c)
               PROVE  received = sent[c] /\ copy[target] = Bytes(c, 0, sent[c])
    BY DEF FinishedCopiesAreWhole
  <2> QED BY DEF IInv, NamesInv, Finished
<1> QED BY <1>1, TransferInvariant, PTL

(***************************************************************************)
(* The limits of both sides agree: a transfer is given up for its size     *)
(* only if the file has become too large after the client has looked, and  *)
(* no copy reaches the limit.                                              *)
(***************************************************************************)
THEOREM NoFileIsRefusedLate == Spec => []LimitsAgree
<1>1. ASSUME IInv
      PROVE  LimitsAgree
  <2>1. Types
    BY <1>1 DEF IInv
  <2>2. \A c \in Clients : /\ Len(block[c]) \in 0..MaxLine
                           /\ Len(toServer[c]) \in 0..Buffer
                           /\ Range(toServer[c]) \subseteq Messages
    <3>1. ASSUME NEW c \in Clients
          PROVE  /\ Len(block[c]) \in Nat /\ Len(toServer[c]) \in Nat
                 /\ Len(block[c]) <= MaxLine /\ Len(toServer[c]) <= Buffer
      BY <2>1 DEF Types
    <3>2. ASSUME NEW c \in Clients
          PROVE  Range(toServer[c]) \subseteq Messages
      <4>1. toServer[c] \in Seq(Messages)
        BY <2>1 DEF Types
      <4> QED BY <4>1 DEF Range
    <3> QED BY <3>1, <3>2, TransferAssumption DEF TransferAssumption
  <2>3. Range(queue) \subseteq Clients
    <3>1. queue \in Seq(Clients)
      BY <2>1 DEF Types
    <3> QED BY <3>1 DEF Range
  <2>4. IsInjective(queue)
    <3>1. queue \in Seq(Clients) /\ DOMAIN queue = 1..Len(queue)
      BY <2>1 DEF Types
    <3>2. \A i, j \in 1..Len(queue) : queue[i] = queue[j] => i = j
      BY <1>1 DEF IInv, ConnectionsInv
    <3> QED BY <3>1, <3>2 DEF IsInjective
  <2>5. TypeOK
    BY <2>1, <2>2, <2>3, <2>4 DEF Types, TypeOK
  <2> QED BY <1>1, <2>5 DEF IInv, CopiesInv, LimitsAgree
<1> QED BY <1>1, TransferInvariant, PTL
=============================================================================
