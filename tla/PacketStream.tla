---------------------------- MODULE PacketStream ----------------------------
(***************************************************************************)
(* One direction of a connection between two clients: the list of packets  *)
(* that the sender's CNetPeerSession writes piece by piece, the stream of  *)
(* bytes, and the receiver's CNetPeerSession and CPaintSession, whose      *)
(* CPacketSlicer cuts packets out of the pieces that arrive.               *)
(*                                                                         *)
(* Packets are numbered as they are sent.  A byte is known by the packet   *)
(* and the field it belongs to and its place in that field; bytes of a     *)
(* body are taken not to look like the start of a packet.                  *)
(***************************************************************************)
EXTENDS Integers, Sequences

CONSTANTS
  Shape,    \* the packets: whether their code is known to the receiver, and the
            \* lengths of the sender's id, the target's id and the body
  BufSize,  \* _BUF_SIZE
  MaxBody,  \* MAX_PACKET_BODY_SIZE
  MaxSent   \* bound: packets sent

ASSUME PacketStreamAssumption ==
  /\ Shape \subseteq [known : BOOLEAN, from : Nat, to : Nat, body : Nat]
  /\ BufSize \in Nat \ {0}
  /\ MaxBody \in Nat /\ MaxSent \in Nat

VARIABLES
  (* the sender *)
  sent,                \* the packets given to sendData
  write_buffer_list_,  \* packets being written: number, bytes read so far
  curr_write_buffer_,
  writes,              \* async_writes under way
  written,             \* async_writes whose handler was not called yet
  handling,            \* handlers between the two halves of _handle_write
  (* the network *)
  wire,                \* bytes written and not received
  broken,              \* the connection broke
  (* the receiver *)
  open,                \* isConnected
  at,                  \* what the IO thread is at: reading, parsing, dispatching
  buffer_, readPos_,   \* the slicer's buffer
  state_,              \* the slicer's state: the field that comes next
  currHeaderLen_, currIdLen, currId, currCode_, currBodyLen_,
  parsedItems_,
  delivered            \* the packets passed on

sender == <<sent, write_buffer_list_, curr_write_buffer_, writes, written, handling>>
header == <<currHeaderLen_, currIdLen, currId, currCode_, currBodyLen_>>
slicer == <<buffer_, readPos_, state_, header>>
receiver == <<open, at, slicer, parsedItems_, delivered>>
vars == <<sender, wire, broken, receiver>>

Side == {"from", "to"}

(* The bytes of packet n, field by field.                                   *)
Field(n, name, length) == [i \in 1 .. length |-> [of |-> n, is |-> name, at |-> i]]

Packet(n, shape) ==
  Field(n, "magic", 2) \o Field(n, "code", 2) \o
  Field(n, "fromLen", 1) \o Field(n, "from", shape.from) \o
  Field(n, "toLen", 1) \o Field(n, "to", shape.to) \o
  Field(n, "bodyLen", 4) \o Field(n, "body", shape.body)

(* The bytes of the first n packets.                                        *)
Byte(n) ==
  [of : 1 .. n, at : Nat \ {0},
   is : {"magic", "code", "fromLen", "from", "toLen", "to", "bodyLen", "body"}]

Item == [code : Nat, from : Nat, to : Nat, body : Seq(Byte(Len(sent)))]

(* A packet that is being written, and how far it was read.                 *)
Written(packets) ==
  {w \in [packet : 1 .. Len(packets), readPos : Nat] :
     w.readPos <= Len(Packet(w.packet, packets[w.packet]))}

SenderType ==
  /\ sent \in Seq(Shape)
  /\ write_buffer_list_ \in Seq(Written(sent))
  /\ curr_write_buffer_ \in Seq(Byte(Len(sent))) /\ wire \in Seq(Byte(Len(sent)))
  /\ writes \in Nat /\ written \in Nat /\ handling \in 0 .. 1

SlicerType ==
  /\ at \in {"reading", "parsing", "dispatching"}
  /\ buffer_ \in Seq(Byte(Len(sent))) /\ readPos_ \in Nat
  /\ state_ \in {"magic", "code", "from", "to", "bodyLen", "body"}
  /\ currHeaderLen_ \in Nat /\ currIdLen \in [Side -> Nat] /\ currId \in [Side -> Nat]
  /\ currCode_ \in Nat /\ currBodyLen_ \in Nat

ItemsType == parsedItems_ \in Seq(Item) /\ delivered \in Seq(Item)

FlagType == {broken, open} \subseteq BOOLEAN

TypeOK == SenderType /\ SlicerType /\ ItemsType /\ FlagType

Init ==
  /\ sent = <<>> /\ write_buffer_list_ = <<>> /\ curr_write_buffer_ = <<>>
  /\ writes = 0 /\ written = 0 /\ handling = 0
  /\ wire = <<>> /\ broken = FALSE
  /\ open = TRUE /\ at = "reading"
  /\ buffer_ = <<>> /\ readPos_ = 0 /\ state_ = "magic"
  /\ currHeaderLen_ = 0 /\ currIdLen = [s \in Side |-> 0] /\ currId = [s \in Side |-> 0]
  /\ currCode_ = 0 /\ currBodyLen_ = 0
  /\ parsedItems_ = <<>> /\ delivered = <<>>

-----------------------------------------------------------------------------
(* The sender.                                                              *)

(* Mutant: the reading goes on by the size of the buffer.                   *)
AdvancedByBuffer(list, size) == [list EXCEPT ![1].readPos = @ + BufSize]

Advanced(list, size) == [list EXCEPT ![1].readPos = @ + size]

(* _start_write: the next piece of the first packet of the list.            *)
StartWrite(list, packets) ==
  LET front == list[1]
      bytes == Packet(front.packet, packets[front.packet])
      left == Len(bytes) - front.readPos
      size == IF left < BufSize THEN left ELSE BufSize
  IN  /\ curr_write_buffer_' = SubSeq(bytes, front.readPos + 1, front.readPos + size)
      /\ write_buffer_list_' = Advanced(list, size)
      /\ writes' = writes + 1

(* Mutant: the packet that is being written is not counted.                 *)
MoreInProgress(list) == Len(list) > 1

WriteInProgress(list) == list # <<>>

(* sendData, of any thread, under the lock.                                 *)
SendData(shape) ==
  /\ Len(sent) < MaxSent
  /\ sent' = Append(sent, shape)
  /\ LET list == Append(write_buffer_list_, [packet |-> Len(sent) + 1, readPos |-> 0])
     IN  IF WriteInProgress(write_buffer_list_)
         THEN write_buffer_list_' = list /\ UNCHANGED <<curr_write_buffer_, writes>>
         ELSE StartWrite(list, sent')
  /\ UNCHANGED <<written, handling, wire, broken, receiver>>

(* async_write has written the buffer.                                      *)
WriteCompletes ==
  /\ writes > 0 /\ ~broken
  /\ wire' = wire \o curr_write_buffer_
  /\ writes' = writes - 1 /\ written' = written + 1
  /\ UNCHANGED <<sent, write_buffer_list_, curr_write_buffer_, handling, broken, receiver>>

(* It fails; the handler closes the socket, and the list stays as it is.    *)
WriteFails ==
  /\ writes > 0 /\ broken
  /\ writes' = writes - 1
  /\ UNCHANGED <<sent, write_buffer_list_, curr_write_buffer_, written, handling,
                 wire, broken, receiver>>

(* _handle_write: first it reads the front of the list, not locked, and     *)
(* tells of its progress.                                                   *)
HandleWrite ==
  /\ written > 0 /\ handling = 0
  /\ handling' = 1
  /\ written' = written - 1
  /\ UNCHANGED <<sent, write_buffer_list_, curr_write_buffer_, writes, wire, broken, receiver>>

(* Mutant: a packet is taken from the list after one piece.                 *)
RestAfterPiece(list, packets) == Tail(list)

(* A packet that was read to its end is taken from the list.                *)
Rest(list, packets) ==
  IF list[1].readPos = Len(Packet(list[1].packet, packets[list[1].packet]))
  THEN Tail(list) ELSE list

(* Then, under the lock, the next piece.                                    *)
HandleWriteRest ==
  /\ handling = 1
  /\ handling' = 0
  /\ LET list == Rest(write_buffer_list_, sent)
     IN  IF list # <<>> THEN StartWrite(list, sent)
         ELSE write_buffer_list_' = list /\ UNCHANGED <<curr_write_buffer_, writes>>
  /\ UNCHANGED <<sent, written, wire, broken, receiver>>

(* The connection breaks, and what is on its way is lost.                   *)
Break ==
  /\ ~broken
  /\ broken' = TRUE
  /\ wire' = <<>>
  /\ UNCHANGED <<sender, receiver>>

-----------------------------------------------------------------------------
(* The receiver: a read, and what the slicer makes of it.                   *)

(* _handle_read and addBuffer; parse begins.                                *)
Receive(n) ==
  /\ at = "reading" /\ open
  /\ n \in 1 .. BufSize /\ n <= Len(wire)
  /\ buffer_' = buffer_ \o SubSeq(wire, 1, n)
  /\ wire' = SubSeq(wire, n + 1, Len(wire))
  /\ at' = "parsing"
  /\ parsedItems_' = <<>>
  /\ UNCHANGED <<sender, broken, open, readPos_, state_, header, delivered>>

(* doParse finds less than it needs, and parse ends.                        *)
Lacks(n) == Len(buffer_) - readPos_ < n

Needs == CASE state_ \in {"magic", "code"} -> 2
           [] state_ \in Side -> IF currIdLen[state_] = 0 THEN 1 ELSE currIdLen[state_]
           [] state_ = "bodyLen" -> 4
           [] state_ = "body" -> currBodyLen_

StopParsing ==
  /\ at = "parsing" /\ Lacks(Needs)
  /\ at' = "dispatching"
  /\ IF state_ = "magic"
     THEN currHeaderLen_' = 0 /\ currIdLen' = [s \in Side |-> 0]
     ELSE UNCHANGED <<currHeaderLen_, currIdLen>>
  /\ UNCHANGED <<sender, wire, broken, open, buffer_, readPos_, state_,
                 currId, currCode_, currBodyLen_, parsedItems_, delivered>>

Parsing(state) == at = "parsing" /\ state_ = state /\ ~Lacks(Needs)

Taken(n) == SubSeq(buffer_, readPos_ + 1, readPos_ + n)

(* Mutant: bytes that are read are not counted.                             *)
ReadUncounted(n) == readPos_' = readPos_ + n /\ UNCHANGED currHeaderLen_

(* Bytes that are read are part of the header.                              *)
Read(n) == readPos_' = readPos_ + n /\ currHeaderLen_' = currHeaderLen_ + n

(* init: everything that was received and cut out is dropped.               *)
Reset ==
  /\ currHeaderLen_' = 0 /\ state_' = "magic"
  /\ buffer_' = <<>> /\ readPos_' = 0
  /\ parsedItems_' = <<>>
  /\ at' = "dispatching"

ReadMagic ==
  /\ Parsing("magic")
  /\ currIdLen' = [s \in Side |-> 0]
  /\ IF \E n \in 1 .. Len(sent) : Taken(2) = Field(n, "magic", 2)
     THEN /\ readPos_' = readPos_ + 2 /\ currHeaderLen_' = 2
          /\ state_' = "code"
          /\ UNCHANGED <<buffer_, parsedItems_, at>>
     ELSE Reset
  /\ UNCHANGED <<sender, wire, broken, open, currId, currCode_, currBodyLen_, delivered>>

ReadCode ==
  /\ Parsing("code")
  /\ currCode_' = Taken(1)[1].of
  /\ IF sent[currCode_'].known
     THEN Read(2) /\ state_' = "from" /\ UNCHANGED <<buffer_, parsedItems_, at>>
     ELSE Reset
  /\ UNCHANGED <<sender, wire, broken, open, currIdLen, currId, currBodyLen_, delivered>>

AfterId(s) == IF s = "from" THEN "to" ELSE "bodyLen"

(* The length of an id; an id of length 0 is passed over.                   *)
ReadIdLength(s) ==
  /\ Parsing(s) /\ currIdLen[s] = 0
  /\ Read(1)
  /\ LET length == sent[Taken(1)[1].of][s]
     IN  /\ currIdLen' = [currIdLen EXCEPT ![s] = length]
         /\ state_' = IF length = 0 THEN AfterId(s) ELSE s
  /\ UNCHANGED <<sender, wire, broken, open, at, buffer_, currId, currCode_, currBodyLen_,
                 parsedItems_, delivered>>

ReadId(s) ==
  /\ Parsing(s) /\ currIdLen[s] > 0
  /\ Read(currIdLen[s])
  /\ currId' = [currId EXCEPT ![s] = Taken(1)[1].of]
  /\ state_' = AfterId(s)
  /\ UNCHANGED <<sender, wire, broken, open, at, buffer_, currIdLen, currCode_, currBodyLen_,
                 parsedItems_, delivered>>

TooBig(length) == length > MaxBody

ReadBodyLength ==
  /\ Parsing("bodyLen")
  /\ currBodyLen_' = sent[Taken(1)[1].of].body
  /\ IF TooBig(currBodyLen_')
     THEN Reset
     ELSE Read(4) /\ state_' = "body" /\ UNCHANGED <<buffer_, parsedItems_, at>>
  /\ UNCHANGED <<sender, wire, broken, open, currIdLen, currId, currCode_, delivered>>

(* A packet is complete; the body is taken from behind the header.          *)
ReadBody ==
  /\ Parsing("body")
  /\ parsedItems_' = Append(parsedItems_,
       [code |-> currCode_, from |-> currId["from"], to |-> currId["to"],
        body |-> SubSeq(buffer_, currHeaderLen_ + 1, currHeaderLen_ + currBodyLen_)])
  /\ buffer_' = SubSeq(buffer_, currHeaderLen_ + currBodyLen_ + 1, Len(buffer_))
  /\ readPos_' = 0 /\ currHeaderLen_' = 0
  /\ state_' = "magic"
  /\ UNCHANGED <<sender, wire, broken, open, at, currIdLen, currId, currCode_, currBodyLen_, delivered>>

(* The packets are passed on one by one, while the session is connected;    *)
(* then the next read starts.                                               *)
Dispatch ==
  /\ at = "dispatching"
  /\ IF parsedItems_ # <<>> /\ open
     THEN /\ delivered' = Append(delivered, Head(parsedItems_))
          /\ parsedItems_' = Tail(parsedItems_)
          /\ UNCHANGED at
     ELSE at' = "reading" /\ UNCHANGED <<parsedItems_, delivered>>
  /\ UNCHANGED <<sender, wire, broken, open, slicer>>

(* The session is closed by the main thread, or by a read that failed.      *)
Close ==
  /\ open
  /\ open' = FALSE
  /\ UNCHANGED <<sender, wire, broken, at, slicer, parsedItems_, delivered>>

-----------------------------------------------------------------------------
Write == WriteCompletes \/ WriteFails \/ HandleWrite \/ HandleWriteRest

Parse ==
  \/ StopParsing \/ ReadMagic \/ ReadCode \/ ReadBodyLength \/ ReadBody
  \/ \E s \in Side : ReadIdLength(s) \/ ReadId(s)

ReceiveSome == \E n \in 1 .. BufSize : Receive(n)

Next ==
  \/ \E shape \in Shape : SendData(shape)
  \/ Write \/ ReceiveSome \/ Parse \/ Dispatch
  \/ Break \/ Close

(* Both IO threads go on, and the network carries what was written.         *)
Fairness == WF_vars(Write) /\ WF_vars(ReceiveSome) /\ WF_vars(Parse) /\ WF_vars(Dispatch)

Spec == Init /\ [][Next]_vars /\ Fairness

-----------------------------------------------------------------------------
(* One write is under way at a time: its buffer is not filled again, and no *)
(* second write is started, before the handler has got to its second half.  *)
OneWriteAtATime == writes + written + handling <= 1

(* The header that was counted is what was read of the buffer, so that the  *)
(* body and the next packet are looked for where they are.                  *)
HeaderIsRead == currHeaderLen_ = readPos_ /\ readPos_ <= Len(buffer_)

(* The connection implements the channel: whatever pieces are written and   *)
(* received, packets arrive whole and in order, and none is left out unless *)
(* one was refused.                                                         *)
Refused == {shape \in Shape : TooBig(shape.body) \/ ~shape.known}

Channel == INSTANCE PacketChannel WITH
  delivered <- [i \in 1 .. Len(delivered) |->
    LET item == delivered[i]
    IN  [packet |-> item.code, from |-> item.from, to |-> item.to,
         whole |-> item.body = Field(item.code, "body", sent[item.code].body)]]

ImplementsChannel == Channel!Spec

(* Every packet arrives in the end, unless the connection is lost or closed *)
(* or a packet was refused.                                                 *)
EveryPacketArrives ==
  \A n \in 1 .. MaxSent :
    Len(sent) >= n ~>
      \/ \E i \in 1 .. Len(delivered) : delivered[i].code = n
      \/ broken \/ ~open \/ \E i \in 1 .. Len(sent) : sent[i] \in Refused
=============================================================================
