------------------------- MODULE PacketStreamProofs -------------------------
(***************************************************************************)
(* Proofs about module PacketStream, for any packets and sizes of buffers: *)
(* types, that one write is under way at a time, and that the slicer's     *)
(* count of the header is what it has read of its buffer.                  *)
(***************************************************************************)
EXTENDS PacketStream, TLAPS

-----------------------------------------------------------------------------
(* Sequences.                                                               *)

LEMMA SeqMonotone ==
  ASSUME NEW S, NEW T, S \subseteq T, NEW q \in Seq(S)
  PROVE  q \in Seq(T)
  OBVIOUS

LEMMA AppendType ==
  ASSUME NEW S, NEW q \in Seq(S), NEW e \in S
  PROVE  Append(q, e) \in Seq(S) /\ Append(q, e) # <<>>
<1>1. Append(q, e) \in Seq(S) /\ Len(Append(q, e)) = Len(q) + 1 /\ Len(q) \in Nat
  OBVIOUS
<1>2. ASSUME Append(q, e) = <<>> PROVE FALSE
  <2>1. Len(Append(q, e)) = 0
    BY <1>2
  <2> QED BY <1>1, <2>1
<1> QED BY <1>1, <1>2

LEMMA ConcatType ==
  ASSUME NEW S, NEW q \in Seq(S), NEW r \in Seq(S)
  PROVE  q \o r \in Seq(S) /\ Len(q \o r) = Len(q) + Len(r)
  OBVIOUS

LEMMA ConcatLonger ==
  ASSUME NEW S, NEW q \in Seq(S), NEW r \in Seq(S), Len(q) >= 2
  PROVE  q \o r \in Seq(S) /\ Len(q \o r) >= 2
  OBVIOUS

LEMMA SubSeqType ==
  ASSUME NEW S, NEW q \in Seq(S), NEW m \in Nat \ {0}, NEW n \in Nat, m <= n + 1, n <= Len(q)
  PROVE  SubSeq(q, m, n) \in Seq(S) /\ Len(SubSeq(q, m, n)) = (n + 1) - m
  OBVIOUS

(* What the first n packets are made of, those of more packets are.         *)
LEMMA MoreBytes ==
  ASSUME NEW n \in Nat, NEW q \in Seq(Byte(n))
  PROVE  q \in Seq(Byte(n + 1))
<1>1. Byte(n) \subseteq Byte(n + 1)
  BY DEF Byte
<1> QED BY <1>1, SeqMonotone

LEMMA FieldType ==
  ASSUME NEW m \in Nat, NEW n \in 1 .. m, NEW length \in Nat,
         NEW name \in {"magic", "code", "fromLen", "from", "toLen", "to", "bodyLen", "body"}
  PROVE  Field(n, name, length) \in Seq(Byte(m))
<1>1. \A i \in 1 .. length : [of |-> n, is |-> name, at |-> i] \in Byte(m)
  BY DEF Byte
<1> QED BY <1>1 DEF Field

LEMMA PacketType ==
  ASSUME NEW m \in Nat, NEW n \in 1 .. m, NEW shape \in Shape
  PROVE  Packet(n, shape) \in Seq(Byte(m)) /\ Len(Packet(n, shape)) \in Nat \ {0}
<1>1. shape.from \in Nat /\ shape.to \in Nat /\ shape.body \in Nat
  BY PacketStreamAssumption
<1>2. /\ Field(n, "magic", 2) \in Seq(Byte(m)) /\ Field(n, "code", 2) \in Seq(Byte(m))
      /\ Field(n, "fromLen", 1) \in Seq(Byte(m)) /\ Field(n, "from", shape.from) \in Seq(Byte(m))
      /\ Field(n, "toLen", 1) \in Seq(Byte(m)) /\ Field(n, "to", shape.to) \in Seq(Byte(m))
      /\ Field(n, "bodyLen", 4) \in Seq(Byte(m)) /\ Field(n, "body", shape.body) \in Seq(Byte(m))
  BY <1>1, FieldType
<1>3. Len(Field(n, "magic", 2)) = 2
  BY DEF Field
<1> HIDE DEF Byte
<1>4. Packet(n, shape) \in Seq(Byte(m))
  BY <1>2, ConcatType DEF Packet
<1>5. Len(Packet(n, shape)) >= 2
  <2> DEFINE p2 == Field(n, "magic", 2) \o Field(n, "code", 2)
             p4 == p2 \o Field(n, "fromLen", 1) \o Field(n, "from", shape.from)
             p6 == p4 \o Field(n, "toLen", 1) \o Field(n, "to", shape.to)
             p8 == p6 \o Field(n, "bodyLen", 4) \o Field(n, "body", shape.body)
  <2> HIDE DEF Field
  <2>1. p2 \in Seq(Byte(m)) /\ Len(p2) >= 2
    <3> DEFINE q == Field(n, "magic", 2)
               r == Field(n, "code", 2)
    <3>1. q \in Seq(Byte(m)) /\ r \in Seq(Byte(m))
      BY <1>2
    <3>2. Len(q) = 2
      BY <1>3
    <3> HIDE DEF q, r
    <3>3. q \o r \in Seq(Byte(m)) /\ Len(q \o r) >= 2
      BY <3>1, <3>2, ConcatLonger
    <3> QED BY <3>3 DEF q, r
  <2> HIDE DEF p2
  <2>2. p4 \in Seq(Byte(m)) /\ Len(p4) >= 2
    BY <1>2, <2>1, ConcatLonger
  <2> HIDE DEF p4
  <2>3. p6 \in Seq(Byte(m)) /\ Len(p6) >= 2
    BY <1>2, <2>2, ConcatLonger
  <2> HIDE DEF p6
  <2>4. p8 \in Seq(Byte(m)) /\ Len(p8) >= 2
    BY <1>2, <2>3, ConcatLonger
  <2> QED BY <2>4 DEF Packet, p2, p4, p6
<1> QED BY <1>4, <1>5

-----------------------------------------------------------------------------
(* The sender.                                                              *)

(* A list of packets being written stays one when a packet is sent.         *)
LEMMA MoreWritten ==
  ASSUME NEW packets \in Seq(Shape), NEW shape \in Shape, NEW q \in Seq(Written(packets))
  PROVE  q \in Seq(Written(Append(packets, shape)))
<1>1. Written(packets) \subseteq Written(Append(packets, shape))
  BY DEF Written
<1> QED BY <1>1, SeqMonotone

LEMMA StartWriteType ==
  ASSUME NEW packets \in Seq(Shape), NEW list \in Seq(Written(packets)), list # <<>>,
         StartWrite(list, packets), writes \in Nat
  PROVE  /\ curr_write_buffer_' \in Seq(Byte(Len(packets)))
         /\ write_buffer_list_' \in Seq(Written(packets)) /\ write_buffer_list_' # <<>>
         /\ writes' = writes + 1
<1> DEFINE front == list[1]
           bytes == Packet(front.packet, packets[front.packet])
           left == Len(bytes) - front.readPos
           size == IF left < BufSize THEN left ELSE BufSize
<1>1. front \in Written(packets)
  OBVIOUS
<1>2. /\ front.packet \in 1 .. Len(packets) /\ front.readPos \in Nat
      /\ front.readPos <= Len(bytes) /\ packets[front.packet] \in Shape
  BY <1>1 DEF Written
<1>3. bytes \in Seq(Byte(Len(packets))) /\ Len(bytes) \in Nat
  <2> HIDE DEF front
  <2>1. Len(packets) \in Nat
    OBVIOUS
  <2> QED BY <1>2, <2>1, PacketType
<1> HIDE DEF bytes
<1>4. size \in Nat /\ front.readPos + size \in Nat /\ front.readPos + size <= Len(bytes)
  <2> HIDE DEF front
  <2>1. left \in Nat /\ BufSize \in Nat
    BY <1>2, <1>3, PacketStreamAssumption
  <2>2. size \in Nat /\ size <= left
    <3> HIDE DEF left
    <3> QED BY <2>1
  <2> HIDE DEF size
  <2> QED BY <1>2, <1>3, <2>2
<1>5. /\ curr_write_buffer_' = SubSeq(bytes, front.readPos + 1, front.readPos + size)
      /\ write_buffer_list_' = [list EXCEPT ![1].readPos = @ + size]
      /\ writes' = writes + 1
  BY DEF StartWrite, Advanced, bytes
<1> HIDE DEF size
<1> DEFINE next == [packet |-> front.packet, readPos |-> front.readPos + size]
<1>6. next \in Written(packets)
  BY <1>1, <1>2, <1>4 DEF Written, bytes
<1>7. write_buffer_list_' = [list EXCEPT ![1] = next]
  <2>1. next = [list[1] EXCEPT !.readPos = @ + size]
    BY <1>1 DEF Written
  <2> HIDE DEF next
  <2> QED BY <1>5, <2>1
<1> HIDE DEF front, next
<1>8. write_buffer_list_' \in Seq(Written(packets)) /\ write_buffer_list_' # <<>>
  BY <1>6, <1>7
<1>9. curr_write_buffer_' \in Seq(Byte(Len(packets)))
  <2>1. /\ front.readPos + 1 \in Nat \ {0} /\ front.readPos + 1 <= front.readPos + size + 1
    BY <1>2, <1>4
  <2> DEFINE S == Byte(Len(packets))
             m == front.readPos + 1
             n == front.readPos + size
  <2> HIDE DEF S, m, n
  <2>2. bytes \in Seq(S) /\ m \in Nat \ {0} /\ n \in Nat /\ m <= n + 1 /\ n <= Len(bytes)
    BY <1>3, <1>4, <2>1 DEF S, m, n
  <2>3. SubSeq(bytes, m, n) \in Seq(S)
    BY <2>2, SubSeqType
  <2> QED BY <1>5, <2>3 DEF S, m, n
<1> QED BY <1>5, <1>8, <1>9

LEMMA SendDataNext ==
  ASSUME SenderType, NEW shape \in Shape, SendData(shape)
  PROVE  /\ SenderType' /\ sent' = Append(sent, shape)
         /\ IF write_buffer_list_ = <<>>
            THEN writes' = writes + 1 /\ write_buffer_list_' # <<>>
            ELSE writes' = writes /\ write_buffer_list_' # <<>>
<1> DEFINE list == Append(write_buffer_list_, [packet |-> Len(sent) + 1, readPos |-> 0])
<1>1. /\ sent' = Append(sent, shape) /\ sent' \in Seq(Shape) /\ Len(sent') = Len(sent) + 1
      /\ Len(sent) \in Nat
  BY DEF SendData, SenderType
<1>2. write_buffer_list_ \in Seq(Written(sent'))
  BY <1>1, MoreWritten DEF SenderType
<1>3. [packet |-> Len(sent) + 1, readPos |-> 0] \in Written(sent')
  <2>1. sent'[Len(sent) + 1] = shape
    BY <1>1 DEF SenderType
  <2>2. Len(sent) + 1 \in 1 .. Len(sent')
    BY <1>1
  <2>3. Len(Packet(Len(sent) + 1, shape)) \in Nat \ {0}
    BY <1>1, <2>2, PacketType
  <2> QED BY <2>1, <2>2, <2>3 DEF Written
<1>4. list \in Seq(Written(sent')) /\ list # <<>>
  <2> DEFINE w == [packet |-> Len(sent) + 1, readPos |-> 0]
  <2> HIDE DEF w
  <2>1. w \in Written(sent')
    BY <1>3 DEF w
  <2>2. Append(write_buffer_list_, w) \in Seq(Written(sent')) /\ Append(write_buffer_list_, w) # <<>>
    BY <1>2, <2>1, AppendType
  <2> QED BY <2>2 DEF w
<1>5. curr_write_buffer_ \in Seq(Byte(Len(sent'))) /\ wire' \in Seq(Byte(Len(sent')))
  BY <1>1, MoreBytes DEF SenderType, SendData
<1>6. written' \in Nat /\ handling' \in 0 .. 1
  BY DEF SendData, SenderType
<1>7. CASE write_buffer_list_ = <<>>
  <2>1. StartWrite(list, sent')
    BY <1>7 DEF SendData, WriteInProgress
  <2> HIDE DEF list
  <2>2. /\ curr_write_buffer_' \in Seq(Byte(Len(sent')))
        /\ write_buffer_list_' \in Seq(Written(sent')) /\ write_buffer_list_' # <<>>
        /\ writes' = writes + 1
    BY <1>1, <1>4, <2>1, StartWriteType DEF SenderType
  <2> QED BY <1>1, <1>5, <1>6, <1>7, <2>2 DEF SenderType
<1>8. CASE write_buffer_list_ # <<>>
  <2>1. write_buffer_list_' = list /\ UNCHANGED <<curr_write_buffer_, writes>>
    BY <1>8 DEF SendData, WriteInProgress
  <2> HIDE DEF list
  <2> QED BY <1>1, <1>4, <1>5, <1>6, <1>8, <2>1 DEF SenderType
<1> QED BY <1>7, <1>8

LEMMA HandleWriteRestNext ==
  ASSUME SenderType, write_buffer_list_ # <<>>, HandleWriteRest
  PROVE  /\ SenderType'
         /\ \/ writes' = writes
            \/ writes' = writes + 1 /\ write_buffer_list_' # <<>>
<1> DEFINE list == Rest(write_buffer_list_, sent)
<1>1. list \in Seq(Written(sent))
  BY DEF Rest, SenderType
<1>2. CASE list # <<>>
  <2>1. StartWrite(list, sent) /\ handling' = 0 /\ UNCHANGED <<sent, written, wire>>
    BY <1>2 DEF HandleWriteRest
  <2> HIDE DEF list
  <2> QED BY <1>1, <1>2, <2>1, StartWriteType DEF SenderType
<1>3. CASE list = <<>>
  <2>1. /\ write_buffer_list_' = list /\ handling' = 0
        /\ UNCHANGED <<sent, written, wire, curr_write_buffer_, writes>>
    BY <1>3 DEF HandleWriteRest
  <2> HIDE DEF list
  <2> QED BY <1>1, <2>1 DEF SenderType
<1> QED BY <1>2, <1>3


(* One write at a time: while the list is empty none is under way.          *)
InProgress == writes + written + handling

OneInv == InProgress <= 1 /\ (write_buffer_list_ = <<>> => InProgress = 0)

LEMMA SenderNext ==
  SenderType /\ OneInv /\ [Next]_vars => SenderType' /\ OneInv'
<1> SUFFICES ASSUME SenderType, OneInv, [Next]_vars
             PROVE  SenderType' /\ OneInv'
  OBVIOUS
<1> USE DEF InProgress
<1>0. /\ writes \in Nat /\ written \in Nat /\ handling \in 0 .. 1 /\ wire \in Seq(Byte(Len(sent)))
      /\ curr_write_buffer_ \in Seq(Byte(Len(sent)))
  BY DEF SenderType
<1>1. ASSUME NEW shape \in Shape, SendData(shape) PROVE SenderType' /\ OneInv'
  <2>1. UNCHANGED <<written, handling>>
    BY <1>1 DEF SendData
  <2> QED BY <1>0, <1>1, <2>1, SendDataNext DEF OneInv
<1>2. CASE WriteCompletes
  <2>1. wire' \in Seq(Byte(Len(sent)))
    BY <1>0, <1>2, ConcatType DEF WriteCompletes
  <2> QED BY <1>0, <1>2, <2>1 DEF WriteCompletes, SenderType, OneInv
<1>3. CASE WriteFails \/ HandleWrite
  BY <1>0, <1>3 DEF WriteFails, HandleWrite, SenderType, OneInv
<1>4. CASE HandleWriteRest
  <2>1. write_buffer_list_ # <<>> /\ writes = 0 /\ written = 0
    BY <1>0, <1>4 DEF HandleWriteRest, OneInv
  <2>2. UNCHANGED written /\ handling' = 0
    BY <1>4 DEF HandleWriteRest
  <2> QED BY <1>0, <1>4, <2>1, <2>2, HandleWriteRestNext DEF OneInv
<1>5. ASSUME NEW n \in 1 .. BufSize, Receive(n) PROVE SenderType' /\ OneInv'
  <2>1. n \in Nat /\ n <= Len(wire) /\ wire' = SubSeq(wire, n + 1, Len(wire)) /\ UNCHANGED sender
    BY <1>5, PacketStreamAssumption DEF Receive
  <2>2. wire' \in Seq(Byte(Len(sent)))
    <3> DEFINE S == Byte(Len(sent))
    <3> HIDE DEF S
    <3>1. wire \in Seq(S) /\ n + 1 \in Nat \ {0} /\ Len(wire) \in Nat /\ n + 1 <= Len(wire) + 1
      BY <1>0, <2>1 DEF S
    <3>2. wire' \in Seq(S)
      BY <2>1, <3>1, SubSeqType
    <3> QED BY <3>2 DEF S
  <2> QED BY <2>1, <2>2 DEF SenderType, OneInv, sender
<1>6. CASE Break
  BY <1>6 DEF Break, SenderType, OneInv, sender
<1>7. CASE UNCHANGED <<sender, wire>>
  BY <1>7 DEF sender, SenderType, OneInv
<1>8. Parse \/ Dispatch \/ Close \/ UNCHANGED vars => UNCHANGED <<sender, wire>>
  BY DEF Parse, StopParsing, ReadMagic, ReadCode, ReadIdLength, ReadId, ReadBodyLength,
     ReadBody, Dispatch, Close, vars
<1> QED BY <1>1, <1>2, <1>3, <1>4, <1>5, <1>6, <1>7, <1>8 DEF Next, Write, ReceiveSome

LEMMA InitSender == Init => SenderType /\ OneInv
  BY DEF Init, SenderType, OneInv, InProgress

(* However sends of several threads and the halves of the handler fall      *)
(* together, no write is started while another is under way.                *)
THEOREM OneWriteTheorem == Spec => []OneWriteAtATime
<1>1. OneInv => OneWriteAtATime
  BY DEF OneInv, InProgress, OneWriteAtATime
<1> QED BY <1>1, InitSender, SenderNext, PTL DEF Spec

-----------------------------------------------------------------------------
(* The slicer.                                                              *)

HeaderInv == HeaderIsRead /\ (state_ = "magic" => readPos_ = 0)

(* A step leaves the slicer alone.                                          *)
LEMMA SlicerUnchanged ==
  ASSUME SlicerType, HeaderInv, UNCHANGED <<slicer, at, sent>>
  PROVE  SlicerType' /\ HeaderInv'
  BY DEF SlicerType, HeaderInv, HeaderIsRead, slicer, header

(* What a step of parse needs is there to be read.                          *)
LEMMA Enough ==
  ASSUME SenderType, SlicerType, HeaderInv, NEW n \in Nat, ~Lacks(n)
  PROVE  /\ readPos_ + n <= Len(buffer_)
         /\ n > 0 => /\ Taken(1)[1].of \in 1 .. Len(sent)
                     /\ sent[Taken(1)[1].of] \in Shape
<1>1. Len(buffer_) \in Nat /\ readPos_ \in Nat /\ readPos_ + n <= Len(buffer_)
  BY DEF Lacks, SlicerType
<1>2. ASSUME n > 0 PROVE Taken(1)[1] = buffer_[readPos_ + 1] /\ readPos_ + 1 \in 1 .. Len(buffer_)
  BY <1>1, <1>2 DEF Taken, SlicerType
<1>3. ASSUME n > 0 PROVE buffer_[readPos_ + 1] \in Byte(Len(sent))
  <2> HIDE DEF Byte
  <2> QED BY <1>2, <1>3 DEF SlicerType
<1> QED BY <1>1, <1>2, <1>3 DEF Byte, SenderType

(* Everything is dropped.                                                   *)
LEMMA ResetType ==
  ASSUME SlicerType, Reset, sent' = sent, currIdLen' \in [Side -> Nat], currId' \in [Side -> Nat],
         currCode_' \in Nat, currBodyLen_' \in Nat
  PROVE  SlicerType' /\ HeaderInv'
  BY DEF Reset, SlicerType, HeaderInv, HeaderIsRead

(* Bytes of the header are read.                                            *)
LEMMA ReadType ==
  ASSUME SlicerType, HeaderInv, NEW n \in Nat, Read(n), readPos_ + n <= Len(buffer_),
         UNCHANGED <<sent, buffer_, at>>,
         state_' \in {"code", "from", "to", "bodyLen", "body"},
         currIdLen' \in [Side -> Nat], currId' \in [Side -> Nat],
         currCode_' \in Nat, currBodyLen_' \in Nat
  PROVE  SlicerType' /\ HeaderInv'
  BY DEF Read, SlicerType, HeaderInv, HeaderIsRead

LEMMA ParseNext ==
  ASSUME SenderType, SlicerType, HeaderInv, Parse
  PROVE  SlicerType' /\ HeaderInv'
<1> USE DEF Side
<1>0. sent' = sent
  BY DEF Parse, StopParsing, ReadMagic, ReadCode, ReadIdLength, ReadId, ReadBodyLength,
     ReadBody, sender
<1>a. /\ currIdLen \in [Side -> Nat] /\ currId \in [Side -> Nat]
      /\ currCode_ \in Nat /\ currBodyLen_ \in Nat /\ [s \in Side |-> 0] \in [Side -> Nat]
  BY DEF SlicerType
<1>1. CASE StopParsing
  BY <1>0, <1>1 DEF StopParsing, SlicerType, HeaderInv, HeaderIsRead
<1>2. CASE ReadMagic
  <2>1. ~Lacks(2) /\ state_ = "magic"
    BY <1>2 DEF ReadMagic, Parsing, Needs
  <2>2. currIdLen' = [s \in Side |-> 0] /\ UNCHANGED <<currId, currCode_, currBodyLen_>>
    BY <1>2 DEF ReadMagic
  <2>3. CASE Reset
    BY <1>0, <1>a, <2>2, <2>3, ResetType
  <2>4. CASE readPos_' = readPos_ + 2 /\ currHeaderLen_' = 2 /\ state_' = "code" /\ UNCHANGED <<buffer_, at>>
    <3>1. readPos_ = 0 /\ currHeaderLen_ = 0 /\ Read(2)
      BY <2>1, <2>4 DEF HeaderInv, HeaderIsRead, Read
    <3> QED BY <1>0, <1>a, <2>1, <2>2, <2>4, <3>1, Enough, ReadType
  <2> QED BY <1>2, <2>3, <2>4 DEF ReadMagic
<1>3. CASE ReadCode
  <2>1. ~Lacks(2)
    BY <1>3 DEF ReadCode, Parsing, Needs
  <2>2. currCode_' \in Nat /\ UNCHANGED <<currIdLen, currId, currBodyLen_>>
    BY <1>3, <2>1, Enough DEF ReadCode, SenderType
  <2>3. CASE Reset
    BY <1>0, <1>a, <2>2, <2>3, ResetType
  <2>4. CASE Read(2) /\ state_' = "from" /\ UNCHANGED <<buffer_, at>>
    BY <1>0, <1>a, <2>1, <2>2, <2>4, Enough, ReadType
  <2> QED BY <1>3, <2>3, <2>4 DEF ReadCode
<1>4. ASSUME NEW s \in Side, ReadIdLength(s) PROVE SlicerType' /\ HeaderInv'
  <2>1. ~Lacks(1)
    BY <1>4 DEF ReadIdLength, Parsing, Needs
  <2>2. sent[Taken(1)[1].of][s] \in Nat
    BY <2>1, Enough, PacketStreamAssumption
  <2>3. /\ currIdLen' \in [Side -> Nat] /\ UNCHANGED <<currId, currCode_, currBodyLen_, buffer_, at>>
        /\ state_' \in {"code", "from", "to", "bodyLen", "body"} /\ Read(1)
    BY <1>4, <1>a, <2>2 DEF ReadIdLength, AfterId
  <2> QED BY <1>0, <1>a, <2>1, <2>3, Enough, ReadType
<1>5. ASSUME NEW s \in Side, ReadId(s) PROVE SlicerType' /\ HeaderInv'
  <2>1. ~Lacks(currIdLen[s]) /\ currIdLen[s] \in Nat /\ currIdLen[s] > 0
    BY <1>5, <1>a DEF ReadId, Parsing, Needs
  <2>2. Taken(1)[1].of \in Nat
    BY <2>1, Enough DEF SenderType
  <2>3. /\ currId' \in [Side -> Nat] /\ UNCHANGED <<currIdLen, currCode_, currBodyLen_, buffer_, at>>
        /\ state_' \in {"code", "from", "to", "bodyLen", "body"} /\ Read(currIdLen[s])
    BY <1>5, <1>a, <2>2 DEF ReadId, AfterId
  <2> QED BY <1>0, <1>a, <2>1, <2>3, Enough, ReadType
<1>6. CASE ReadBodyLength
  <2>1. ~Lacks(4)
    BY <1>6 DEF ReadBodyLength, Parsing, Needs
  <2>2. currBodyLen_' \in Nat /\ UNCHANGED <<currIdLen, currId, currCode_>>
    BY <1>6, <2>1, Enough, PacketStreamAssumption DEF ReadBodyLength
  <2>3. CASE Reset
    BY <1>0, <1>a, <2>2, <2>3, ResetType
  <2>4. CASE Read(4) /\ state_' = "body" /\ UNCHANGED <<buffer_, at>>
    BY <1>0, <1>a, <2>1, <2>2, <2>4, Enough, ReadType
  <2> QED BY <1>6, <2>3, <2>4 DEF ReadBodyLength
<1>7. CASE ReadBody
  <2>1. ~Lacks(currBodyLen_)
    BY <1>7 DEF ReadBody, Parsing, Needs
  <2>2. currHeaderLen_ + currBodyLen_ \in Nat /\ currHeaderLen_ + currBodyLen_ <= Len(buffer_)
    BY <1>a, <2>1, Enough DEF HeaderInv, HeaderIsRead, SlicerType
  <2>3. buffer_' \in Seq(Byte(Len(sent)))
    <3> DEFINE S == Byte(Len(sent))
    <3> HIDE DEF S
    <3>1. /\ buffer_ \in Seq(S) /\ Len(buffer_) \in Nat
          /\ currHeaderLen_ + currBodyLen_ + 1 \in Nat \ {0}
          /\ currHeaderLen_ + currBodyLen_ + 1 <= Len(buffer_) + 1
      BY <2>2 DEF S, SlicerType
    <3>2. buffer_' \in Seq(S)
      BY <1>7, <3>1, SubSeqType DEF ReadBody
    <3> QED BY <3>2 DEF S
  <2>4. Len(buffer_') \in Nat
    BY <2>3
  <2> QED BY <1>0, <1>7, <2>3, <2>4 DEF ReadBody, SlicerType, HeaderInv, HeaderIsRead
<1> QED BY <1>1, <1>2, <1>3, <1>4, <1>5, <1>6, <1>7 DEF Parse

LEMMA SlicerNext ==
  SenderType /\ SlicerType /\ HeaderInv /\ [Next]_vars => SlicerType' /\ HeaderInv'
<1> SUFFICES ASSUME SenderType, SlicerType, HeaderInv, [Next]_vars PROVE SlicerType' /\ HeaderInv'
  OBVIOUS
<1>1. ASSUME NEW shape \in Shape, SendData(shape) PROVE SlicerType' /\ HeaderInv'
  <2>1. /\ Len(sent) \in Nat /\ Len(sent') = Len(sent) + 1 /\ UNCHANGED <<slicer, at>>
    BY <1>1 DEF SendData, SenderType, receiver
  <2>2. buffer_ \in Seq(Byte(Len(sent')))
    BY <2>1, MoreBytes DEF SlicerType
  <2> QED BY <2>1, <2>2 DEF SlicerType, HeaderInv, HeaderIsRead, slicer, header
<1>2. ASSUME NEW n \in 1 .. BufSize, Receive(n) PROVE SlicerType' /\ HeaderInv'
  <2> DEFINE S == Byte(Len(sent))
             piece == SubSeq(wire, 1, n)
  <2> HIDE DEF S
  <2>1. /\ n \in Nat /\ n <= Len(wire) /\ buffer_' = buffer_ \o piece /\ at' = "parsing"
        /\ UNCHANGED <<sent, readPos_, state_, header>>
    BY <1>2, PacketStreamAssumption DEF Receive, sender
  <2>2. wire \in Seq(S) /\ buffer_ \in Seq(S)
    BY DEF S, SenderType, SlicerType
  <2>3. piece \in Seq(S) /\ Len(piece) = n
    BY <2>1, <2>2, SubSeqType
  <2> HIDE DEF piece
  <2>4. buffer_' \in Seq(S) /\ Len(buffer_') >= Len(buffer_)
    BY <2>1, <2>2, <2>3, ConcatType
  <2>5. readPos_ \in Nat /\ Len(buffer_) \in Nat /\ Len(buffer_') \in Nat
    BY <2>2, <2>4 DEF SlicerType
  <2> QED BY <2>1, <2>4, <2>5 DEF S, SlicerType, HeaderInv, HeaderIsRead, header
<1>3. CASE Write \/ Break \/ Close
  BY <1>3, SlicerUnchanged DEF Write, WriteCompletes, WriteFails, HandleWrite, HandleWriteRest,
     Break, Close, sender, receiver
<1>4. CASE Dispatch
  <2>1. at' \in {"reading", "parsing", "dispatching"} /\ UNCHANGED <<slicer, sent>>
    BY <1>4 DEF Dispatch, sender, SlicerType
  <2> QED BY <2>1 DEF SlicerType, HeaderInv, HeaderIsRead, slicer, header
<1>5. CASE UNCHANGED vars
  BY <1>5, SlicerUnchanged DEF vars, sender, receiver
<1> QED BY <1>1, <1>2, <1>3, <1>4, <1>5, ParseNext DEF Next, ReceiveSome

LEMMA InitSlicer == Init => SlicerType /\ HeaderInv
  BY DEF Init, SlicerType, HeaderInv, HeaderIsRead, Side

(* However the stream is cut into pieces, wherever a header breaks off: the *)
(* length that was counted is what was read of the buffer.                  *)
THEOREM HeaderTheorem == Spec => []HeaderIsRead
<1>1. HeaderInv => HeaderIsRead
  BY DEF HeaderInv
<1> QED BY <1>1, InitSender, SenderNext, InitSlicer, SlicerNext, PTL DEF Spec

-----------------------------------------------------------------------------
(* The packets cut out and delivered, and the flags.                        *)

LEMMA MoreItems ==
  ASSUME SenderType, NEW shape \in Shape, SendData(shape), NEW q \in Seq(Item)
  PROVE  q \in Seq(Item')
<1>1. Len(sent) \in Nat /\ Len(sent') = Len(sent) + 1
  BY DEF SenderType, SendData
<1>2. Item \subseteq Item'
  <2> SUFFICES ASSUME NEW item \in Item PROVE item \in Item'
    OBVIOUS
  <2>1. item.body \in Seq(Byte(Len(sent')))
    BY <1>1, MoreBytes DEF Item
  <2> QED BY <2>1 DEF Item
<1> QED BY <1>2, SeqMonotone

LEMMA ItemsNext ==
  SenderType /\ SlicerType /\ HeaderInv /\ ItemsType /\ [Next]_vars => ItemsType'
<1> SUFFICES ASSUME SenderType, SlicerType, HeaderInv, ItemsType, [Next]_vars PROVE ItemsType'
  OBVIOUS
<1>1. ASSUME NEW shape \in Shape, SendData(shape) PROVE ItemsType'
  <2>1. UNCHANGED <<parsedItems_, delivered>>
    BY <1>1 DEF SendData, receiver
  <2> QED BY <1>1, <2>1, MoreItems DEF ItemsType
<1>2. sent' = sent => Item' = Item
  BY DEF Item
<1>3. ASSUME sent' = sent, parsedItems_' = parsedItems_ \/ parsedItems_' = <<>>, delivered' = delivered
      PROVE  ItemsType'
  <2>1. parsedItems_' \in Seq(Item)
    <3>1. <<>> \in Seq(Item)
      OBVIOUS
    <3>2. CASE parsedItems_' = <<>>
      BY <3>1, <3>2
    <3>3. CASE parsedItems_' = parsedItems_
      BY <3>3 DEF ItemsType
    <3> QED BY <1>3, <3>2, <3>3
  <2> QED BY <1>2, <1>3, <2>1 DEF ItemsType
<1>4. CASE Write \/ Break \/ Close \/ UNCHANGED vars
  BY <1>3, <1>4 DEF Write, WriteCompletes, WriteFails, HandleWrite, HandleWriteRest,
     Break, Close, vars, sender, receiver
<1>5. CASE ReceiveSome
  BY <1>3, <1>5 DEF ReceiveSome, Receive, sender
<1>6. CASE Dispatch
  <2>1. \/ parsedItems_ # <<>> /\ delivered' = Append(delivered, Head(parsedItems_))
             /\ parsedItems_' = Tail(parsedItems_) /\ sent' = sent
        \/ UNCHANGED <<sent, parsedItems_, delivered>>
    BY <1>6 DEF Dispatch, sender
  <2>2. ASSUME NEW q \in Seq(Item), NEW r \in Seq(Item), q # <<>>
        PROVE  Append(r, Head(q)) \in Seq(Item) /\ Tail(q) \in Seq(Item)
    BY <2>2
  <2> QED BY <1>2, <1>3, <2>1, <2>2 DEF ItemsType
<1>7. CASE ReadBody
  <2> DEFINE item == [code |-> currCode_, from |-> currId["from"], to |-> currId["to"],
                      body |-> SubSeq(buffer_, currHeaderLen_ + 1, currHeaderLen_ + currBodyLen_)]
             S == Byte(Len(sent))
  <2> HIDE DEF S
  <2>1. ~Lacks(currBodyLen_) /\ currBodyLen_ \in Nat /\ currHeaderLen_ \in Nat
    BY <1>7 DEF ReadBody, Parsing, Needs, SlicerType, Side
  <2>2. currHeaderLen_ + currBodyLen_ <= Len(buffer_)
    BY <2>1, Enough DEF HeaderInv, HeaderIsRead
  <2>3. SubSeq(buffer_, currHeaderLen_ + 1, currHeaderLen_ + currBodyLen_) \in Seq(S)
    <3>1. /\ buffer_ \in Seq(S) /\ currHeaderLen_ + 1 \in Nat \ {0}
          /\ currHeaderLen_ + currBodyLen_ \in Nat
          /\ currHeaderLen_ + 1 <= currHeaderLen_ + currBodyLen_ + 1
      BY <2>1 DEF S, SlicerType
    <3> QED BY <2>2, <3>1, SubSeqType
  <2>4. item \in Item
    BY <2>3 DEF S, Item, SlicerType, Side
  <2>5. parsedItems_' = Append(parsedItems_, item) /\ delivered' = delivered /\ sent' = sent
    BY <1>7 DEF ReadBody, sender
  <2> HIDE DEF item
  <2> QED BY <1>2, <2>4, <2>5, AppendType DEF ItemsType
<1>8. CASE Parse /\ ~ReadBody
  <2>1. parsedItems_' = parsedItems_ \/ parsedItems_' = <<>>
    BY <1>8 DEF Parse, StopParsing, ReadMagic, ReadCode, ReadIdLength, ReadId, ReadBodyLength, Reset
  <2>2. sent' = sent /\ delivered' = delivered
    BY <1>8 DEF Parse, StopParsing, ReadMagic, ReadCode, ReadIdLength, ReadId, ReadBodyLength, sender
  <2> QED BY <1>3, <2>1, <2>2
<1> QED BY <1>1, <1>4, <1>5, <1>6, <1>7, <1>8 DEF Next

LEMMA FlagsNext == FlagType /\ [Next]_vars => FlagType'
<1> SUFFICES ASSUME FlagType, [Next]_vars PROVE FlagType'
  OBVIOUS
<1>1. (broken' = broken \/ broken' = TRUE) /\ (open' = open \/ open' = FALSE)
  <2>1. Break \/ Close \/ UNCHANGED <<broken, open>>
    <3>1. (\E shape \in Shape : SendData(shape)) \/ Write \/ Dispatch \/ UNCHANGED vars
            => UNCHANGED <<broken, open>>
      BY DEF SendData, Write, WriteCompletes, WriteFails, HandleWrite, HandleWriteRest, Dispatch,
         vars, receiver
    <3>2. Parse \/ ReceiveSome => UNCHANGED <<broken, open>>
      BY DEF Parse, StopParsing, ReadMagic, ReadCode, ReadIdLength, ReadId, ReadBodyLength,
         ReadBody, ReceiveSome, Receive
    <3> QED BY <3>1, <3>2 DEF Next
  <2> QED BY <2>1, Zenon DEF Break, Close, receiver
<1>2. broken' \in BOOLEAN /\ open' \in BOOLEAN
  <2>1. broken \in BOOLEAN /\ open \in BOOLEAN
    BY Zenon DEF FlagType
  <2> QED BY <1>1, <2>1, Zenon
<1> QED BY <1>2, Zenon DEF FlagType

(* Every variable of the sender and of the receiver keeps its type; every   *)
(* byte on the way or in the slicer's buffer belongs to a packet that was   *)
(* sent.                                                                    *)
THEOREM StreamTypeCorrect == Spec => []TypeOK
<1>1. Init => ItemsType /\ FlagType
  <2>1. Init => FlagType
    BY Zenon DEF Init, FlagType
  <2> QED BY <2>1 DEF Init, ItemsType
<1> QED BY <1>1, InitSender, SenderNext, InitSlicer, SlicerNext, ItemsNext, FlagsNext,
           PTL DEF Spec, TypeOK
=============================================================================
