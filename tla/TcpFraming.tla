------------------------------ MODULE TcpFraming ------------------------------
(***************************************************************************)
(* Packets on the TCP byte stream, in one direction: sendPacket of the     *)
(* client with the server's protocol_parser, or constructUdsPacket of the  *)
(* server with the client's.  A packet is CD AB, a type, a length and a    *)
(* CRC, both low byte first.  TCP keeps the bytes in order but not the     *)
(* writes apart: the receiver reads any number of bytes at a time and      *)
(* m_buffer holds what is not yet a packet.                                *)
(*                                                                         *)
(* The two parsers are not alike: below 5 or 7 bytes they wait, only the   *)
(* server's bounds the length, and after a bad CRC the server drops a byte *)
(* and the client all that the length claims.  The server makes a parser   *)
(* for each connection; the client's belongs to the worker and keeps its   *)
(* buffer when the connection breaks.                                      *)
(*                                                                         *)
(* Bytes are real, because what a wrong offset makes of them matters.      *)
(* Packets of type 1 (raw CAN frames) are parsed but sent by nobody.       *)
(***************************************************************************)
EXTENDS Integers, SequencesExt

CONSTANTS
  FromClient,     \* packets of the client, [type, payload]
  FromServer,     \* packets of the server
  MaxPackets,     \* bound: packets sent in all
  MaxConnections  \* bound: connections in all

Byte == 0..255
UDS == 3          \* the type of a UDS packet; 2 is the client's heartbeat

(* The requests of the client are a few bytes long; the server's answers   *)
(* fit the two bytes of the length.                                        *)
ASSUME FramingAssumption ==
  /\ FromClient \union FromServer \subseteq [type : Byte, payload : Seq(Byte)]
  /\ \A p \in FromServer : p.type = UDS /\ Len(p.payload) < 65536
  /\ \A p \in FromClient :
       (p.type = UDS => p.payload # <<>>) /\ Len(p.payload) <= 1024
  /\ MaxPackets \in Nat /\ MaxConnections \in Nat

Magic == <<205, 171>>                              \* 0xCD 0xAB
Word(low, high) == low + 256 * high
LittleEndian(n) == <<n % 256, (n \div 256) % 256>>

(* Exclusive or of two bytes, bit by bit.                                  *)
XorBit(a, b, p) == p * ((a \div p + b \div p) % 2)
XorByte ==
  [a \in Byte |-> [b \in Byte |->
     XorBit(a, b, 1) + XorBit(a, b, 2) + XorBit(a, b, 4) + XorBit(a, b, 8)
     + XorBit(a, b, 16) + XorBit(a, b, 32) + XorBit(a, b, 64) + XorBit(a, b, 128)]]

(* CRC-16/Modbus, polynomial 0xA001.  The eight shifts touch only the low  *)
(* byte before it is gone, so they are tabulated.                          *)
Shift(crc) ==
  LET half == crc \div 2 IN
  IF crc % 2 = 1 THEN Word(XorByte[half % 256][1], XorByte[half \div 256][160])
  ELSE half
TwoShifts(crc) == Shift(Shift(crc))
EightShifts ==
  [low \in Byte |-> TwoShifts(TwoShifts(TwoShifts(TwoShifts(low))))]
CrcByte(crc, byte) ==
  LET shifted == EightShifts[XorByte[crc % 256][byte]] IN
  Word(XorByte[crc \div 256][shifted % 256], shifted \div 256)
calculate(payload) ==
  LET crc[i \in 0..Len(payload)] ==
        IF i = 0 THEN 65535 ELSE CrcByte(crc[i - 1], payload[i]) IN
  crc[Len(payload)]

(* sendPacket and constructUdsPacket *)
Bytes ==
  [packet \in FromClient \union FromServer |->
     Magic \o <<packet.type>> \o LittleEndian(Len(packet.payload))
       \o packet.payload \o LittleEndian(calculate(packet.payload))]
Stream(packets) == FlattenSeq([i \in DOMAIN packets |-> Bytes[packets[i]]])

VARIABLES
  receiver,    \* whose parser this is
  connections, \* how many connections there have been
  open,        \* is the last of them open
  fresh,       \* was m_buffer empty when it opened
  sent,        \* the packets sent on it
  earlier,     \* the number of packets sent on those before
  wire,        \* the bytes under way on it
  m_buffer,    \* the receiver's bytes that are not yet a packet
  dispatched   \* the UDS payloads parsed while it was the last

vars == <<receiver, connections, open, fresh, sent, earlier, wire, m_buffer,
          dispatched>>

Packets == IF receiver = "server" THEN FromClient ELSE FromServer

Init ==
  /\ receiver \in {"server", "client"}
  /\ connections = 0 /\ open = FALSE /\ fresh = TRUE
  /\ sent = <<>> /\ earlier = 0 /\ wire = <<>>
  /\ m_buffer = <<>> /\ dispatched = <<>>
-----------------------------------------------------------------------------
(* One turn of a parser's loop, on the bytes b of m_buffer.                *)
HeaderSize == IF receiver = "server" THEN 5 ELSE 7
IsMagic(b) == SubSeq(b, 1, 2) = Magic
Length(b) == Word(b[4], b[5])
Oversized(b) == receiver = "server" /\ Length(b) > 1024
TotalLen(b) == 5 + Length(b) + 2
Payload(b) == SubSeq(b, 6, 5 + Length(b))

CrcMatches(b) ==
  Word(b[TotalLen(b) - 1], b[TotalLen(b)]) = calculate(Payload(b))

Waits(b) ==
  \/ Len(b) < HeaderSize
  \/ IsMagic(b) /\ ~Oversized(b) /\ Len(b) < TotalLen(b)

(* Mutant: after a bad CRC the client empties its buffer.                  *)
Taken_ClearsOnBadCrc(b) ==
  IF ~IsMagic(b) THEN 1
  ELSE IF Oversized(b) THEN Len(b)
  ELSE IF CrcMatches(b) THEN TotalLen(b)
  ELSE IF receiver = "client" THEN Len(b) ELSE 1

(* How much of the buffer the turn takes away.                             *)
Taken(b) ==
  IF ~IsMagic(b) THEN 1
  ELSE IF Oversized(b) THEN Len(b)
  ELSE IF CrcMatches(b) \/ receiver = "client" THEN TotalLen(b)
  ELSE 1

(* The server ignores an empty UDS packet, the client reads it as a        *)
(* message without a service.                                              *)
IsUds(b) ==
  /\ IsMagic(b) /\ ~Oversized(b) /\ CrcMatches(b)
  /\ b[3] = UDS
  /\ receiver = "server" => Payload(b) # <<>>

ParseLoop[b \in Seq(Byte)] ==
  IF Waits(b) THEN [rest |-> b, payloads |-> <<>>]
  ELSE LET turn == ParseLoop[SubSeq(b, Taken(b) + 1, Len(b))] IN
       [rest     |-> turn.rest,
        payloads |-> (IF IsUds(b) THEN <<Payload(b)>> ELSE <<>>) \o turn.payloads]

(* Mutant: what is left of an incomplete packet is thrown away.            *)
Parse_DropsRest(b) == [rest |-> <<>>, payloads |-> ParseLoop[b].payloads]

Parse(b) == ParseLoop[b]
-----------------------------------------------------------------------------
(* The buffer a new connection starts with.                                *)
NewBuffer == IF receiver = "server" THEN <<>> ELSE m_buffer

Connect ==
  /\ ~open /\ connections < MaxConnections
  /\ open' = TRUE
  /\ connections' = connections + 1
  /\ earlier' = earlier + Len(sent)
  /\ sent' = <<>> /\ dispatched' = <<>>
  /\ m_buffer' = NewBuffer
  /\ fresh' = (m_buffer' = <<>>)
  /\ UNCHANGED <<receiver, wire>>

SendPacket(packet) ==
  /\ open /\ earlier + Len(sent) < MaxPackets
  /\ sent' = Append(sent, packet)
  /\ wire' = wire \o Bytes[packet]
  /\ UNCHANGED <<receiver, connections, open, fresh, earlier, m_buffer, dispatched>>

(* onReadyRead or onClientReadyRead, and pushData, of the n bytes that     *)
(* have arrived.                                                           *)
ReadyRead(n) ==
  /\ open /\ n \in 1..Len(wire)
  /\ LET parsed == Parse(m_buffer \o SubSeq(wire, 1, n)) IN
     /\ m_buffer' = parsed.rest
     /\ dispatched' = dispatched \o parsed.payloads
  /\ wire' = SubSeq(wire, n + 1, Len(wire))
  /\ UNCHANGED <<receiver, connections, open, fresh, sent, earlier>>

(* What has not been read is lost.                                         *)
Break ==
  /\ open
  /\ open' = FALSE /\ wire' = <<>>
  /\ UNCHANGED <<receiver, connections, fresh, sent, earlier, m_buffer, dispatched>>

Next ==
  \/ Connect \/ Break
  \/ \E packet \in Packets : SendPacket(packet)
  \/ \E n \in 1..Len(wire) : ReadyRead(n)

Spec == Init /\ [][Next]_vars
-----------------------------------------------------------------------------
NumRead == Len(Stream(sent)) - Len(wire)
WhollyRead ==
  {k \in 0..Len(sent) : Len(Stream(SubSeq(sent, 1, k))) <= NumRead}
UdsPayload(packet) == IF packet.type = UDS THEN <<packet.payload>> ELSE <<>>
UdsPayloads(packets) ==
  FlattenSeq([i \in DOMAIN packets |-> UdsPayload(packets[i])])
AllRead ==
  dispatched = UdsPayloads(SubSeq(sent, 1, Max(WhollyRead)))

(* Payloads are made of bytes, and a buffer that started empty never holds *)
(* a whole packet: what has been read is parsed or is the start of one.    *)
TypeOK ==
  /\ receiver \in {"server", "client"}
  /\ connections \in 0..MaxConnections
  /\ earlier + Len(sent) \in 0..MaxPackets /\ sent \in Seq(Packets)
  /\ wire \in Seq(Byte) /\ m_buffer \in Seq(Byte) /\ dispatched \in Seq(Seq(Byte))
  /\ fresh => \A p \in Packets : ~IsPrefix(Bytes[p], m_buffer)

(* However the bytes are cut into reads, each UDS packet read to its end   *)
(* is dispatched exactly once and in order, as soon as its last byte is    *)
(* read, on every connection that starts with an empty buffer: all those   *)
(* of the server, which makes a parser per client                          *)
(* (tcpworkerserver.cpp:169), and the client's first.                      *)
ExactlyRead == open /\ (receiver = "server" \/ fresh) => AllRead

(* On every connection of the client, those that start behind a broken     *)
(* connection's bytes included, how the bytes are cut into reads makes no  *)
(* difference: reading n of them at once dispatches what reading k and     *)
(* then the rest would, and leaves the same in m_buffer.  (Not so on the   *)
(* server, which drops all it holds when a header claims too much; there   *)
(* ExactlyRead says what is wanted.)                                       *)
CutsAlike ==
  [][LET n == Len(wire) - Len(wire') IN
     receiver = "client" /\ ReadyRead(n) =>
       \A k \in 1..(n - 1) :
         LET first  == Parse(m_buffer \o SubSeq(wire, 1, k))
             second == Parse(first.rest \o SubSeq(wire, k + 1, n)) IN
         /\ m_buffer' = second.rest
         /\ dispatched' = dispatched \o first.payloads \o second.payloads]_vars

(* tcp_worker.h:10: the worker handles packets that stick together and     *)
(* reconnects; so a packet read to its end is dispatched on every          *)
(* connection.                                                             *)
ReadAfterReconnect == open => AllRead
=============================================================================
