----------------------------- MODULE EsExtraction -----------------------------
(***************************************************************************)
(* The way of the bytes of an elementary stream from its TS packets to       *)
(* callback_es_t::on_data: the payload that the constructor of ts_packet_t    *)
(* (src/ts_packet.cpp) finds behind the adaptation field, and what            *)
(* parser_pes_t (src/parser_pes.cpp) strips from it.                          *)
(*                                                                           *)
(* A byte of the elementary stream is its position, from 1; every other byte  *)
(* of a packet is Overhead.  Packets may be lost on their way, or repeated:   *)
(* the code reads no continuity counter.                                      *)
(***************************************************************************)
EXTENDS Integers, Sequences

CONSTANTS PacketSize,          \* 188
          TsHeaderSize,        \* bytes before the adaptation field or payload: 4
          StartSize,           \* bytes of a PES header up to PES_packet_length: 6
          FlagsSize,           \* bytes between them and the length byte: 2
          HeaderDataLengths,   \* values of pes_header_data_length in the stream
          ByteValues,          \* values of a byte that is not in the packet
          SplitAt,             \* bytes of a PES header in the first of several packets, if split
          OtherIds,            \* whether there are PES packets without that header
          StreamLength,        \* bound: bytes of the elementary stream
          MaxFaults,           \* bound: packets lost or repeated, and headers split
          SizeModulus          \* size_t wraps here: 2^64

VARIABLES sent,       \* bytes of the elementary stream sent
          pending,    \* bytes of a PES header still to be sent
          wire,       \* the packets of the PID on their way, in order
          faults,     \* how many were lost or repeated so far, and how many headers split
          carried,    \* the bytes that the packets that were put carried
          received,   \* the bytes given to on_data
          overrun,    \* whether on_data was given a range beyond the packet
          aborted     \* whether assert(false) ended the program

vars == <<sent, pending, wire, faults, carried, received, overrun, aborted>>

Overhead == 0
Media    == "media"   \* a stream_id whose PES packets have the optional header
Other    == "other"   \* one of the eight that have not

(* PES header bytes before pes_header_data_length counts. *)
FixedSize == StartSize + FlagsSize + 1

ASSUME EsAssumption ==
  /\ TsHeaderSize \in Nat /\ StartSize \in Nat \ {0} /\ FlagsSize \in Nat
  /\ StreamLength \in Nat /\ MaxFaults \in Nat
  /\ PacketSize \in Nat /\ PacketSize > TsHeaderSize
  /\ HeaderDataLengths \subseteq ByteValues /\ ByteValues \subseteq Nat
  /\ \A n \in HeaderDataLengths : TsHeaderSize + FixedSize + n <= PacketSize
  /\ SplitAt \subseteq Nat /\ OtherIds \in BOOLEAN
  /\ SizeModulus \in Nat /\ \A n \in ByteValues : SizeModulus > PacketSize + FixedSize + n

(* A value of type size_t, off by no more than one wrap. *)
AsSize(n) == IF n < 0 THEN n + SizeModulus ELSE n

Init == /\ sent = 0
        /\ pending = 0
        /\ wire = <<>>
        /\ faults = 0
        /\ carried = <<>>
        /\ received = <<>>
        /\ overrun = FALSE
        /\ aborted = FALSE
-----------------------------------------------------------------------------
(* A packet with "header" bytes of a PES header and "es" bytes of the stream, filled up *)
(* by an adaptation field.  header_data_length is that of the PES header it begins.     *)
Packet(start, id, length, header, es) ==
  LET room == PacketSize - TsHeaderSize
  IN  [payload_unit_start_indicator |-> start,
       stream_id              |-> id,
       pes_header_data_length |-> length,
       adaptation             |-> header + es < room,
       adaptation_length      |-> IF header + es < room THEN room - 1 - header - es ELSE 0,
       header                 |-> header,
       es                     |-> es,
       first                  |-> sent + 1]

(* The bytes of a PES header split between packets that packet p has; such headers are *)
(* not supported (parser_pes.h:11), and none of their bytes is known for one.          *)
SplitHeader(p) ==
  IF /\ p.payload_unit_start_indicator
     /\ p.stream_id = Media => p.header = FixedSize + p.pes_header_data_length
  THEN 0 ELSE p.header

(* What packet p carries: these bytes, then those of the stream. *)
Carried(p) ==
  [i \in 1..(SplitHeader(p) + p.es) |->
     IF i <= SplitHeader(p) THEN Overhead ELSE p.first + (i - SplitHeader(p)) - 1]

(* The byte at offset i of packet p. *)
ByteAt(p, i) == IF i >= PacketSize - p.es THEN p.first + i - (PacketSize - p.es) ELSE Overhead

Slip_AdaptationWithoutItsLength(p) ==
  TsHeaderSize + (IF p.adaptation THEN p.adaptation_length ELSE 0)

(* ts_packet_t: the offset of the payload, behind the adaptation field if there is one. *)
PayloadOffset(p) == TsHeaderSize + (IF p.adaptation THEN 1 + p.adaptation_length ELSE 0)

PayloadSize(p) == AsSize(PacketSize - PayloadOffset(p))

(* data[8] of the payload: pes_header_data_length, or the byte behind the packet. *)
LengthByte(p) == IF p.header >= FixedSize THEN {p.pes_header_data_length} ELSE ByteValues

Slip_FailureConsumes(p) ==
  IF PayloadSize(p) < StartSize + FlagsSize THEN {PayloadSize(p)}
  ELSE {FixedSize + n : n \in LengthByte(p)}

(* try_parse_header of a stream_id with the optional header: the bytes consumed, *)
(* 0 when the header is found incomplete.  The check leaves out the length byte  *)
(* and the bytes it counts.                                                      *)
try_parse_header(p) ==
  IF PayloadSize(p) < StartSize + FlagsSize THEN {0}
  ELSE {FixedSize + n : n \in LengthByte(p)}

Slip_DeliverAll(p, consumed) ==
  /\ received' = received \o [i \in 1..PayloadSize(p) |-> ByteAt(p, PayloadOffset(p) + i - 1)]
  /\ UNCHANGED overrun

(* on_data of what is left of the payload, if anything is. *)
Deliver(p, consumed) ==
  LET offset == PayloadOffset(p) + consumed
      size   == AsSize(PayloadSize(p) - consumed)
  IN  IF size + offset <= PacketSize
      THEN /\ received' = received \o [i \in 1..size |-> ByteAt(p, offset + i - 1)]
           /\ UNCHANGED overrun
      ELSE /\ overrun' = TRUE
           /\ UNCHANGED received

Slip_Consumed(p) == try_parse_header(p)

(* What put() takes for a header: only a packet with a unit start is looked at. *)
Consumed(p) == IF p.payload_unit_start_indicator THEN try_parse_header(p) ELSE {0}

(* parser_pes_t::put; assert(false) meets a stream_id without the optional header. *)
Put(p) ==
  IF p.payload_unit_start_indicator /\ p.stream_id = Other /\ PayloadSize(p) >= StartSize
  THEN /\ aborted' = TRUE
       /\ UNCHANGED <<received, overrun>>
  ELSE /\ \E consumed \in Consumed(p) : Deliver(p, consumed)
       /\ UNCHANGED aborted

(* The demuxer puts the next packet that arrives. *)
Receive == /\ ~aborted
           /\ wire # <<>>
           /\ Put(Head(wire))
           /\ wire' = Tail(wire)
           /\ carried' = carried \o Carried(Head(wire))
           /\ UNCHANGED <<sent, pending, faults>>
-----------------------------------------------------------------------------
Fits(header, es) == /\ TsHeaderSize + header + es <= PacketSize
                    /\ sent + es <= StreamLength

(* A packet is sent, once the one before has been put; it may be lost, and it may *)
(* come twice.  "splits" is 1 if it splits a header.                              *)
Transmit(p, splits) ==
  /\ wire = <<>>
  /\ \E copies \in 0..2 :
       /\ wire' = [i \in 1..copies |-> p]
       /\ faults' = faults + splits + (IF copies = 1 THEN 0 ELSE 1)
       /\ faults' <= MaxFaults
  /\ UNCHANGED <<carried, received, overrun, aborted>>

(* The packet in which a PES packet starts. *)
Start(length, header, es) ==
  /\ ~aborted
  /\ pending = 0
  /\ Fits(header, es)
  /\ \/ /\ header = FixedSize + length
        /\ Transmit(Packet(TRUE, Media, length, header, es), 0)
     \/ /\ header \in SplitAt /\ header < FixedSize + length /\ es = 0
        /\ Transmit(Packet(TRUE, Media, length, header, es), 1)
  /\ pending' = FixedSize + length - header
  /\ sent' = sent + es

(* A PES packet of a kind that parser_pes_t does not implement. *)
StartOther(es) ==
  /\ OtherIds
  /\ ~aborted
  /\ pending = 0
  /\ Fits(StartSize, es)
  /\ Transmit(Packet(TRUE, Other, 0, StartSize, es), 0)
  /\ sent' = sent + es
  /\ UNCHANGED pending

(* A packet that goes on with a PES packet; one with an adaptation field only has *)
(* neither header nor stream bytes.                                               *)
Continue(header, es) ==
  /\ ~aborted
  /\ Fits(header, es)
  /\ \/ header = pending
     \/ header < pending /\ es = 0
  /\ Transmit(Packet(FALSE, Media, 0, header, es), 0)
  /\ pending' = pending - header
  /\ sent' = sent + es

Next == \/ \E length \in HeaderDataLengths, header, es \in 0..PacketSize : Start(length, header, es)
        \/ \E es \in 0..PacketSize : StartOther(es)
        \/ \E header, es \in 0..PacketSize : Continue(header, es)
        \/ Receive

Spec == Init /\ [][Next]_vars
-----------------------------------------------------------------------------
PacketsSent == [payload_unit_start_indicator : BOOLEAN, stream_id : {Media, Other},
                pes_header_data_length : HeaderDataLengths \cup {0}, adaptation : BOOLEAN,
                adaptation_length : 0..PacketSize, header : 0..PacketSize, es : 0..PacketSize,
                first : 1..(StreamLength + 1)]

(* Every variable has its type, and no more is extracted than was carried. *)
TypeOK ==
  /\ sent \in 0..StreamLength
  /\ pending \in Nat
  /\ wire \in Seq(PacketsSent) /\ Len(wire) <= 2
  /\ faults \in 0..MaxFaults
  /\ carried \in Seq(0..StreamLength)
  /\ received \in Seq(0..StreamLength) /\ Len(received) <= Len(carried)
  /\ overrun \in BOOLEAN
  /\ aborted \in BOOLEAN

(* ts_packet.cpp:27-43 and parser_pes.cpp:11-26: on_data has been given the bytes of the *)
(* elementary stream in the packets that arrived, all of them, in order, and of header    *)
(* bytes only those of headers split between packets, which try_parse_header reports as    *)
(* not parsed; whatever the adaptation fields, however the stream is cut into packets and   *)
(* whichever packets are lost or come twice: a loss costs no more than what was lost.       *)
ExtractedInOrder == ~aborted => received = carried

(* ut_parser_pes.cpp:28-40: a header that is only partly in the payload is not parsed, so   *)
(* no more is consumed than there is and on_data stays inside the packet.  parser_pes.h:11  *)
(* and README.md:44-45 say that split headers are not supported; the test says what becomes *)
(* of them.                                                                                *)
NoOverrun == ~overrun
=============================================================================
