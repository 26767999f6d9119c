------------------------------ MODULE EsProofs ------------------------------
(***************************************************************************)
(* What on_data is given, for packets and PES headers of every size, when a  *)
(* PES header is split, if at all, in front of its pes_header_data_length, so  *)
(* that try_parse_header reports it as not parsed.                            *)
(***************************************************************************)
EXTENDS EsExtraction, TLAPS, SequenceTheorems

USE EsAssumption

Room == PacketSize - TsHeaderSize

(* A PES header that goes on in the next packet is cut where it is found incomplete. *)
SplitsAreSeen == SplitAt \subseteq 0..(StartSize + FlagsSize - 1)

(* A packet that holds the whole of the PES header that starts in it, if one does, or so  *)
(* little of it that this is found incomplete.                                            *)
IsSound(p) ==
  /\ p \in PacketsSent
  /\ p.header + p.es <= Room
  /\ p.first + p.es - 1 <= StreamLength
  /\ p.adaptation <=> p.header + p.es < Room
  /\ p.adaptation => p.adaptation_length = Room - 1 - p.header - p.es
  /\ p.payload_unit_start_indicator /\ p.stream_id = Media =>
       /\ p.pes_header_data_length \in HeaderDataLengths
       /\ \/ p.header = FixedSize + p.pes_header_data_length
          \/ p.header < StartSize + FlagsSize /\ p.es = 0
  /\ p.payload_unit_start_indicator /\ p.stream_id = Other => p.header = StartSize

(* ExtractedInOrder is inductive only together with what is known of the packets sent. *)
IInv == /\ SplitsAreSeen
        /\ TypeOK
        /\ overrun = FALSE
        /\ \A k \in 1..Len(wire) : IsSound(wire[k])
        /\ ExtractedInOrder

LEMMA Sizes ==
  /\ Room \in Nat /\ TsHeaderSize \in Nat /\ PacketSize \in Nat /\ PacketSize = TsHeaderSize + Room
  /\ FixedSize \in Nat /\ StartSize \in Nat /\ FlagsSize \in Nat
  /\ FixedSize = StartSize + FlagsSize + 1
  /\ HeaderDataLengths \subseteq Nat
  /\ \A n \in HeaderDataLengths : FixedSize + n <= Room
  /\ SizeModulus \in Nat
  BY DEF Room, FixedSize

(* ts_packet.cpp:27-43: the payload is what is not header or adaptation field. *)
LEMMA PayloadIsTheRest ==
  ASSUME NEW p, IsSound(p)
  PROVE  /\ PayloadOffset(p) = PacketSize - p.header - p.es
         /\ PayloadSize(p) = p.header + p.es
<1>1. /\ p.header \in Nat /\ p.es \in Nat /\ p.header + p.es <= Room
      /\ p.adaptation <=> p.header + p.es < Room
      /\ p.adaptation => p.adaptation_length = Room - 1 - p.header - p.es
  BY Sizes DEF IsSound, PacketsSent
<1>2. PayloadOffset(p) = PacketSize - p.header - p.es
  <2>1. CASE p.header + p.es < Room
    BY <1>1, <2>1, Sizes DEF PayloadOffset
  <2>2. CASE ~(p.header + p.es < Room)
    BY <1>1, <2>2, Sizes DEF PayloadOffset
  <2>3. QED
    BY <2>1, <2>2
<1>3. QED
  BY <1>1, <1>2, Sizes DEF PayloadSize, AsSize

(* parser_pes.cpp:19-25: with the header out of the way, on_data is given what is carried. *)
LEMMA DeliverRest ==
  ASSUME NEW p, IsSound(p), Deliver(p, p.header - SplitHeader(p))
  PROVE  received' = received \o Carried(p) /\ overrun' = overrun
<1>1. /\ p.header \in Nat /\ p.es \in Nat /\ p.first \in Nat /\ p.header + p.es <= Room
      /\ SplitHeader(p) \in {0, p.header}
  BY DEF IsSound, PacketsSent, SplitHeader
<1>2. PICK h \in Nat : h = SplitHeader(p) /\ h <= p.header
  BY <1>1
<1>3. PICK n \in Nat : n = h + p.es /\ n <= Room
  BY <1>1, <1>2, Sizes
<1>4. /\ PayloadOffset(p) + (p.header - h) = PacketSize - n
      /\ AsSize(PayloadSize(p) - (p.header - h)) = n
  BY <1>1, <1>2, <1>3, PayloadIsTheRest, Sizes DEF AsSize
<1>5. received' = received \o [i \in 1..n |-> ByteAt(p, PacketSize - n + i - 1)]
      /\ overrun' = overrun
  <2>1. PICK offset \in Int, size \in Nat : /\ offset = PayloadOffset(p) + (p.header - h)
                                           /\ size = AsSize(PayloadSize(p) - (p.header - h))
    BY <1>3, <1>4, Sizes
  <2>2. offset = PacketSize - n /\ size = n /\ size + offset <= PacketSize
    BY <1>3, <1>4, <2>1, Sizes
  <2>3. received' = received \o [i \in 1..size |-> ByteAt(p, offset + i - 1)]
        /\ overrun' = overrun
    BY <1>2, <2>1, <2>2 DEF Deliver
  <2>4. QED
    BY <2>2, <2>3
<1>6. ASSUME NEW i \in 1..n
      PROVE  ByteAt(p, PacketSize - n + i - 1)
               = IF i <= h THEN Overhead ELSE p.first + (i - h) - 1
  <2>1. PICK e \in Nat, f \in Nat, z \in Nat : e = p.es /\ f = p.first /\ z = PacketSize
    BY <1>1, Sizes
  <2>2. n = h + e /\ n <= z /\ i \in 1..n
    BY <1>3, <2>1, Sizes
  <2>3. /\ z - n + i - 1 >= z - e <=> ~(i <= h)
        /\ f + (z - n + i - 1) - (z - e) = f + (i - h) - 1
    BY <2>2
  <2>4. QED
    BY <2>1, <2>3 DEF ByteAt
<1>7. [i \in 1..n |-> ByteAt(p, PacketSize - n + i - 1)] = Carried(p)
  BY <1>2, <1>3, <1>6 DEF Carried
<1>8. QED
  BY <1>5, <1>7

(* parser_pes.cpp:11-26: a packet is extracted, or the program ends. *)
LEMMA PutSound ==
  ASSUME NEW p, IsSound(p), Put(p)
  PROVE  /\ overrun' = overrun
         /\ \/ aborted' = TRUE /\ received' = received
            \/ aborted' = aborted /\ received' = received \o Carried(p)
<1>1. CASE p.payload_unit_start_indicator /\ p.stream_id = Other
  <2>1. PayloadSize(p) >= StartSize
    BY <1>1, PayloadIsTheRest, Sizes DEF IsSound, PacketsSent
  <2>2. QED
    BY <1>1, <2>1 DEF Put
<1>2. CASE ~(p.payload_unit_start_indicator /\ p.stream_id = Other)
  <2>1. PICK consumed \in Consumed(p) : Deliver(p, consumed) /\ aborted' = aborted
    BY <1>2 DEF Put
  <2>2. consumed = p.header - SplitHeader(p)
    <3>1. p.header \in Nat /\ p.es \in Nat /\ PayloadSize(p) = p.header + p.es
      BY PayloadIsTheRest, Sizes DEF IsSound, PacketsSent
    <3>2. CASE ~p.payload_unit_start_indicator
      <4>1. consumed = 0 /\ SplitHeader(p) = p.header
        BY <2>1, <3>2 DEF Consumed, SplitHeader
      <4>2. QED
        BY <3>1, <4>1
    <3>3. CASE p.payload_unit_start_indicator /\ p.header = FixedSize + p.pes_header_data_length
      <4>1. p.pes_header_data_length \in Nat /\ SplitHeader(p) = 0
        BY <1>2, <3>3, Sizes DEF IsSound, PacketsSent, SplitHeader
      <4>2. ~(PayloadSize(p) < StartSize + FlagsSize) /\ p.header >= FixedSize
        BY <3>1, <3>3, <4>1, Sizes
      <4>3. try_parse_header(p) = {FixedSize + n : n \in {p.pes_header_data_length}}
        BY <4>2 DEF try_parse_header, LengthByte
      <4>4. consumed = p.header /\ p.header - 0 = p.header
        BY <2>1, <3>1, <3>3, <4>3 DEF Consumed
      <4>5. QED
        BY <4>1, <4>4
    <3>4. CASE /\ p.payload_unit_start_indicator
               /\ p.header # FixedSize + p.pes_header_data_length
      <4>1. p.stream_id = Media
        BY <1>2, <3>4 DEF IsSound, PacketsSent
      <4>2. p.header < StartSize + FlagsSize /\ p.es = 0 /\ SplitHeader(p) = p.header
        BY <3>4, <4>1 DEF IsSound, SplitHeader
      <4>3. PayloadSize(p) < StartSize + FlagsSize
        BY <3>1, <4>2
      <4>4. consumed = 0
        BY <2>1, <3>4, <4>3 DEF Consumed, try_parse_header
      <4>5. QED
        BY <3>1, <4>2, <4>4
    <3>5. QED
      BY <3>2, <3>3, <3>4
  <2>3. QED
    BY <2>1, <2>2, DeliverRest
<1>3. QED
  BY <1>1, <1>2

LEMMA InitIInv == SplitsAreSeen /\ Init => IInv
<1>1. SUFFICES ASSUME SplitsAreSeen, Init PROVE IInv
  OBVIOUS
<1>2. /\ sent = 0 /\ pending = 0 /\ wire = <<>> /\ faults = 0 /\ carried = <<>>
      /\ received = <<>> /\ overrun = FALSE /\ aborted = FALSE
  BY <1>1 DEF Init
<1>3. /\ <<>> \in Seq(PacketsSent) /\ <<>> \in Seq(0..StreamLength)
      /\ <<>> \in Seq(0..StreamLength) /\ Len(<<>>) = 0
  OBVIOUS
<1>4. 0 \in 0..StreamLength /\ 0 \in 0..MaxFaults
  OBVIOUS
<1>5. TypeOK
  <2>1. /\ wire \in Seq(PacketsSent) /\ carried \in Seq(0..StreamLength)
        /\ received \in Seq(0..StreamLength)
    BY <1>2, <1>3, Zenon
  <2>2. Len(wire) <= 2 /\ Len(received) <= Len(carried)
    <3>1. Len(wire) = 0 /\ Len(received) = 0 /\ Len(carried) = 0
      BY <1>2, <1>3, Zenon
    <3>2. QED
      BY <3>1
  <2>3. QED
    BY <1>2, <1>4, <2>1, <2>2 DEF TypeOK
<1>6. 1..Len(wire) = {}
  BY <1>2, <1>3
<1>7. QED
  BY <1>1, <1>2, <1>5, <1>6 DEF IInv, ExtractedInOrder

LEMMA ReceiveIInv == IInv /\ Receive => IInv'
<1>1. SUFFICES ASSUME IInv, Receive PROVE IInv'
  OBVIOUS
<1>2. PICK p : p = Head(wire)
  OBVIOUS
<1>3. /\ wire \in Seq(PacketsSent) /\ Len(wire) \in Nat /\ wire # <<>> /\ Len(wire) <= 2
      /\ carried \in Seq(0..StreamLength) /\ received \in Seq(0..StreamLength)
      /\ received = carried /\ aborted = FALSE /\ overrun = FALSE
      /\ wire' = Tail(wire) /\ carried' = carried \o Carried(p) /\ Put(p)
      /\ sent' = sent /\ pending' = pending /\ faults' = faults
  BY <1>1, <1>2 DEF IInv, TypeOK, Receive, ExtractedInOrder
<1>4. IsSound(p)
  <2>1. 1 \in 1..Len(wire)
    BY <1>3
  <2>2. p = wire[1]
    BY <1>2, <1>3
  <2>3. QED
    BY <1>1, <2>1, <2>2 DEF IInv
<1>5. /\ overrun' = overrun
      /\ \/ aborted' = TRUE /\ received' = received
         \/ aborted' = aborted /\ received' = received \o Carried(p)
  BY <1>3, <1>4, PutSound
<1>6. Carried(p) \in Seq(0..StreamLength)
  <2>1. /\ p.es \in Nat /\ p.first \in Nat /\ p.first >= 1 /\ p.first + p.es - 1 <= StreamLength
        /\ p.header \in Nat /\ SplitHeader(p) \in {0, p.header}
    BY <1>4 DEF IsSound, PacketsSent, SplitHeader
  <2>2. PICK h \in Nat : h = SplitHeader(p)
    BY <2>1
  <2>3. \A i \in 1..(h + p.es) : ~(i <= h) => p.first + (i - h) - 1 \in 0..StreamLength
    BY <2>1, <2>2
  <2>4. \A i \in 1..(h + p.es) :
          (IF i <= h THEN Overhead ELSE p.first + (i - h) - 1) \in 0..StreamLength
    BY <2>3 DEF Overhead
  <2>5. h + p.es \in Nat
    BY <2>1, <2>2
  <2>6. [i \in 1..(h + p.es) |-> IF i <= h THEN Overhead ELSE p.first + (i - h) - 1]
          \in Seq(0..StreamLength)
    BY <2>4, <2>5
  <2>7. QED
    BY <2>2, <2>6 DEF Carried
<1>7. /\ carried' \in Seq(0..StreamLength) /\ Len(carried') >= Len(carried)
  BY <1>3, <1>6
<1>8. received' \in Seq(0..StreamLength) /\ Len(received') <= Len(carried')
  <2>1. CASE aborted' = TRUE /\ received' = received
    BY <1>3, <1>7, <2>1
  <2>2. CASE received' = received \o Carried(p)
    <3>1. Carried(p) \in Seq(0..StreamLength)
      BY <1>6
    <3>2. received' = carried'
      BY <1>3, <2>2
    <3>3. QED
      BY <1>3, <1>7, <2>2, <3>1, <3>2
  <2>3. QED
    BY <1>5, <2>1, <2>2
<1>9. /\ wire' \in Seq(PacketsSent) /\ Len(wire') <= 2
      /\ \A k \in 1..Len(wire') : IsSound(wire'[k])
  <2>1. /\ wire' \in Seq(PacketsSent) /\ Len(wire') = Len(wire) - 1
        /\ \A k \in 1..Len(wire') : wire'[k] = wire[k + 1]
    BY <1>3
  <2>2. ASSUME NEW k \in 1..Len(wire') PROVE IsSound(wire'[k])
    <3>1. k + 1 \in 1..Len(wire) /\ wire'[k] = wire[k + 1]
      BY <1>3, <2>1
    <3>2. QED
      BY <1>1, <3>1 DEF IInv
  <2>3. QED
    BY <1>3, <2>1, <2>2
<1>10. TypeOK'
  BY <1>1, <1>3, <1>5, <1>7, <1>8, <1>9 DEF IInv, TypeOK
<1>11. ExtractedInOrder'
  BY <1>3, <1>5 DEF ExtractedInOrder
<1>12. QED
  BY <1>1, <1>3, <1>5, <1>9, <1>10, <1>11 DEF IInv

(* What is sent are sound packets. *)
LEMMA TransmitIInv ==
  ASSUME IInv, NEW p, IsSound(p), NEW splits \in 0..1, Transmit(p, splits),
         pending' \in Nat, sent' \in 0..StreamLength
  PROVE  IInv'
<1>1. PICK copies \in 0..2 : /\ wire' = [i \in 1..copies |-> p]
                             /\ faults' = faults + splits + (IF copies = 1 THEN 0 ELSE 1)
                             /\ faults' <= MaxFaults
  BY DEF Transmit
<1>2. /\ carried' = carried /\ received' = received /\ overrun' = overrun /\ aborted' = aborted
  BY DEF Transmit
<1>3. /\ wire' \in Seq(PacketsSent) /\ Len(wire') = copies
      /\ \A k \in 1..Len(wire') : IsSound(wire'[k])
  BY <1>1 DEF IsSound
<1>4. faults' \in 0..MaxFaults
  BY <1>1 DEF IInv, TypeOK
<1>5. TypeOK'
  BY <1>2, <1>3, <1>4 DEF IInv, TypeOK
<1>6. QED
  BY <1>2, <1>3, <1>5 DEF IInv, ExtractedInOrder

LEMMA PacketIsSound ==
  ASSUME TypeOK, NEW start \in BOOLEAN, NEW id \in {Media, Other},
         NEW length \in HeaderDataLengths \cup {0}, NEW header \in 0..PacketSize,
         NEW es \in 0..PacketSize, Fits(header, es),
         start /\ id = Media =>
           /\ length \in HeaderDataLengths
           /\ header = FixedSize + length \/ (header < StartSize + FlagsSize /\ es = 0),
         start /\ id = Other => header = StartSize
  PROVE  /\ IsSound(Packet(start, id, length, header, es))
         /\ sent + es \in 0..StreamLength
<1>1. sent \in Nat /\ sent + es <= StreamLength /\ header + es <= Room
  BY Sizes DEF TypeOK, Fits
<1> DEFINE p == Packet(start, id, length, header, es)
<1>2. /\ p.payload_unit_start_indicator = start /\ p.stream_id = id
      /\ p.pes_header_data_length = length /\ p.header = header /\ p.es = es
      /\ p.first = sent + 1 /\ (p.adaptation <=> header + es < Room)
      /\ p.adaptation_length = IF header + es < Room THEN Room - 1 - header - es ELSE 0
  BY DEF Packet, Room
<1>3. p \in PacketsSent
  <2>1. (IF header + es < Room THEN Room - 1 - header - es ELSE 0) \in 0..PacketSize
    BY <1>1, Sizes
  <2>2. (header + es < Room) \in BOOLEAN
    OBVIOUS
  <2>3. sent + 1 \in 1..(StreamLength + 1)
    BY <1>1
  <2>4. QED
    BY <2>1, <2>2, <2>3 DEF Packet, PacketsSent, Room
<1>4. p.first + p.es - 1 <= StreamLength
  BY <1>1, <1>2
<1> HIDE DEF p
<1>5. IsSound(p)
  BY <1>1, <1>2, <1>3, <1>4 DEF IsSound
<1>6. QED
  BY <1>1, <1>5 DEF p

LEMMA StartIInv ==
  ASSUME IInv, NEW length \in HeaderDataLengths, NEW header \in 0..PacketSize,
         NEW es \in 0..PacketSize, Start(length, header, es)
  PROVE  IInv'
<1>1. PICK splits \in 0..1 : Transmit(Packet(TRUE, Media, length, header, es), splits)
  <2>1. 0 \in 0..1 /\ 1 \in 0..1
    OBVIOUS
  <2>2. QED
    BY <2>1, Zenon DEF Start
<1>2. /\ Fits(header, es)
      /\ \/ header = FixedSize + length
         \/ header \in SplitAt /\ header < FixedSize + length /\ es = 0
      /\ pending' = FixedSize + length - header /\ sent' = sent + es
  BY DEF Start
<1>3. header = FixedSize + length \/ (header < StartSize + FlagsSize /\ es = 0)
  <2>1. header \in SplitAt => header < StartSize + FlagsSize
    BY Sizes DEF IInv, SplitsAreSeen
  <2>2. QED
    BY <1>2, <2>1
<1>4. pending' \in Nat
  BY <1>2, Sizes
<1>5. Media # Other /\ TypeOK
  BY DEF Media, Other, IInv
<1>6. IsSound(Packet(TRUE, Media, length, header, es)) /\ sent + es \in 0..StreamLength
  BY <1>2, <1>3, <1>5, PacketIsSound
<1>7. QED
  BY <1>1, <1>2, <1>4, <1>6, TransmitIInv

LEMMA StartOtherIInv ==
  ASSUME IInv, NEW es \in 0..PacketSize, StartOther(es) PROVE IInv'
<1>1. /\ Fits(StartSize, es) /\ Transmit(Packet(TRUE, Other, 0, StartSize, es), 0)
      /\ pending' \in Nat /\ sent' = sent + es
  BY DEF StartOther, IInv, TypeOK
<1>2. Media # Other /\ TypeOK
  BY DEF Media, Other, IInv
<1>3. StartSize \in 0..PacketSize
  BY <1>1, Sizes DEF Fits
<1>4. IsSound(Packet(TRUE, Other, 0, StartSize, es)) /\ sent + es \in 0..StreamLength
  BY <1>1, <1>2, <1>3, PacketIsSound
<1>5. sent' \in 0..StreamLength /\ 0 \in 0..1
  BY <1>1, <1>4
<1>6. QED
  BY <1>1, <1>4, <1>5, TransmitIInv

LEMMA ContinueIInv ==
  ASSUME IInv, NEW header \in 0..PacketSize, NEW es \in 0..PacketSize, Continue(header, es)
  PROVE  IInv'
<1>1. /\ Fits(header, es) /\ header <= pending
      /\ Transmit(Packet(FALSE, Media, 0, header, es), 0)
      /\ pending' = pending - header /\ sent' = sent + es
  <2>1. header = pending \/ header < pending
    BY DEF Continue
  <2>2. header <= pending
    BY <2>1 DEF IInv, TypeOK
  <2>3. QED
    BY <2>2 DEF Continue
<1>2. pending' \in Nat
  BY <1>1 DEF IInv, TypeOK
<1>3. IsSound(Packet(FALSE, Media, 0, header, es)) /\ sent + es \in 0..StreamLength
  BY <1>1, PacketIsSound DEF IInv
<1>4. sent' \in 0..StreamLength /\ 0 \in 0..1
  BY <1>1, <1>3
<1>5. QED
  BY <1>1, <1>2, <1>3, <1>4, TransmitIInv

LEMMA StutterIInv == IInv /\ UNCHANGED vars => IInv'
  BY DEF IInv, vars, TypeOK, ExtractedInOrder

(* With no PES header split but where it is seen, the invariant holds in every state reached. *)
THEOREM Inductive == SplitsAreSeen /\ Spec => []IInv
<1>1. SplitsAreSeen /\ Init => IInv
  BY InitIInv
<1>2. IInv /\ [Next]_vars => IInv'
  BY ReceiveIInv, StartIInv, StartOtherIInv, ContinueIInv, StutterIInv DEF Next
<1>3. QED
  BY <1>1, <1>2, PTL DEF Spec

(* parser_pes.cpp:11-26: no more is extracted than the packets carried. *)
THEOREM TypeCorrect == SplitsAreSeen /\ Spec => []TypeOK
<1>1. IInv => TypeOK
  BY DEF IInv
<1>2. QED
  BY <1>1, Inductive, PTL

(* ts_packet.cpp:27-43, parser_pes.cpp:11-26: what is extracted is the bytes of the packets *)
(* that arrived, in order, whatever is lost or repeated, for every size of packet, header   *)
(* and adaptation field; header bytes only of headers that put() was told are not parsed.   *)
THEOREM StreamsAreExtracted == SplitsAreSeen /\ Spec => []ExtractedInOrder
<1>1. IInv => ExtractedInOrder
  BY DEF IInv
<1>2. QED
  BY <1>1, Inductive, PTL

(* ut_parser_pes.cpp:28-40: put() stays in the packet, unless a PES header is cut at its  *)
(* pes_header_data_length or behind it.                                                   *)
THEOREM NothingIsOverrun == SplitsAreSeen /\ Spec => []NoOverrun
<1>1. IInv => NoOverrun
  BY DEF IInv, NoOverrun
<1>2. QED
  BY <1>1, Inductive, PTL
=============================================================================
