--------------------------- MODULE PrefixedStream ---------------------------
(***************************************************************************)
(* The packetizer on a recording: packets of PacketSize bytes, each behind   *)
(* Extra bytes of an outer format (four in BDAV, FEC bytes in ATSC, none in a *)
(* plain transport stream), the last packet possibly cut short.  README.md:   *)
(* 25-26 says that resynchronisation skips the extra bytes.                   *)
(***************************************************************************)
EXTENDS Packetizer

CONSTANT Extra   \* bytes in front of every packet

ASSUME ExtraAssumption == Extra \in Nat

(* The first byte of the k-th packet of a recording. *)
RealStart(k) == (k - 1) * (Extra + PacketSize) + Extra + 1

(* The input is a recording: every packet in it begins with a sync byte. *)
IsRecording ==
  \A k \in 1..StreamLength : RealStart(k) <= StreamLength => RealStart(k) \in syncBytes

(* None of the extra bytes looks like a sync byte. *)
ExtraIsClean ==
  \A k \in 1..StreamLength : \A q \in syncBytes : q \notin (RealStart(k) - Extra)..(RealStart(k) - 1)

(* The k-th packet handed on is the k-th packet of the recording. *)
InStep == \A k \in DOMAIN delivered : delivered[k].start = RealStart(k)
-----------------------------------------------------------------------------
(* packetizer.cpp:36-41: resynchronisation finds exactly the packets of a recording, as *)
(* long as no extra byte is a sync byte, whatever the packets themselves contain.        *)
OnlyRealPackets == IsRecording /\ ExtraIsClean => InStep

(* README.md:7, "extract all": once a clean recording has been read, every packet that is *)
(* whole in it has been handed on.                                                        *)
WholeRecording ==
  IsRecording /\ ExtraIsClean /\ fed = StreamLength /\ is_depleted /\ packet = NoPacket =>
    \A k \in 1..StreamLength :
      RealStart(k) + PacketSize - 1 <= StreamLength => k \in DOMAIN delivered

(* The buffer holds three packets of a recording, but for the bytes that cannot be damaged. *)
RoomForThree == Capacity >= 3 * PacketSize + Extra - HeaderSize - 2

(* The payload that the parsers would find now is that of the packet got. *)
PendingIntact == \A i \in PayloadAt : data_storage[packet.data + i] = packet.start + i

(* packetizer.cpp:32, 43-46: get() leaves the payload of the packet that it returns alone *)
(* when the live bytes of a clean recording reach to the end of the buffer.               *)
FullBufferKeepsPayload ==
  [][IsRecording /\ ExtraIsClean /\ RoomForThree /\ Get
       /\ data + size = Capacity => PendingIntact']_vars

(* README.md:25-26, "All these extra bytes silently skipped": whatever they are. *)
ExtraBytesSkipped == IsRecording => InStep

(* README.md:23-24, the granularity of the input does not matter: a parser is given the *)
(* payload bytes of its packet.                                                         *)
PayloadIntact ==
  IsRecording =>
    \A k \in DOMAIN delivered :
      \A i \in PayloadAt : delivered[k].payload[i] = delivered[k].start + i

(* main.cpp:77-88: what holds of it when main reads is that the payloads of a clean        *)
(* recording are intact, but for that of the last packet that is whole.                    *)
AllButLastIntact ==
  IsRecording /\ ExtraIsClean /\ RoomForThree =>
    \A k \in DOMAIN delivered :
      RealStart(k + 1) + PacketSize - 1 <= StreamLength =>
        \A i \in PayloadAt : delivered[k].payload[i] = delivered[k].start + i
=============================================================================
