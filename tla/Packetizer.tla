----------------------------- MODULE Packetizer -----------------------------
(***************************************************************************)
(* packetizer_t (src/packetizer.cpp): the input buffer that turns the bytes *)
(* read from a file into TS packets, driven by the loops that use it: the    *)
(* read loop of main.cpp and demuxer_t::consume.                             *)
(*                                                                           *)
(* A byte is named by its position in the input, from 1; position 0 is the   *)
(* zero with which std::vector fills data_storage.  All that sync() asks of  *)
(* a byte is whether it equals ts_sync_byte, so the content of the input is  *)
(* the set syncBytes of positions that do.  A pointer into data_storage is   *)
(* its offset.                                                               *)
(***************************************************************************)
EXTENDS Integers, Sequences

CONSTANTS Capacity,      \* data_storage.size(): 10 MiB in main.cpp
          PacketSize,    \* ts_packet_t::ts_packet_size: 188
          HeaderSize,    \* bytes of a packet that ts_packet_t's constructor reads
          StreamLength   \* bytes in the input

ASSUME SizesAssumption == /\ Capacity \in Nat
                          /\ PacketSize \in Nat
                          /\ HeaderSize \in 1..PacketSize
                          /\ PacketSize <= Capacity
                          /\ StreamLength \in Nat

VARIABLES syncBytes,     \* the positions of the input that hold ts_sync_byte
          fed,           \* how many bytes of the input have been read
          data_storage,  \* the position of the byte in each cell
          data,          \* input_buffer.data, as an offset
          size,          \* input_buffer.size
          packet,        \* what get() returned and the demuxer has not put() yet
          delivered      \* what the parsers have been given so far

vars == <<syncBytes, fed, data_storage, data, size, packet, delivered>>

Cells      == 0..(Capacity - 1)
Positions  == 0..StreamLength
PayloadAt  == HeaderSize..(PacketSize - 1)

(* A ts_packet_t: its header was copied out of the packet that begins at "start"; *)
(* its payload is a pointer, HeaderSize cells past the offset "data".             *)
Packets  == [start : Positions, data : 0..Capacity]
NoPacket == [start |-> 0, data |-> 0]

(* What a parser is given: the packet and the payload bytes it finds. *)
Deliveries == [start : Positions, payload : [PayloadAt -> Positions]]

Init == /\ syncBytes \in SUBSET (1..StreamLength)
        /\ fed = 0
        /\ data_storage = [i \in Cells |-> 0]
        /\ data = 0
        /\ size = 0
        /\ packet = NoPacket
        /\ delivered = <<>>
-----------------------------------------------------------------------------
(* A definition named Slip_X is the next definition with one plausible mistake in   *)
(* it: a property is worth checking when it tells the two apart.                     *)
Slip_DepletedByOne == size <= PacketSize

is_depleted == size < PacketSize

Slip_RoomForgetsTail == Capacity

(* The bytes request() offers: those after the first input_buffer.size ones. *)
Room == Capacity - size

Slip_SkipNothing(bytes, from, n, k) == k = 0

Slip_SkipOnce(bytes, from, n, k) == k = IF n > 0 /\ bytes[from] \notin syncBytes THEN 1 ELSE 0

(* The loop of sync() drops k of the n bytes at "from": those before the first sync byte. *)
IsSkip(bytes, from, n, k) ==
  /\ \A i \in 0..(k - 1) : bytes[from + i] \notin syncBytes
  /\ k < n => bytes[from + k] \in syncBytes

(* memmove of the n bytes at "from" to the front of the storage. *)
Moved(bytes, from, n) == [i \in Cells |-> IF i < n THEN bytes[from + i] ELSE bytes[i]]

Slip_SettleDropsTail(bytes, from, n) ==
  /\ size' = IF n < PacketSize THEN 0 ELSE n
  /\ data' = IF n < PacketSize THEN 0 ELSE from
  /\ data_storage' = bytes

Slip_SettleAlwaysMoves(bytes, from, n) ==
  size' = n /\ data' = 0 /\ data_storage' = Moved(bytes, from, n)

(* The end of sync(), with n bytes left at "from": less than a packet is moved to the *)
(* front.                                                                             *)
Settle(bytes, from, n) ==
  /\ size' = n
  /\ \/ is_depleted' /\ data' = 0 /\ data_storage' = Moved(bytes, from, n)
     \/ ~is_depleted' /\ data' = from /\ data_storage' = bytes

(* sync() on storage "bytes" whose live part is the n bytes at "from". *)
Sync(bytes, from, n) ==
  \E k \in 0..n : IsSkip(bytes, from, n, k) /\ Settle(bytes, from + k, n - k)

(* The storage after a read of n bytes to the place that request() offers. *)
Filled(n) == [i \in Cells |-> IF i \in size..(size + n - 1) THEN fed + 1 + i - size
                                                           ELSE data_storage[i]]

Slip_ConfirmedRequest(n) == size + Room

(* available_bytes of confirm(), after a read of n bytes. *)
Confirmed(n) == size + n

(* request(), a read of n bytes into what it offers, and confirm(). *)
Fill(n) ==
  /\ n <= Room
  /\ fed + n <= StreamLength
  /\ fed' = fed + n
  /\ Sync(Filled(n), data, Confirmed(n))
  /\ UNCHANGED <<syncBytes, packet, delivered>>

(* get(): the packet at the head of the buffer; what follows is synchronised *)
(* before the packet is returned.                                            *)
Get ==
  /\ ~is_depleted
  /\ packet = NoPacket
  /\ packet' = [start |-> data_storage[data], data |-> data]
  /\ Sync(data_storage, data + PacketSize, size - PacketSize)
  /\ UNCHANGED <<syncBytes, fed, delivered>>

(* The put() of consume(): only now is the payload read, where the packet points. *)
Put ==
  /\ packet # NoPacket
  /\ delivered' = Append(delivered,
                         [start   |-> packet.start,
                          payload |-> [i \in PayloadAt |-> data_storage[packet.data + i]]])
  /\ packet' = NoPacket
  /\ UNCHANGED <<syncBytes, fed, data_storage, data, size>>
-----------------------------------------------------------------------------
(* main.cpp reads only after consume() has returned, that is, once is_depleted()      *)
(* holds.  It fills all the room unless the input ends; the interface (source_data.h,  *)
(* README.md:23-24) lets an IO back end bring any number of bytes, so the model does.  *)
Read == /\ is_depleted
        /\ packet = NoPacket
        /\ \E n \in 0..StreamLength : Fill(n)

Next == Read \/ Get \/ Put

Spec == Init /\ [][Next]_vars

(* The interface allows, and the unit tests do, several confirm() in a row. *)
FillAgain == /\ packet = NoPacket
             /\ \E n \in 0..StreamLength : Fill(n)

FreeSpec == Init /\ [][FillAgain \/ Get \/ Put]_vars

(* The read loop goes on to the end of the input: a read that finds room and   *)
(* input left returns something.                                               *)
ReadSome == /\ is_depleted
            /\ packet = NoPacket
            /\ \E n \in 1..StreamLength : Fill(n)

FairSpec == Spec /\ WF_vars(ReadSome) /\ WF_vars(Get) /\ WF_vars(Put)

(* What main.cpp asks for is all the room there is; it gets that or all that is left. *)
MainRead == /\ is_depleted
            /\ packet = NoPacket
            /\ Fill(IF StreamLength - fed < Room THEN StreamLength - fed ELSE Room)

MainSpec == Init /\ [][MainRead \/ Get \/ Put]_vars
-----------------------------------------------------------------------------
(* Every variable has its type, and input_buffer lies inside data_storage. *)
TypeOK ==
  /\ syncBytes \subseteq 1..StreamLength
  /\ fed \in Positions
  /\ data_storage \in [Cells -> Positions]
  /\ data \in 0..Capacity
  /\ size \in 0..Capacity
  /\ packet \in Packets
  /\ delivered \in Seq(Deliveries)

(* packetizer.cpp:10-19: the live bytes are the last "size" bytes read, in order.  *)
(* No read lands on bytes still to be parsed, and none is left out between them.   *)
LiveBytesInOrder ==
  /\ data + size <= Capacity
  /\ \A i \in 0..(size - 1) : data_storage[data + i] = fed - size + 1 + i

(* ts_packet.cpp:11, the assertion of the constructor: what get() parses as a packet *)
(* begins with the sync byte.                                                        *)
HeadIsSync == size > 0 => data_storage[data] \in syncBytes

(* packetizer.cpp:32: between get() and put() sync() may have moved the tail over the *)
(* packet; it damages nothing but the cells that the tail now fills.                  *)
DamageConfinedToTail ==
  packet # NoPacket =>
    /\ packet.data + PacketSize <= Capacity
    /\ \A i \in PayloadAt : \/ data_storage[packet.data + i] = packet.start + i
                            \/ is_depleted /\ packet.data + i < size
-----------------------------------------------------------------------------
Starts == [k \in DOMAIN delivered |-> delivered[k].start]

Framing == INSTANCE TsFraming WITH starts <- Starts

(* packetizer.cpp:25-47: the packets are those that TsFraming defines on the input, *)
(* however it is cut into reads.                                                    *)
FramingSpec == Framing!Spec

(* The first live byte, and the first byte after the last packet got. *)
LiveFrom == fed - size + 1
Resume   == IF packet = NoPacket THEN Framing!NextFree ELSE packet.start + PacketSize

(* packetizer.cpp:36-41: resynchronisation loses no sync byte.  Every one at or after  *)
(* the end of the last packet is still in the buffer or still to be read.              *)
NoSyncByteLost ==
  /\ Resume <= LiveFrom
  /\ \A q \in syncBytes : q >= Resume => q >= LiveFrom

(* main.cpp:77-88, "while (source)": when the input is at its end and consume() has      *)
(* returned, nothing is left in the buffer that could be another packet.                 *)
EndLeavesNothing ==
  fed = StreamLength /\ is_depleted /\ packet = NoPacket =>
    \A h \in syncBytes : Framing!IsNextStart(h, Framing!NextFree) => h + PacketSize - 1 > StreamLength
=============================================================================
