---------------------------- MODULE MCPacketizer ----------------------------
(* Packetizer on small instances. *)
EXTENDS PrefixedStream

(* The packets of the input from position p on, by recursion on the input. *)
FramesFrom[p \in 1..(StreamLength + 1)] ==
    IF p + PacketSize - 1 > StreamLength THEN <<>>
    ELSE IF p \in syncBytes THEN <<p>> \o FramesFrom[p + PacketSize]
    ELSE FramesFrom[p + 1]

(* packetizer_t::get and main.cpp's read loop: once the input has been read, every  *)
(* whole packet in it has been handed to a parser, once, in order, and nothing else. *)
EveryPacketDelivered ==
    <>[](/\ fed = StreamLength
         /\ [k \in DOMAIN delivered |-> delivered[k].start] = FramesFrom[1])
=============================================================================
