------------------------------ MODULE TsFraming ------------------------------
(***************************************************************************)
(* What the packetizer promises: the TS packets of a byte stream.  A packet *)
(* starts at the first sync byte at or after the end of the previous packet *)
(* and is handed on once all its PacketSize bytes have arrived.  The buffer, *)
(* the size of the reads and the moments at which they happen do not show.   *)
(***************************************************************************)
EXTENDS Integers, Sequences

CONSTANTS PacketSize,    \* ts_packet_t::ts_packet_size
          StreamLength   \* bytes in the input

VARIABLES syncBytes,     \* the positions of the input that hold ts_sync_byte
          fed,           \* how many bytes of the input have arrived
          starts         \* the first byte of every packet handed on, in order

vars == <<syncBytes, fed, starts>>

(* The first position the next packet may start at. *)
NextFree == IF starts = <<>> THEN 1 ELSE starts[Len(starts)] + PacketSize

(* The packet to hand on next starts at h, given that it may not start before "from". *)
IsNextStart(h, from) ==
    /\ h \in syncBytes
    /\ h >= from
    /\ \A q \in syncBytes : q >= from => q >= h

Init == /\ syncBytes \in SUBSET (1..StreamLength)
        /\ fed = 0
        /\ starts = <<>>

Arrive == /\ fed' \in fed..StreamLength
          /\ UNCHANGED <<syncBytes, starts>>

Emit == \E h \in 1..StreamLength :
          /\ IsNextStart(h, NextFree)
          /\ h + PacketSize - 1 <= fed
          /\ starts' = Append(starts, h)
          /\ UNCHANGED <<syncBytes, fed>>

Next == Arrive \/ Emit

Spec == Init /\ [][Next]_vars
-----------------------------------------------------------------------------
(* The same told of the input alone: s are packets of the input, each the next one after *)
(* those before it, and there is no other.                                               *)
Behind(s, k) == IF k = 1 THEN 1 ELSE s[k - 1] + PacketSize

IsFraming(s) ==
  \A k \in DOMAIN s : IsNextStart(s[k], Behind(s, k)) /\ s[k] + PacketSize - 1 <= StreamLength

IsComplete(s) ==
  ~ \E h \in syncBytes : /\ IsNextStart(h, Behind(s, Len(s) + 1))
                        /\ h + PacketSize - 1 <= StreamLength
=============================================================================
