----------------------------- MODULE PsiSections -----------------------------
(***************************************************************************)
(* What parser_psi_t promises to the PAT and PMT parsers: the payload of     *)
(* every section of its PID, whole, once, in the order of the stream, however *)
(* the sections are cut into packets and padded.                              *)
(***************************************************************************)
EXTENDS Integers, Sequences

CONSTANTS Streams,        \* the section streams considered
          StreamLength,   \* section bytes in a stream; positions are 1..StreamLength
          HeaderLength,   \* bytes up to the end of section_length: 3
          ExtLength       \* bytes of the header behind section_length: 5

(* A stream is a tiling of its positions by sections: it maps the first position of *)
(* every section to its last.  A section has a header and a payload (the CRC).       *)
IsStream(s) ==
  /\ DOMAIN s \subseteq 1..StreamLength
  /\ 1 \in DOMAIN s
  /\ \A h \in DOMAIN s :
       /\ s[h] \in (h + HeaderLength + ExtLength)..StreamLength
       /\ s[h] = StreamLength \/ s[h] + 1 \in DOMAIN s
       /\ \A g \in DOMAIN s : g <= h \/ g > s[h]

VARIABLES sections,   \* the stream
          arrived,    \* how many of its bytes have been received
          handed      \* the payloads handed on, each with the position of its first byte

vars == <<sections, arrived, handed>>

Payload(h) == [from |-> h + HeaderLength + ExtLength,
               size |-> sections[h] - h + 1 - HeaderLength - ExtLength]

(* The last position of the sections handed on. *)
HandedEnd == IF handed = <<>> THEN 0
             ELSE handed[Len(handed)].from + handed[Len(handed)].size - 1

Init == /\ sections \in Streams
        /\ arrived = 0
        /\ handed = <<>>

Arrive == /\ arrived' \in arrived..StreamLength
          /\ UNCHANGED <<sections, handed>>

Hand == /\ HandedEnd + 1 \in DOMAIN sections
        /\ sections[HandedEnd + 1] <= arrived
        /\ handed' = Append(handed, Payload(HandedEnd + 1))
        /\ UNCHANGED <<sections, arrived>>

Next == Arrive \/ Hand

Spec == Init /\ [][Next]_vars
=============================================================================
