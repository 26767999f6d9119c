------------------------------ MODULE PsiParser ------------------------------
(***************************************************************************)
(* parser_psi_t (src/parser_psi.cpp): sections put together from the packets *)
(* of one PID.  put() appends a packet to section_data and then hands on      *)
(* section after section; here each round of its loop is a step.              *)
(*                                                                           *)
(* A byte of section_data is the position it has in the stream of sections;   *)
(* a byte that belongs to no section is Stuffing or the Pointer.  The payload *)
(* of a section is free data: only section_length and stuffing are read.      *)
(***************************************************************************)
EXTENDS Integers, Sequences

CONSTANTS Streams, StreamLength, HeaderLength, ExtLength,   \* see PsiSections
          MaxPayload,     \* the largest payload of a packet: 184
          MaxLength,      \* the largest value of the section_length field: 4095
          SizeModulus     \* size_t wraps here: 2^64

VARIABLES sections,       \* the stream, a function from first to last positions
          arrived,        \* how many of its bytes have been put or went by before
          section_data,   \* parser_psi_t::section_data
          consumed,       \* consumed_bytes of put()
          parsing,        \* whether put() is running
          handed          \* the calls of on_payload

vars == <<sections, arrived, section_data, consumed, parsing, handed>>

Stuffing == 0    \* 0xff behind the last section of a packet
Pointer  == -1   \* pointer_field

Promise == INSTANCE PsiSections

ASSUME PsiAssumption == /\ StreamLength \in Nat
                        /\ HeaderLength \in Nat \ {0, 1}
                        /\ ExtLength \in Nat
                        /\ \A s \in Streams : Promise!IsStream(s)
                        /\ MaxPayload \in Nat
                        /\ MaxLength \in Nat
                        /\ SizeModulus \in Nat
                        /\ StreamLength + MaxPayload < SizeModulus

Heads == DOMAIN sections

(* A value of type size_t, off by no more than one wrap. *)
AsSize(n) == IF n < 0 THEN n + SizeModulus
             ELSE IF n >= SizeModulus THEN n - SizeModulus ELSE n

Available == Len(section_data) - consumed

(* The byte at offset i of section_data. *)
ByteAt(i) == section_data[i + 1]

Init == /\ sections \in Streams
        /\ arrived = 0
        /\ section_data = <<>>
        /\ consumed = 0
        /\ parsing = FALSE
        /\ handed = <<>>
-----------------------------------------------------------------------------
(* The next packet of the PID: k section bytes, then m bytes of stuffing, which may *)
(* only follow the end of a section.  A packet in which a section starts says so    *)
(* and begins with the pointer_field.                                               *)
Packet(k, m) ==
  LET starting == \E h \in Heads : h \in (arrived + 1)..(arrived + k)
  IN  [payload_unit_start_indicator |-> starting,
       payload |-> (IF starting THEN <<Pointer>> ELSE <<>>)
                   \o [i \in 1..k |-> arrived + i]
                   \o [i \in 1..m |-> Stuffing]]

MaySend(k, m) ==
  /\ arrived + k <= StreamLength
  /\ m > 0 => \E h \in Heads : sections[h] = arrived + k /\ k > 0
  /\ Len(Packet(k, m).payload) <= MaxPayload

Slip_Appended(packet) == packet.payload

(* What put() appends: the pointer_field is dropped, whatever its value. *)
Appended(packet) ==
  IF packet.payload_unit_start_indicator THEN Tail(packet.payload) ELSE packet.payload

(* put(), up to the loop. *)
Put(packet) ==
  /\ ~parsing
  /\ parsing' = TRUE
  /\ consumed' = 0
  /\ section_data' = section_data \o Appended(packet)

(* The values the section_length field at offset i may have. *)
section_length(i) ==
  LET field == {i + k : k \in 1..(HeaderLength - 1)}
  IN  IF \E h \in Heads : \A j \in field : ByteAt(j) = h + j - i
      THEN {sections[h] - h + 1 - HeaderLength :
              h \in {g \in Heads : \A j \in field : ByteAt(j) = g + j - i}}
      ELSE IF \A j \in field : ByteAt(j) = Stuffing THEN {MaxLength}
      ELSE 0..MaxLength

Slip_CompleteOneLate(length) == Available > HeaderLength + length

(* try_parse_header succeeds: the section is in section_data to its last byte. *)
Complete(length) == Available >= HeaderLength + length

Slip_SkipNothing(c) == c

Slip_SkipFromFront(c) ==
  CHOOSE e \in 0..Len(section_data) :
    /\ \A i \in 0..(e - 1) : ByteAt(i) = Stuffing
    /\ e < Len(section_data) => ByteAt(e) # Stuffing

(* skip_padding_bytes: the first offset from c on that holds no stuffing. *)
skip_padding_bytes(c) ==
  CHOOSE e \in c..Len(section_data) :
    /\ \A i \in c..(e - 1) : ByteAt(i) = Stuffing
    /\ e < Len(section_data) => ByteAt(e) # Stuffing

(* A round of the loop: the section at consumed_bytes is handed on, and the padding *)
(* behind it skipped.                                                               *)
HandOn ==
  /\ parsing
  /\ Available >= HeaderLength
  /\ \E length \in section_length(consumed) :
       LET begin        == consumed + HeaderLength + ExtLength
           payload_size == AsSize(length - ExtLength)
       IN  /\ Complete(length)
           /\ handed' = Append(handed,
                [from |-> IF begin < Len(section_data) THEN ByteAt(begin) ELSE Stuffing,
                 size |-> payload_size])
           /\ consumed' = skip_padding_bytes(AsSize(begin + payload_size))
  /\ UNCHANGED <<sections, arrived, section_data, parsing>>

(* There is no header, or less than a section. *)
Incomplete == \/ Available < HeaderLength
              \/ /\ Available >= HeaderLength
                 /\ \E length \in section_length(consumed) : ~Complete(length)

Slip_Erase == /\ section_data' = SubSeq(section_data, consumed + 1, Len(section_data))
              /\ UNCHANGED consumed

(* What was consumed is erased. *)
Erase == /\ section_data' = SubSeq(section_data, consumed + 1, Len(section_data))
         /\ consumed' = 0

(* The loop ends. *)
EndPut == /\ parsing
          /\ Incomplete
          /\ Erase
          /\ parsing' = FALSE
          /\ UNCHANGED <<sections, arrived, handed>>
-----------------------------------------------------------------------------
(* The demuxer puts the packets of the PID in the order of the stream. *)
Receive(k, m) == /\ MaySend(k, m)
                 /\ Put(Packet(k, m))
                 /\ arrived' = arrived + k
                 /\ UNCHANGED <<sections, handed>>

Next == \/ \E k, m \in 0..MaxPayload : Receive(k, m)
        \/ HandOn
        \/ EndPut

Spec == Init /\ [][Next]_vars

(* put() runs to its end, and packets that carry section bytes keep coming, though *)
(* empty ones may come between them.                                               *)
FairSpec == /\ Spec
            /\ SF_vars(\E k \in 1..MaxPayload, m \in 0..MaxPayload : Receive(k, m))
            /\ WF_vars(HandOn)
            /\ WF_vars(EndPut)

(* A parser created, or a recording begun, while a section is on its way: the first *)
(* bytes of the stream went by before.                                             *)
JoinSpec == /\ sections \in Streams
            /\ arrived \in 0..StreamLength
            /\ section_data = <<>>
            /\ consumed = 0
            /\ parsing = FALSE
            /\ handed = <<>>
            /\ [][Next]_vars
-----------------------------------------------------------------------------
Bytes == Pointer..StreamLength

(* Every variable has its type, and consumed_bytes stays inside section_data. *)
TypeOK ==
  /\ sections \in Streams
  /\ arrived \in 0..StreamLength
  /\ section_data \in Seq(Bytes)
  /\ consumed \in 0..Len(section_data)
  /\ parsing \in BOOLEAN
  /\ handed \in Seq([from : Bytes, size : 0..(SizeModulus - 1)])

(* parser_psi.cpp:9-14, 28-36: what is left of section_data is what has arrived of the *)
(* sections not handed on, in order.  Stuffing follows it only inside put(), and only   *)
(* behind the end of a section, so the next header is always read where a section is.   *)
RestInOrder ==
  LET partial == arrived - Promise!HandedEnd
  IN  /\ Promise!HandedEnd = 0 \/ Promise!HandedEnd \in {sections[h] : h \in Heads}
      /\ Available >= partial
      /\ \A i \in 0..(Available - 1) :
           ByteAt(consumed + i) = IF i < partial THEN Promise!HandedEnd + 1 + i ELSE Stuffing
      /\ Available > partial => parsing /\ arrived \in {sections[h] : h \in Heads}

(* parser_psi.h:11-13, "accumulate complete section payload": what on_payload is given *)
(* is the payload of one section.                                                      *)
CompleteSections ==
  \A k \in DOMAIN handed : \E h \in Heads : handed[k] = Promise!Payload(h)

(* parser_psi.h:11-13, parser_psi.cpp:17-36: between two packets, on_payload has been called *)
(* for the sections that have arrived whole and for nothing else, in the order of the        *)
(* stream, never twice for one.                                                              *)
HandedSoFar ==
  /\ ~parsing => {handed[k] : k \in DOMAIN handed}
                   = {Promise!Payload(h) : h \in {g \in Heads : sections[g] <= arrived}}
  /\ \A j, k \in DOMAIN handed : j < k => handed[j].from < handed[k].from

(* parser_psi.cpp:17-36: the loop of put() ends.  A round that another follows consumes at *)
(* least a header and never more than there is, whatever the lengths in the headers say.   *)
RoundsAdvance ==
  [][parsing /\ parsing' =>
       consumed' \in (consumed + HeaderLength)..Len(section_data)]_vars

(* parser_psi.h:11-13: the calls of on_payload are those that PsiSections allows. *)
SectionsSpec == Promise!Spec

(* parser_psi.cpp:17-36: every section reaches the table parser in the end. *)
EverySectionHanded == <>[](Promise!HandedEnd = StreamLength)
=============================================================================
