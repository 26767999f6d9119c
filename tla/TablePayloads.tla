---------------------------- MODULE TablePayloads ----------------------------
(***************************************************************************)
(* parse_pat_payload and parse_pmt_payload (src/parser_pat.cpp,              *)
(* src/parser_pmt.cpp): the loops over the entries of a table.  They are     *)
(* given what parser_psi_t makes of section_length, which may be damaged,     *)
(* and trust the lengths that the table announces.                            *)
(*                                                                           *)
(* A section is known by the entries that lie in it, at their offsets in its  *)
(* payload; whatever else is read as an entry may turn out to be any entry.   *)
(***************************************************************************)
EXTENDS Integers

CONSTANTS Inputs,        \* the sections parsed
          Pids, Values,  \* the two fields of an entry; program numbers or stream types
          Infos,         \* the values of program_info_length and es_info_length
          ExtLength,     \* header bytes counted by section_length: 5
          CrcLength,     \* 4
          PatEntry,      \* bytes of an entry of the PAT: 4
          PmtHeader,     \* bytes of a PMT up to program_info_length: 4
          PmtEntry,      \* bytes of an entry of the PMT up to es_info_length: 5
          SizeModulus    \* size_t wraps here: 2^64

Entries == [pid : Pids, value : Values, info : Infos]

IsInput(s) == /\ s.kind \in {"pat", "pmt"}
              /\ s.length \in 0..(SizeModulus - ExtLength - CrcLength - 1)
              /\ s.program_info \in Infos
              /\ DOMAIN s.table \subseteq Nat
              /\ \A h \in DOMAIN s.table : s.table[h] \in Entries

ASSUME TablesAssumption ==
  /\ Infos \subseteq Nat
  /\ {ExtLength, CrcLength, PatEntry, PmtHeader, PmtEntry, SizeModulus} \subseteq Nat \ {0}
  /\ PatEntry <= CrcLength + 1 /\ PmtEntry <= CrcLength + 1 /\ PmtHeader <= CrcLength
  /\ \A s \in Inputs : IsInput(s)

VARIABLES section,    \* the section: kind, section_length, program_info_length, table
          position,   \* the local variable of the loop
          result,     \* the map that is filled, from PIDs to values
          phase,      \* "header", "entries" or "returned"
          overread    \* whether a byte behind the section was read

vars == <<section, position, result, phase, overread>>

AsSize(n) == IF n < 0 THEN n + SizeModulus ELSE n

Empty == [p \in {} |-> 0]

Init == /\ section \in Inputs
        /\ position = 0
        /\ result = Empty
        /\ phase = IF section.kind = "pmt" THEN "header" ELSE "entries"
        /\ overread = FALSE
-----------------------------------------------------------------------------
(* What parser_psi_t::put passes on as "available". *)
payload_size == AsSize(section.length - ExtLength)

(* A definition named Slip_X is the next definition with one plausible mistake in   *)
(* it: a property is worth checking when it tells the two apart.                     *)
Slip_limit == payload_size

(* The bound of the loop. *)
limit == AsSize(payload_size - CrcLength)

EntrySize == IF section.kind = "pat" THEN PatEntry ELSE PmtEntry

(* A read of n bytes at an offset leaves the section. *)
Outside(from, n) == from + n > section.length - ExtLength

(* What the bytes at an offset may be taken for; an entry of the PAT has no info. *)
EntriesAt(from) ==
  IF from \in DOMAIN section.table THEN {section.table[from]}
  ELSE {e \in Entries : section.kind = "pmt" \/ e.info = 0}

Slip_Behind(from, e) == IF section.kind = "pat" THEN from + EntrySize ELSE e.info

(* The offset behind entry e: the descriptors of a track are skipped unread. *)
Behind(from, e) == from + EntrySize + (IF section.kind = "pat" THEN 0 ELSE e.info)

Slip_emplaceSwaps(map, pid, value) ==
  [p \in DOMAIN map \cup {value} |-> IF p \in DOMAIN map THEN map[p] ELSE pid]

Slip_emplaceOverwrites(map, pid, value) ==
  [p \in DOMAIN map \cup {pid} |-> IF p = pid THEN value ELSE map[p]]

(* std::map::emplace: the entry that is there already stays. *)
emplace(map, pid, value) ==
  [p \in DOMAIN map \cup {pid} |-> IF p \in DOMAIN map THEN map[p] ELSE value]

(* parser_pmt.cpp:14-23: up to the first track. *)
Header ==
  /\ phase = "header"
  /\ position' = PmtHeader + section.program_info
  /\ phase' = "entries"
  /\ overread' = Outside(0, PmtHeader)
  /\ UNCHANGED <<section, result>>

(* A round of either loop. *)
Entry ==
  /\ phase = "entries"
  /\ ~overread
  /\ position < limit
  /\ \E e \in EntriesAt(position) : /\ position' = Behind(position, e)
                                    /\ result' = emplace(result, e.pid, e.value)
  /\ overread' = Outside(position, EntrySize)
  /\ UNCHANGED <<section, phase>>

Return ==
  /\ phase = "entries"
  /\ ~overread
  /\ position >= limit
  /\ phase' = "returned"
  /\ UNCHANGED <<section, position, result, overread>>

(* Behind a byte that does not belong to the section nothing is claimed. *)
Next == Header \/ Entry \/ Return

Spec == Init /\ [][Next]_vars

(* The call is not interrupted. *)
FairSpec == Spec /\ WF_vars(Next)
-----------------------------------------------------------------------------
(* Every variable has its type: the result maps PIDs to values. *)
TypeOK ==
  /\ IsInput(section)
  /\ position \in Nat
  /\ DOMAIN result \subseteq Pids /\ \A p \in DOMAIN result : result[p] \in Values
  /\ phase \in {"header", "entries", "returned"}
  /\ overread \in BOOLEAN

(* parser_pat.cpp:17, parser_pmt.cpp:22 and 29: no byte behind the section is read,     *)
(* whatever the descriptor lengths announce, unless section_length leaves no room for   *)
(* the extended header and the CRC (then "available - crc_length" wraps).               *)
ReadsInside == overread => section.length < ExtLength + CrcLength

(* The offsets of the first entry and of the CRC. *)
First == IF section.kind = "pmt" THEN PmtHeader + section.program_info ELSE 0
End   == section.length - ExtLength - CrcLength

Offsets == DOMAIN section.table

(* The entries of the table fill the section from its first entry to its CRC. *)
IsWellFormed ==
  /\ First \in Offsets \cup {End}
  /\ \A h \in Offsets : /\ h \in First..(End - 1)
                        /\ Behind(h, section.table[h]) \in Offsets \cup {End}
                        /\ \A g \in Offsets : g > h => g >= Behind(h, section.table[h])

(* parser_pat.cpp:11-28, parser_pmt.cpp:13-48: of a well-formed table every PID listed  *)
(* is in the map and no other (no descriptor and no CRC is taken for an entry), with    *)
(* what the first entry that lists it says.                                             *)
TableAsListed ==
  IsWellFormed /\ phase = "returned" =>
    /\ DOMAIN result = {section.table[h].pid : h \in Offsets}
    /\ \A h \in Offsets :
         (\A g \in Offsets : section.table[g].pid = section.table[h].pid => g >= h)
           => result[section.table[h].pid] = section.table[h].value

(* The loops end, descriptors of no length included. *)
ParseEnds == <>(phase = "returned" \/ overread)
=============================================================================
