--------------------------- MODULE MCTablePayloads ---------------------------
(* TablePayloads on all tables of up to three entries, and on sections of every *)
(* length of which nothing is known.                                            *)
EXTENDS TablePayloads, Sequences

CONSTANTS MaxEntries, MaxLength

EntrySeqs(kind) ==
  UNION {[1..n -> {e \in Entries : kind = "pmt" \/ e.info = 0}] : n \in 0..MaxEntries}

(* The section of a kind that holds a sequence of entries. *)
SectionOf(kind, program_info, entries) ==
  LET size     == IF kind = "pat" THEN PatEntry ELSE PmtEntry
      offset[k \in 1..(Len(entries) + 1)] ==
        IF k = 1 THEN (IF kind = "pat" THEN 0 ELSE PmtHeader + program_info)
        ELSE offset[k - 1] + size + entries[k - 1].info
  IN  [kind |-> kind,
       length |-> ExtLength + offset[Len(entries) + 1] + CrcLength,
       program_info |-> program_info,
       table |-> [h \in {offset[k] : k \in 1..Len(entries)} |->
                    entries[CHOOSE k \in 1..Len(entries) : offset[k] = h]]]

MCInputs ==
  {SectionOf("pat", 0, s) : s \in EntrySeqs("pat")} \cup
  {SectionOf("pmt", i, s) : i \in Infos, s \in EntrySeqs("pmt")} \cup
  [kind : {"pat", "pmt"}, length : 0..MaxLength, program_info : Infos, table : {Empty}]
=============================================================================
