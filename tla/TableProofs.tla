----------------------------- MODULE TableProofs -----------------------------
(***************************************************************************)
(* The loops over the entries of PAT and PMT, for tables of any size and     *)
(* sections of any length.                                                   *)
(***************************************************************************)
EXTENDS TablePayloads, TLAPS

USE TablesAssumption

(* An entry that no entry before it lists the PID of. *)
IsFirst(h) == \A g \in Offsets : section.table[g].pid = section.table[h].pid => g >= h

(* The map is that of the entries the loop has passed, and it stands at the next one. *)
PassedAreListed ==
  /\ position \in Offsets \cup {End}
  /\ \A p : p \in DOMAIN result <=>
              \E h \in Offsets : h < position /\ section.table[h].pid = p
  /\ \A h \in Offsets : h < position /\ IsFirst(h) =>
       result[section.table[h].pid] = section.table[h].value

(* TableAsListed is not inductive: it takes what holds between two rounds of the loop. *)
IInv == /\ TypeOK
        /\ ReadsInside
        /\ phase = "header" => section.kind = "pmt" /\ result = Empty
        /\ phase = "returned" => position >= limit
        /\ IsWellFormed /\ phase # "header" => PassedAreListed

LEMMA SectionFacts ==
  ASSUME TypeOK
  PROVE  /\ section.length \in Nat /\ section.program_info \in Nat
         /\ section.kind \in {"pat", "pmt"}
         /\ Offsets \subseteq Nat
         /\ EntrySize \in Nat /\ EntrySize > 0 /\ EntrySize <= CrcLength + 1
         /\ limit \in Nat /\ End \in Int /\ First \in Nat
         /\ section.length >= ExtLength + CrcLength => limit = End
         /\ IsWellFormed => End >= First /\ section.length >= ExtLength + CrcLength
<1>1. /\ section.length \in 0..(SizeModulus - ExtLength - CrcLength - 1)
      /\ section.program_info \in Nat /\ section.kind \in {"pat", "pmt"}
      /\ Offsets \subseteq Nat
  BY DEF TypeOK, IsInput, Offsets
<1>2. EntrySize \in Nat /\ EntrySize > 0 /\ EntrySize <= CrcLength + 1
  BY DEF EntrySize
<1>3. limit \in Nat /\ (section.length >= ExtLength + CrcLength => limit = End)
  BY <1>1 DEF limit, payload_size, AsSize, End
<1>4. End \in Int /\ First \in Nat
  BY <1>1 DEF End, First
<1>5. IsWellFormed => End >= First
  BY <1>4 DEF IsWellFormed
<1>6. QED
  BY <1>1, <1>2, <1>3, <1>4, <1>5 DEF End

(* What may be read at an offset, and where the next entry is looked for. *)
LEMMA EntryFacts ==
  ASSUME TypeOK, NEW from \in Nat, NEW e \in EntriesAt(from)
  PROVE  e \in Entries /\ Behind(from, e) \in Nat
<1>1. e \in Entries
  BY DEF EntriesAt, TypeOK, IsInput
<1>2. EntrySize \in Nat /\ e.info \in Nat
  BY <1>1, SectionFacts DEF Entries
<1>3. QED
  BY <1>1, <1>2 DEF Behind

LEMMA HeaderIInv == IInv /\ Header => IInv'
<1>1. SUFFICES ASSUME IInv, Header PROVE IInv'
  OBVIOUS
<1>2. /\ section' = section /\ result' = result /\ result = Empty /\ phase' = "entries"
      /\ section.kind = "pmt" /\ position' = First
      /\ overread' = (PmtHeader > section.length - ExtLength)
  BY <1>1, SectionFacts DEF IInv, Header, First, Outside
<1>3. First \in Nat /\ section.length \in Nat
  BY <1>1, SectionFacts DEF IInv
<1>4. TypeOK' /\ ReadsInside'
  BY <1>1, <1>2, <1>3 DEF IInv, TypeOK, ReadsInside, IsInput, Entries
<1>5. IsWellFormed' => PassedAreListed'
  <2>1. SUFFICES ASSUME IsWellFormed PROVE PassedAreListed'
    BY <1>2 DEF IsWellFormed, Behind, EntrySize, Offsets, First, End
  <2>2. First \in Offsets \cup {End} /\ \A h \in Offsets : ~(h < First)
    <3>1. \A h \in Offsets : h \in First..(End - 1)
      BY <2>1 DEF IsWellFormed
    <3>2. First \in Offsets \cup {End}
      BY <2>1 DEF IsWellFormed
    <3>3. QED
      BY <1>3, <3>1, <3>2
  <2>3. \A p : p \notin DOMAIN result
    BY <1>2 DEF Empty
  <2>4. QED
    BY <1>2, <2>2, <2>3 DEF PassedAreListed, Offsets, End
<1>6. QED
  BY <1>2, <1>4, <1>5 DEF IInv

LEMMA EntryIInv == IInv /\ Entry => IInv'
<1>1. SUFFICES ASSUME IInv, Entry PROVE IInv'
  OBVIOUS
<1>2. /\ TypeOK /\ position \in Nat
      /\ phase = "entries" /\ phase' = "entries" /\ section' = section /\ position < limit
      /\ overread' = (position + EntrySize > section.length - ExtLength)
  BY <1>1 DEF IInv, Entry, TypeOK, Outside
<1>3. PICK e \in EntriesAt(position) : /\ position' = Behind(position, e)
                                       /\ result' = emplace(result, e.pid, e.value)
  BY <1>1 DEF Entry
<1>4. e \in Entries /\ Behind(position, e) \in Nat
  BY <1>2, EntryFacts
<1>5. /\ DOMAIN result' = DOMAIN result \cup {e.pid}
      /\ \A p \in DOMAIN result : result'[p] = result[p]
      /\ e.pid \notin DOMAIN result => result'[e.pid] = e.value
  BY <1>3 DEF emplace
<1>6. TypeOK'
  <2>1. DOMAIN result' \subseteq Pids /\ \A p \in DOMAIN result' : result'[p] \in Values
    BY <1>2, <1>4, <1>5 DEF TypeOK, Entries
  <2>2. QED
    BY <1>2, <1>3, <1>4, <2>1 DEF TypeOK, IsInput, Entries
<1>7. ReadsInside'
  <2>1. SUFFICES ASSUME section.length >= ExtLength + CrcLength
                 PROVE  ~(position + EntrySize > section.length - ExtLength)
    <3>1. section.length \in Nat
      BY <1>2, SectionFacts
    <3>2. section.length < ExtLength + CrcLength \/ section.length >= ExtLength + CrcLength
      BY <3>1
    <3>3. QED
      BY <1>2, <3>2 DEF ReadsInside
  <2>2. position < End
    BY <1>2, <2>1, SectionFacts
  <2>3. QED
    BY <1>2, <2>1, <2>2, SectionFacts DEF End
<1>8. IsWellFormed' => PassedAreListed'
  <2>1. SUFFICES ASSUME IsWellFormed PROVE PassedAreListed'
    BY <1>2 DEF IsWellFormed, Behind, EntrySize, Offsets, First, End
  <2>2. PassedAreListed
    BY <1>1, <1>2, <2>1 DEF IInv
  <2>3. position \in Offsets
    <3>1. limit = End
      BY <1>2, <2>1, SectionFacts
    <3>2. QED
      BY <1>2, <2>2, <3>1 DEF PassedAreListed
  <2>4. e = section.table[position]
    BY <2>3 DEF EntriesAt, Offsets
  <2>5. PICK q \in Nat : q = position'
    BY <1>3, <1>4
  <2>6. /\ q \in Offsets \cup {End} /\ q > position
        /\ \A g \in Offsets : g > position => g >= q
    <3>1. Behind(position, e) > position
      <4>1. EntrySize \in Nat /\ EntrySize > 0 /\ e.info \in Nat
        BY <1>2, <1>4, SectionFacts DEF Entries
      <4>2. QED
        BY <1>2, <4>1 DEF Behind
    <3>2. QED
      BY <1>3, <2>1, <2>3, <2>4, <2>5, <3>1 DEF IsWellFormed
  <2>7. \A h \in Offsets : h < q <=> h < position \/ h = position
    <3>1. Offsets \subseteq Nat
      BY <1>2, SectionFacts
    <3>2. QED
      BY <1>2, <2>5, <2>6, <3>1
  <2>8. \A p : p \in DOMAIN result' <=> \E h \in Offsets : h < q /\ section.table[h].pid = p
    BY <1>5, <2>2, <2>3, <2>4, <2>7 DEF PassedAreListed
  <2>9. ASSUME NEW h \in Offsets, h < q, IsFirst(h)
        PROVE  result'[section.table[h].pid] = section.table[h].value
    <3>1. CASE h < position
      <4>1. section.table[h].pid \in DOMAIN result
        BY <2>2, <3>1 DEF PassedAreListed
      <4>2. QED
        BY <1>5, <2>2, <2>9, <3>1, <4>1 DEF PassedAreListed
    <3>2. CASE h = position
      <4>1. e.pid \notin DOMAIN result
        <5>1. SUFFICES ASSUME NEW g \in Offsets, g < position, section.table[g].pid = e.pid
                       PROVE  FALSE
          BY <2>2 DEF PassedAreListed
        <5>2. g \in Nat /\ g >= h
          BY <1>2, <2>4, <2>9, <3>2, <5>1, SectionFacts DEF IsFirst
        <5>3. QED
          BY <1>2, <3>2, <5>1, <5>2
      <4>2. QED
        BY <1>5, <2>4, <3>2, <4>1
    <3>3. QED
      BY <2>7, <2>9, <3>1, <3>2
  <2>10. QED
    BY <1>2, <2>5, <2>6, <2>8, <2>9 DEF PassedAreListed, Offsets, End, IsFirst
<1>9. QED
  BY <1>2, <1>6, <1>7, <1>8 DEF IInv

LEMMA ReturnIInv == IInv /\ Return => IInv'
  BY DEF IInv, Return, TypeOK, IsInput, Entries, ReadsInside, IsWellFormed, PassedAreListed,
     Offsets, First, End, Behind, EntrySize, IsFirst, limit, payload_size, AsSize

LEMMA StutterIInv == IInv /\ UNCHANGED vars => IInv'
  BY DEF IInv, vars, TypeOK, IsInput, Entries, ReadsInside, IsWellFormed, PassedAreListed,
     Offsets, First, End, Behind, EntrySize, IsFirst, limit, payload_size, AsSize

LEMMA InitIInv == Init => IInv
<1>1. SUFFICES ASSUME Init PROVE IInv
  OBVIOUS
<1>2. /\ position = 0 /\ overread = FALSE /\ IsInput(section)
      /\ result = Empty /\ DOMAIN result = {}
      /\ phase = IF section.kind = "pmt" THEN "header" ELSE "entries"
  BY <1>1 DEF Init, Empty
<1>3. TypeOK
  BY <1>2 DEF TypeOK
<1>4. ASSUME IsWellFormed, phase # "header" PROVE PassedAreListed
  <2>1. First = 0
    BY <1>2, <1>4 DEF First
  <2>2. \A h \in Offsets : ~(h < 0)
    BY <1>3, SectionFacts
  <2>3. QED
    BY <1>2, <1>4, <2>1, <2>2 DEF IsWellFormed, PassedAreListed
<1>5. QED
  BY <1>2, <1>3, <1>4 DEF IInv, ReadsInside

(* The invariant of the loops holds in every reachable state. *)
THEOREM Inductive == Spec => []IInv
<1>1. Init => IInv
  BY InitIInv
<1>2. IInv /\ [Next]_vars => IInv'
  BY HeaderIInv, EntryIInv, ReturnIInv, StutterIInv DEF Next
<1>3. QED
  BY <1>1, <1>2, PTL DEF Spec

(* parser_pat.cpp:24, parser_pmt.cpp:44: whatever is read, the map is one from PIDs. *)
THEOREM TypeCorrect == Spec => []TypeOK
<1>1. IInv => TypeOK
  BY DEF IInv
<1>2. QED
  BY <1>1, Inductive, PTL

(* parser_pat.cpp:17, parser_pmt.cpp:29: whatever the lengths in a table announce, no byte *)
(* behind the section is read, unless section_length itself is too small.                  *)
THEOREM LoopsReadInside == Spec => []ReadsInside
<1>1. IInv => ReadsInside
  BY DEF IInv
<1>2. QED
  BY <1>1, Inductive, PTL

(* parser_pat.cpp:11-28, parser_pmt.cpp:13-48: a well-formed table of any size is read *)
(* entry by entry and the first listing of a PID counts.                               *)
THEOREM TablesAreRead == Spec => []TableAsListed
<1>1. IInv => TableAsListed
  <2>1. SUFFICES ASSUME IInv, IsWellFormed, phase = "returned"
                 PROVE  /\ DOMAIN result = {section.table[h].pid : h \in Offsets}
                        /\ \A h \in Offsets : IsFirst(h) =>
                             result[section.table[h].pid] = section.table[h].value
    BY DEF TableAsListed, IsFirst
  <2>2. PassedAreListed /\ position >= End /\ position \in Nat
    BY <2>1, SectionFacts DEF IInv, TypeOK
  <2>3. \A h \in Offsets : h < position
    BY <2>1, <2>2, SectionFacts DEF IInv, IsWellFormed
  <2>4. \A p : p \in DOMAIN result <=> \E h \in Offsets : section.table[h].pid = p
    BY <2>2, <2>3 DEF PassedAreListed
  <2>5. DOMAIN result = {section.table[h].pid : h \in Offsets}
    BY <2>4
  <2>6. QED
    BY <2>2, <2>3, <2>5 DEF PassedAreListed
<1>2. QED
  BY <1>1, Inductive, PTL
=============================================================================
