----------------------------- MODULE TrackProofs -----------------------------
(***************************************************************************)
(* Which tracks the program extracts, for every input whose sections are cut  *)
(* cleanly: which PIDs are registered, what the PSI parsers have collected,    *)
(* and how many packets a consumer was given, told from the input alone.       *)
(***************************************************************************)
EXTENDS SandstreamProofs, LeastNumbers, FiniteSetTheorems

USE DemuxerAssumption, SandstreamAssumption

(* What the parser has collected behind packet k of a section, none missing. *)
Behind(k) == IF k.part = k.parts THEN Idle ELSE Within(k)

(* The parser of a PSI PID is registered when the input has named the PID. *)
Registered(q) ==
  /\ Kind(q) \in (IF q = PatPid THEN {"pat"} ELSE {"none", "pmt"})
  /\ Kind(q) = "none" => packet_streams[q] = None
  /\ Kind(q) # "none" <=> Expected(q, Len(input) + 1)

(* What it has collected is told by the last packet that it was given. *)
Collects(q) ==
  /\ Seen(q) = {} => section_data[q] = Idle
  /\ \A m \in Seen(q) :
       /\ input[m].part > 0
       /\ (\A j \in Seen(q) : j <= m) => section_data[q] = Behind(input[m])

(* The packets of p behind the a-th packet of the input. *)
After(p, a) == {i \in DOMAIN input : input[i].pid = p /\ i > a}

(* A track has a consumer from the first packet on that completes its announcement. *)
Extracted(p) ==
  /\ Kind(p) \in {"none", "pes"}
  /\ Kind(p) = "none" => packet_streams[p] = None
  /\ Kind(p) = "pes" <=> Announcing(p) # {}
  /\ Kind(p) = "pes" =>
       \E a \in Announcing(p) :
         /\ \A b \in Announcing(p) : a <= b
         /\ sent[p] - consumers[p].since = Cardinality(After(p, a))

AllCut     == \A q \in PsiPids : IsCut(q)
TrackFacts == /\ \A q \in PsiPids : Registered(q) /\ Collects(q)
              /\ \A p \in Pids \ PsiPids : Extracted(p)
ExtractInv == RolesApart /\ AllCut => TrackFacts

LEMMA PsiPidsType == PsiPids \subseteq Pids /\ PatPid \in PsiPids
BY DEF PsiPids

(* Packet k is taken, the n + 1-st. *)
Taken(k, n) ==
  /\ n \in Nat /\ k \in Packets /\ IsPacket(k)
  /\ Len(input) = n /\ DOMAIN input = 1..n
  /\ Len(input') = n + 1 /\ DOMAIN input' = 1..(n + 1)
  /\ input'[n + 1] = k
  /\ \A i \in 1..n : input'[i] = input[i] /\ input[i] \in Packets /\ IsPacket(input[i])

LEMMA TakeTakes ==
  ASSUME Accounted, NEW k \in Packets, Take(k)
  PROVE  Taken(k, Len(input))
<1>1. input \in Seq(Packets) /\ input' = Append(input, k)
  BY DEF Accounted, Take
<1>2. Len(input) \in Nat /\ DOMAIN input = 1..Len(input)
      /\ \A i \in 1..Len(input) : input[i] \in Packets
  BY <1>1
<1>3. /\ Len(input') = Len(input) + 1 /\ DOMAIN input' = 1..(Len(input) + 1)
      /\ input'[Len(input) + 1] = k
      /\ \A i \in 1..Len(input) : input'[i] = input[i]
  BY <1>1
<1>4. \A x \in Packets : IsPacket(x)
  OBVIOUS
<1>5. QED
  BY <1>2, <1>3, <1>4 DEF Taken

(* Packet k completes a section of its PID. *)
Ends(k) == k.part > 0 /\ k.part = k.parts

(* Which parsers are there at a packet is settled by the packets before it. *)
LEMMA ExpectedGrows ==
  ASSUME NEW k, NEW n, Taken(k, n), NEW q
  PROVE  /\ \A i \in 1..(n + 1) : Expected(q, i)' <=> Expected(q, i)
         /\ Expected(q, n + 2)' <=> \/ Expected(q, n + 1)
                                    \/ k.pid = PatPid /\ Ends(k) /\ q \in DOMAIN k.table
         /\ \A i \in 1..n : Expected(q, i) => Expected(q, n + 1)
<1>1. \A i \in 1..n : EndsSection(PatPid, i)' <=> EndsSection(PatPid, i)
  BY DEF Taken, EndsSection
<1>2. EndsSection(PatPid, n + 1)' <=> k.pid = PatPid /\ Ends(k)
  BY DEF Taken, EndsSection, Ends
<1>3. \A j \in 1..n : /\ EndsSection(PatPid, j)' <=> EndsSection(PatPid, j)
                      /\ input'[j].table = input[j].table
  BY <1>1 DEF Taken
<1>4. \A i \in 1..(n + 1) : Expected(q, i)' <=> Expected(q, i)
  <2>1. SUFFICES ASSUME NEW i \in 1..(n + 1) PROVE Expected(q, i)' <=> Expected(q, i)
    OBVIOUS
  <2>2. \A j \in 1..(i - 1) : j \in 1..n
    BY DEF Taken
  <2>3. QED
    BY <1>3, <2>2 DEF Expected
<1>5. Expected(q, n + 2)' <=> \/ Expected(q, n + 1)
                              \/ k.pid = PatPid /\ Ends(k) /\ q \in DOMAIN k.table
  <2>1. n \in Nat /\ n + 1 - 1 = n /\ n + 2 - 1 = n + 1
    BY DEF Taken
  <2>2. \A j : j \in 1..(n + 1) <=> j \in 1..n \/ j = n + 1
    BY <2>1
  <2>3. input'[n + 1].table = k.table
    BY DEF Taken
  <2>4. Expected(q, n + 1) <=>
          q = PatPid \/ \E j \in 1..n : EndsSection(PatPid, j) /\ q \in DOMAIN input[j].table
    BY <2>1 DEF Expected
  <2>5. Expected(q, n + 2)' <=>
          q = PatPid \/ \E j : /\ j \in 1..n \/ j = n + 1
                               /\ EndsSection(PatPid, j)' /\ q \in DOMAIN input'[j].table
    BY <2>1, <2>2 DEF Expected
  <2>6. QED
    BY <1>2, <1>3, <2>3, <2>4, <2>5
<1>6. ASSUME NEW i \in 1..n, Expected(q, i) PROVE Expected(q, n + 1)
  <2>1. CASE q = PatPid
    BY <2>1 DEF Expected
  <2>2. ASSUME NEW j \in 1..(i - 1), EndsSection(PatPid, j), q \in DOMAIN input[j].table
        PROVE  Expected(q, n + 1)
    <3>1. n \in Nat
      BY DEF Taken
    <3>2. QED
      BY <2>2, <3>1 DEF Expected
  <2>3. QED
    BY <1>6, <2>1, <2>2 DEF Expected
<1>7. QED
  BY <1>4, <1>5, <1>6

LEMMA SeenGrows ==
  ASSUME NEW k, NEW n, Taken(k, n), NEW q
  PROVE  /\ Seen(q) \subseteq 1..n
         /\ Seen(q)' = IF k.pid = q /\ Expected(q, n + 1) THEN Seen(q) \cup {n + 1} ELSE Seen(q)
<1>1. \A i : i \in 1..(n + 1) <=> i \in 1..n \/ i = n + 1
  BY DEF Taken
<1>2. Seen(q) \subseteq 1..n
  BY DEF Seen, Taken
<1>3. ASSUME NEW i \in 1..n PROVE i \in Seen(q)' <=> i \in Seen(q)
  BY <1>1, ExpectedGrows DEF Seen, Taken
<1>4. n + 1 \in Seen(q)' <=> k.pid = q /\ Expected(q, n + 1)
  BY <1>1, ExpectedGrows DEF Seen, Taken
<1>5. Seen(q)' \subseteq 1..(n + 1)
  BY DEF Seen, Taken
<1>6. QED
  BY <1>1, <1>2, <1>3, <1>4, <1>5

(* The sections were cut cleanly if they are with packet k, and k goes on where they ended. *)
LEMMA CutGrows ==
  ASSUME NEW k, NEW n, Taken(k, n), NEW q, IsCut(q)'
  PROVE  /\ IsCut(q)
         /\ k.pid = q /\ Expected(q, n + 1) =>
              LET last == input[Max(Seen(q))]
              IN  IF Seen(q) = {} \/ last.part = last.parts THEN k.part = 1
                  ELSE k.part = last.part + 1 /\ k.table = last.table
<1> DEFINE Before(i) == {j \in Seen(q) : j < i}
<1>1. Seen(q) \subseteq 1..n /\ n \in Nat /\ input'[n + 1] = k
      /\ \A i \in 1..n : input'[i] = input[i]
  BY SeenGrows DEF Taken
<1>2. ASSUME NEW i \in 1..(n + 1) PROVE {j \in Seen(q)' : j < i} = Before(i)
  <2>1. Seen(q)' \in {Seen(q), Seen(q) \cup {n + 1}}
    BY SeenGrows
  <2>2. ~(n + 1 < i)
    BY <1>1
  <2>3. QED
    BY <2>1, <2>2
<1>3. ASSUME NEW i \in 1..(n + 1), i \in Seen(q)'
      PROVE  LET last == input[Max(Before(i))]
             IN  IF Before(i) = {} \/ last.part = last.parts THEN input'[i].part = 1
                 ELSE input'[i].part = last.part + 1 /\ input'[i].table = last.table
  <2>1. LET last == input'[Max(Before(i))]
        IN  IF Before(i) = {} \/ last.part = last.parts THEN input'[i].part = 1
            ELSE input'[i].part = last.part + 1 /\ input'[i].table = last.table
    BY <1>2, <1>3 DEF IsCut
  <2>2. Before(i) # {} => Max(Before(i)) \in 1..n
    <3>1. Before(i) \subseteq 1..n
      BY <1>1
    <3>2. Before(i) # {} => Max(Before(i)) \in Before(i)
      BY <1>1, <3>1, MaxFacts
    <3>3. QED
      BY <3>1, <3>2
  <2>3. Before(i) # {} => input'[Max(Before(i))] = input[Max(Before(i))]
    BY <1>1, <2>2
  <2>4. QED
    BY <2>1, <2>3
<1>4. IsCut(q)
  <2>1. \A i \in Seen(q) : i \in 1..(n + 1) /\ i \in Seen(q)' /\ input'[i] = input[i]
    BY <1>1, SeenGrows
  <2>2. QED
    BY <1>3, <2>1 DEF IsCut
<1>5. Before(n + 1) = Seen(q)
  BY <1>1
<1>6. k.pid = q /\ Expected(q, n + 1) => n + 1 \in Seen(q)' /\ n + 1 \in 1..(n + 1)
  BY <1>1, SeenGrows
<1> HIDE DEF Before
<1>7. QED
  BY <1>1, <1>3, <1>4, <1>5, <1>6

(* Only a PAT names the PIDs of PMTs. *)
LEMMA ExpectedIsPsi ==
  ASSUME NEW k, NEW n, Taken(k, n), NEW q, NEW i \in 1..(n + 1), Expected(q, i)
  PROVE  q \in PsiPids
<1>1. CASE q = PatPid
  BY <1>1, PsiPidsType
<1>2. ASSUME NEW j \in 1..(i - 1), EndsSection(PatPid, j), q \in DOMAIN input[j].table
      PROVE  q \in PsiPids
  <2>1. j \in 1..n
    BY DEF Taken
  <2>2. input[j].table \in PatTables
    BY <1>2, <2>1 DEF Taken, IsPacket, EndsSection
  <2>3. QED
    BY <1>2, <2>2 DEF PsiPids
<1>3. QED
  BY <1>1, <1>2 DEF Expected

(* A packet that is cut cleanly goes on where its parser is. *)
LEMMA CleanGoesOn ==
  ASSUME NEW k, NEW n, Taken(k, n), Collects(k.pid), Expected(k.pid, n + 1), IsCut(k.pid)'
  PROVE  GoesOn(k) /\ k.part > 0 /\ Collected(k) = Behind(k)
<1> DEFINE q == k.pid
           m == Max(Seen(q))
<1>1. GoesOn(k) /\ k.part > 0
  <2>1. CASE Seen(q) = {}
    <3>1. section_data[q] = Idle /\ k.part = 1
      BY <2>1, CutGrows DEF Collects
    <3>2. QED
      BY <3>1 DEF GoesOn, Idle
  <2>2. CASE Seen(q) # {}
    <3>1. n \in Nat /\ Seen(q) \subseteq 1..n
      BY SeenGrows DEF Taken
    <3>2. m \in Seen(q) /\ \A j \in Seen(q) : j <= m
      BY <2>2, <3>1, MaxFacts
    <3>3. section_data[q] = Behind(input[m]) /\ input[m].part > 0
      BY <3>2 DEF Collects
    <3>4. IF input[m].part = input[m].parts THEN k.part = 1
          ELSE k.part = input[m].part + 1 /\ k.table = input[m].table
      BY <2>2, CutGrows
    <3>5. input[m].part \in Nat
      BY <3>1, <3>2 DEF Taken, IsPacket
    <3> HIDE DEF m
    <3>6. QED
      BY <3>3, <3>4, <3>5 DEF GoesOn, Behind, Idle, Within
  <2>3. QED
    BY <2>1, <2>2
<1>2. QED
  BY <1>1 DEF Collected, Behind

LEMMA CollectsGrows ==
  ASSUME NEW k, NEW n, Taken(k, n), NEW q, Collects(q), IsCut(q)',
         section_data'[q] = IF k.pid = q /\ Expected(q, n + 1) THEN Collected(k)
                            ELSE section_data[q]
  PROVE  Collects(q)'
<1>1. n \in Nat /\ Seen(q) \subseteq 1..n /\ input'[n + 1] = k
      /\ \A i \in 1..n : input'[i] = input[i]
  BY SeenGrows DEF Taken
<1>2. CASE k.pid = q /\ Expected(q, n + 1)
  <2>1. Seen(q)' = Seen(q) \cup {n + 1}
    BY <1>2, SeenGrows
  <2>2. section_data'[q] = Behind(k) /\ k.part > 0
    BY <1>2, CleanGoesOn
  <2>3. ASSUME NEW i \in Seen(q)'
        PROVE  /\ input'[i].part > 0
               /\ (\A j \in Seen(q)' : j <= i) => section_data'[q] = Behind(input'[i])
    <3>1. CASE i = n + 1
      BY <1>1, <2>2, <3>1
    <3>2. CASE i # n + 1
      <4>1. i \in Seen(q) /\ i \in 1..n /\ n + 1 \in Seen(q)' /\ ~(n + 1 <= i)
        BY <1>1, <2>1, <2>3, <3>2
      <4>2. QED
        BY <1>1, <4>1 DEF Collects
    <3>3. QED
      BY <3>1, <3>2
  <2>4. QED
    BY <2>1, <2>3 DEF Collects, Behind, Within, Idle
<1>3. CASE ~(k.pid = q /\ Expected(q, n + 1))
  <2>1. Seen(q)' = Seen(q) /\ section_data'[q] = section_data[q]
    BY <1>3, SeenGrows
  <2>2. \A i \in Seen(q) : input'[i] = input[i]
    BY <1>1
  <2>3. QED
    BY <2>1, <2>2 DEF Collects, Behind, Within, Idle
<1>4. QED
  BY <1>2, <1>3
-----------------------------------------------------------------------------
(* Packet k, the n + 1-st, completes a PMT that announces p. *)
Announces(k, n, p) ==
  k.pid # PatPid /\ Ends(k) /\ Expected(k.pid, n + 1) /\ p \in DOMAIN k.table

LEMMA AnnouncingGrows ==
  ASSUME NEW k, NEW n, Taken(k, n), NEW p
  PROVE  /\ Announcing(p) \subseteq 1..n
         /\ Announcing(p)' = IF Announces(k, n, p) THEN Announcing(p) \cup {n + 1}
                             ELSE Announcing(p)
<1>1. \A i : i \in 1..(n + 1) <=> i \in 1..n \/ i = n + 1
  BY DEF Taken
<1>2. ASSUME NEW i \in 1..n PROVE i \in Announcing(p)' <=> i \in Announcing(p)
  <2>1. input'[i] = input[i] /\ i \in DOMAIN input /\ i \in DOMAIN input'
    BY <1>1 DEF Taken
  <2>2. ASSUME NEW q PROVE /\ EndsSection(q, i)' <=> EndsSection(q, i)
                           /\ Expected(q, i)' <=> Expected(q, i)
    BY <1>1, <2>1, ExpectedGrows DEF EndsSection
  <2>3. QED
    BY <2>1, <2>2 DEF Announcing
<1>3. n + 1 \in Announcing(p)' <=> Announces(k, n, p)
  <2>1. /\ input'[n + 1] = k /\ n + 1 \in DOMAIN input' /\ n + 1 \in 1..(n + 1)
        /\ k.pid \in Pids
    BY DEF Taken, IsPacket
  <2>2. ASSUME NEW q PROVE /\ EndsSection(q, n + 1)' <=> k.pid = q /\ Ends(k)
                           /\ Expected(q, n + 1)' <=> Expected(q, n + 1)
    BY <2>1, ExpectedGrows DEF EndsSection, Ends
  <2>3. QED
    BY <2>1, <2>2 DEF Announcing, Announces
<1>4. Announcing(p)' \subseteq 1..(n + 1) /\ Announcing(p) \subseteq 1..n
  BY DEF Announcing, Taken
<1>5. QED
  BY <1>1, <1>2, <1>3, <1>4

LEMMA AfterGrows ==
  ASSUME NEW k, NEW n, Taken(k, n), NEW p, NEW a \in 1..n
  PROVE  /\ Cardinality(After(p, a)) \in Nat
         /\ Cardinality(After(p, a)') =
              Cardinality(After(p, a)) + (IF k.pid = p THEN 1 ELSE 0)
<1>1. n \in Nat /\ input'[n + 1] = k /\ \A i \in 1..n : input'[i] = input[i]
  BY DEF Taken
<1>2. After(p, a)' = IF k.pid = p THEN After(p, a) \cup {n + 1} ELSE After(p, a)
  <2>1. \A i : i \in 1..(n + 1) <=> i \in 1..n \/ i = n + 1
    BY <1>1
  <2>2. n + 1 > a
    BY <1>1
  <2>3. QED
    BY <1>1, <2>1, <2>2 DEF After, Taken
<1>3. After(p, a) \subseteq 1..n /\ IsFiniteSet(After(p, a)) /\ n + 1 \notin After(p, a)
  <2>1. After(p, a) \subseteq 1..n
    BY DEF After, Taken
  <2>2. IsFiniteSet(1..n)
    BY <1>1, FS_Interval
  <2>3. QED
    BY <1>1, <2>1, <2>2, FS_Subset
<1>4. QED
  <2>1. Cardinality(After(p, a)) \in Nat
    BY <1>3, FS_CardinalityType
  <2>2. Cardinality(After(p, a) \cup {n + 1}) = Cardinality(After(p, a)) + 1
    BY <1>3, FS_AddElement
  <2>3. QED
    BY <1>2, <2>1, <2>2

(* A PID that keeps its parser. *)
LEMMA ExtractedStays ==
  ASSUME NEW k, NEW n, Taken(k, n), NEW p, Extracted(p),
         packet_streams'[p] = packet_streams[p],
         Kind(p) = "none" => ~Announces(k, n, p),
         Kind(p) = "pes" =>
           /\ sent[p] \in Nat /\ consumers[p].since \in Nat
           /\ consumers'[p].since = consumers[p].since
           /\ sent'[p] = sent[p] + (IF k.pid = p THEN 1 ELSE 0)
  PROVE  Extracted(p)'
<1>1. Kind(p)' = Kind(p)
  BY DEF Kind
<1>2. /\ n \in Nat /\ Announcing(p) \subseteq 1..n
      /\ Announcing(p)' = IF Announces(k, n, p) THEN Announcing(p) \cup {n + 1}
                          ELSE Announcing(p)
  BY AnnouncingGrows DEF Taken
<1>3. CASE Kind(p) = "none"
  BY <1>1, <1>2, <1>3 DEF Extracted, None, Parser
<1>4. CASE Kind(p) = "pes"
  <2>1. PICK a \in Announcing(p) : /\ \A b \in Announcing(p) : a <= b
                                   /\ sent[p] - consumers[p].since = Cardinality(After(p, a))
    BY <1>4 DEF Extracted
  <2>2. a \in Announcing(p)' /\ \A b \in Announcing(p)' : a <= b
    BY <1>2, <2>1
  <2>3. sent'[p] - consumers'[p].since = Cardinality(After(p, a)')
    <3>1. /\ Cardinality(After(p, a)) \in Nat
          /\ Cardinality(After(p, a)') =
               Cardinality(After(p, a)) + (IF k.pid = p THEN 1 ELSE 0)
      BY <1>2, <2>1, AfterGrows
    <3>2. QED
      BY <1>4, <2>1, <3>1
  <2>4. QED
    BY <1>1, <1>4, <2>2, <2>3 DEF Extracted
<1>5. QED
  BY <1>3, <1>4 DEF Extracted

(* A PID that is announced, and gets its parser and its consumer. *)
LEMMA ExtractedStarts ==
  ASSUME NEW k, NEW n, Taken(k, n), NEW p, Extracted(p), Kind(p) = "none",
         Announces(k, n, p), Kind(p)' = "pes",
         sent'[p] \in Nat, consumers'[p].since = sent'[p]
  PROVE  Extracted(p)'
<1>1. n \in Nat /\ Announcing(p)' = {n + 1}
  BY AnnouncingGrows DEF Taken, Extracted
<1>2. After(p, n + 1)' = {}
  BY <1>1 DEF After, Taken
<1>3. Cardinality(After(p, n + 1)') = 0
  <2>1. Cardinality({}) = 0
    BY FS_EmptySet
  <2>2. QED
    BY <1>2, <2>1, Zenon
<1>4. sent'[p] - consumers'[p].since = 0
  OBVIOUS
<1>5. QED
  BY <1>1, <1>3, <1>4 DEF Extracted
-----------------------------------------------------------------------------
(* What a step that takes packet k keeps, whatever the parser of its PID does with it: *)
(* each parser is where it was, or was given packet k when there is one for its PID.    *)
Keeps(k, n) ==
  /\ \A q \in PsiPids :
       section_data'[q] = IF k.pid = q /\ Expected(q, n + 1) THEN Collected(k)
                          ELSE section_data[q]
  /\ \A q \in PsiPids : Registered(q)'
  /\ \A p \in Pids \ PsiPids : Extracted(p)'

LEMMA KeepsFacts ==
  ASSUME NEW k, NEW n, Taken(k, n), TrackFacts, AllCut', Keeps(k, n)
  PROVE  TrackFacts'
<1>1. \A q \in PsiPids : Collects(q)'
  BY CollectsGrows DEF TrackFacts, AllCut, Keeps, PsiPids
<1>2. QED
  BY <1>1 DEF TrackFacts, Keeps, PsiPids

(* A PSI PID keeps its parser, or is without one, when no PAT names it. *)
LEMMA RegisteredStays ==
  ASSUME NEW k, NEW n, Taken(k, n), NEW q, Registered(q),
         packet_streams'[q] = packet_streams[q],
         Kind(q) = "none" => ~(k.pid = PatPid /\ Ends(k) /\ q \in DOMAIN k.table)
  PROVE  Registered(q)'
<1>1. Kind(q)' = Kind(q)
  BY DEF Kind
<1>2. Len(input') + 1 = n + 2 /\ Len(input) + 1 = n + 1
  BY DEF Taken
<1>3. Expected(q, n + 2)' <=> Expected(q, n + 1)
  BY <1>2, ExpectedGrows DEF Registered
<1>4. Expected(q, Len(input) + 1)' <=> Expected(q, n + 2)'
  BY <1>2 DEF Expected
<1>5. QED
  BY <1>1, <1>2, <1>3, <1>4 DEF Registered, None

(* A packet for which there is no PSI parser. *)
LEMMA OtherKeeps ==
  ASSUME IInv, TrackFacts, NEW k, NEW n, Taken(k, n),
         TakeUnknown(k) \/ TakeTrack(k) \/ WriteFails(k)
  PROVE  Keeps(k, n)
<1>1. /\ k.pid \in Pids /\ section_data' = section_data /\ packet_streams' = packet_streams
      /\ Kind(k.pid) \in {"none", "pes"}
      /\ \A p \in Pids : /\ consumers'[p].since = consumers[p].since
                         /\ sent'[p] = sent[p] + (IF k.pid = p THEN 1 ELSE 0)
                         /\ sent[p] \in Nat /\ consumers[p].since \in Nat
  <2>1. k.pid \in Pids /\ sent \in [Pids -> 0..MaxPackets]
        /\ \A p \in Pids : sent[p] \in Nat /\ consumers[p].since \in Nat
    BY SMTT(30) DEF Taken, IsPacket, IInv, TypeOK
  <2>2. CASE TakeUnknown(k)
    BY <2>1, <2>2 DEF TakeUnknown, Ignore, Known, None, Parser, Kind
  <2>3. CASE TakeTrack(k) \/ WriteFails(k)
    <3>1. ConsumePes(k.pid) /\ section_data' = section_data
      BY <2>3 DEF TakeTrack, WriteFails
    <3>2. /\ Kind(k.pid) = "pes" /\ packet_streams' = packet_streams
          /\ consumers'[k.pid].since = consumers[k.pid].since /\ sent'[k.pid] = sent[k.pid] + 1
          /\ \A p \in Pids \ {k.pid} : consumers'[p] = consumers[p] /\ sent'[p] = sent[p]
      BY <2>1, <3>1, PesFacts
    <3>3. QED
      BY <2>1, <3>1, <3>2
  <2>4. QED
    BY <2>2, <2>3
<1>2. n + 1 = Len(input) + 1 /\ n + 1 \in 1..(n + 1)
  BY DEF Taken
<1>3. ~Expected(k.pid, n + 1) /\ k.pid # PatPid
  <2>1. Expected(k.pid, n + 1) => k.pid \in PsiPids
    BY <1>2, ExpectedIsPsi
  <2>2. k.pid \in PsiPids => Registered(k.pid)
    BY DEF TrackFacts
  <2>3. Registered(k.pid) => ~Expected(k.pid, n + 1)
    BY <1>1, <1>2 DEF Registered
  <2>4. QED
    BY <2>1, <2>2, <2>3 DEF Expected
<1>4. \A q \in PsiPids : Registered(q)'
  BY <1>1, <1>3, RegisteredStays DEF TrackFacts
<1>5. ASSUME NEW p \in Pids \ PsiPids PROVE Extracted(p)'
  <2>1. Extracted(p) /\ ~Announces(k, n, p)
    BY <1>3 DEF TrackFacts, Announces
  <2>2. QED
    BY <1>1, <2>1, ExtractedStays
<1>6. QED
  BY <1>1, <1>3, <1>4, <1>5 DEF Keeps

(* A packet of a PAT registers the PIDs of PMTs that it names when it completes the PAT. *)
LEMMA PatKeeps ==
  ASSUME IInv, Accounted, TrackFacts, AllCut', NEW k, NEW n, Taken(k, n), TakePat(k)
  PROVE  Keeps(k, n)
<1>1. /\ k.pid = PatPid /\ PatPid \in Pids /\ PatPid \in PsiPids /\ CallsBack(k)
      /\ section_data' = [section_data EXCEPT ![PatPid] = Collected(k)]
  BY PsiPidsType DEF TakePat, Put
<1>2. GoesOn(k) /\ k.part > 0 /\ Collected(k) = Behind(k)
  <2>1. Expected(k.pid, n + 1)
    BY <1>1 DEF Expected
  <2>2. QED
    BY <1>1, <2>1, CleanGoesOn DEF TrackFacts, AllCut, PsiPids
<1>3. Ends(k) /\ Completed(k) = {k.table}
  BY <1>1, <1>2 DEF CallsBack, Behind, Idle, Within, Ends, Completed
<1>4. /\ k.table \in PatTables
      /\ packet_streams' = [p \in Pids |-> IF p \in New(k.table) THEN Parser("pmt", 0)
                                           ELSE packet_streams[p]]
      /\ consumers' = consumers /\ sent' = sent
  <2>1. ConsumePat(k.table)
    BY <1>3 DEF TakePat
  <2>2. QED
    BY <1>1, <1>2, <2>1 DEF ConsumePat, on_pat, Taken, IsPacket
<1>5. DOMAIN k.table \subseteq PsiPids
  BY <1>4 DEF PsiPids
<1>6. ASSUME NEW q \in PsiPids PROVE Registered(q)'
  <2>1. q \in Pids /\ Registered(q)
    BY PsiPidsType DEF TrackFacts
  <2>2. CASE q \in New(k.table)
    <3>1. Kind(q) = "none" /\ packet_streams'[q] = Parser("pmt", 0) /\ q \in DOMAIN k.table
      BY <1>4, <2>1, <2>2 DEF New, Known, None, Parser, Kind
    <3>2. q # PatPid /\ Kind(q)' = "pmt"
      BY <2>1, <3>1 DEF Registered, Kind, Parser
    <3>3. Expected(q, Len(input) + 1)'
      <4>1. Len(input') + 1 = n + 2
        BY DEF Taken
      <4>2. Expected(q, n + 2)'
        BY <1>1, <1>3, <3>1, ExpectedGrows
      <4>3. QED
        BY <4>1, <4>2 DEF Expected
    <3>4. QED
      BY <3>2, <3>3 DEF Registered
  <2>3. CASE q \notin New(k.table)
    <3>1. packet_streams'[q] = packet_streams[q] /\ (Kind(q) = "none" => q \notin DOMAIN k.table)
      BY <1>4, <2>1, <2>3 DEF New, Known, Registered
    <3>2. QED
      BY <2>1, <3>1, RegisteredStays
  <2>4. QED
    BY <2>2, <2>3
<1>7. ASSUME NEW p \in Pids \ PsiPids PROVE Extracted(p)'
  <2>1. Extracted(p) /\ ~Announces(k, n, p) /\ packet_streams'[p] = packet_streams[p]
    BY <1>1, <1>4, <1>5 DEF TrackFacts, Announces, New
  <2>2. /\ sent[p] \in Nat /\ consumers[p].since \in Nat /\ consumers'[p].since = consumers[p].since
        /\ sent'[p] = sent[p] + (IF k.pid = p THEN 1 ELSE 0)
    <3>1. k.pid # p
      BY <1>1
    <3>2. QED
      BY <1>4, <3>1 DEF IInv, TypeOK
  <2>3. QED
    BY <2>1, <2>2, ExtractedStays
<1>8. ASSUME NEW q \in PsiPids
      PROVE  section_data'[q] = IF k.pid = q /\ Expected(q, n + 1) THEN Collected(k)
                                ELSE section_data[q]
  <2>1. q \in Pids /\ section_data = [p \in Pids |-> section_data[p]] /\ Expected(PatPid, n + 1)
    BY PsiPidsType DEF Accounted, Expected
  <2>2. QED
    BY <1>1, <2>1
<1>9. QED
  BY <1>6, <1>7, <1>8 DEF Keeps

(* A packet of a PMT makes consumers for the tracks that it announces when it completes it. *)
LEMMA PmtKeeps ==
  ASSUME IInv, Accounted, TrackFacts, RolesApart, AllCut',
         NEW k, NEW n, Taken(k, n), TakePmt(k)
  PROVE  Keeps(k, n)
<1>1. /\ k.pid \in Pids /\ k.pid # PatPid /\ CallsBack(k)
      /\ section_data' = [section_data EXCEPT ![k.pid] = Collected(k)]
  BY DEF TakePmt, Put, Taken, IsPacket
<1>2. k.pid \in PsiPids /\ Expected(k.pid, n + 1)
  <2>1. Kind(k.pid) = "pmt"
    BY DEF TakePmt, ConsumePmt
  <2>2. k.pid \in PsiPids
    BY <1>1, <2>1 DEF TrackFacts, Extracted
  <2>3. QED
    BY <2>1, <2>2 DEF TrackFacts, Registered, Taken
<1>3. GoesOn(k) /\ k.part > 0 /\ Collected(k) = Behind(k)
  BY <1>2, CleanGoesOn DEF TrackFacts, AllCut, PsiPids
<1>4. Ends(k) /\ Completed(k) = {k.table}
  BY <1>1, <1>3 DEF CallsBack, Behind, Idle, Within, Ends, Completed
<1>5. /\ k.table \in PmtTables[k.pid]
      /\ packet_streams' = [p \in Pids |->
           IF p \in New(k.table) THEN Parser("pes", creations[p] + 1) ELSE packet_streams[p]]
      /\ consumers' = [p \in Pids |-> IF p \in New(k.table) THEN Consumer(k.table[p], sent[p])
                                                            ELSE consumers[p]]
      /\ sent' = sent
  <2>1. ConsumePmt(k.pid, k.table)
    BY <1>4 DEF TakePmt
  <2>2. QED
    BY <1>1, <1>3, <2>1 DEF ConsumePmt, on_pmt, create, Taken, IsPacket
<1>6. DOMAIN k.table \cap PsiPids = {}
  BY <1>1, <1>5 DEF RolesApart
<1>7. ASSUME NEW q \in PsiPids PROVE Registered(q)'
  <2>1. Registered(q) /\ packet_streams'[q] = packet_streams[q]
    BY <1>5, <1>6, PsiPidsType DEF TrackFacts, New
  <2>2. QED
    BY <1>1, <2>1, RegisteredStays
<1>8. ASSUME NEW p \in Pids \ PsiPids PROVE Extracted(p)'
  <2>1. /\ Extracted(p) /\ k.pid # p
        /\ sent[p] \in Nat /\ consumers[p].since \in Nat
    BY <1>2 DEF TrackFacts, IInv, TypeOK
  <2>2. CASE p \in New(k.table)
    <3>1. /\ Kind(p) = "none" /\ p \in DOMAIN k.table
          /\ packet_streams'[p] = Parser("pes", creations[p] + 1)
          /\ consumers'[p] = Consumer(k.table[p], sent[p])
      BY <1>5, <2>2 DEF New, Known, None, Parser, Kind
    <3>2. Kind(p)' = "pes" /\ consumers'[p].since = sent'[p] /\ sent'[p] \in Nat
      BY <1>5, <2>1, <3>1 DEF Kind, Parser, Consumer
    <3>3. Announces(k, n, p)
      BY <1>1, <1>2, <1>4, <3>1 DEF Announces
    <3>4. QED
      BY <2>1, <3>1, <3>2, <3>3, ExtractedStarts
  <2>3. CASE p \notin New(k.table)
    <3>1. /\ packet_streams'[p] = packet_streams[p] /\ consumers'[p] = consumers[p]
          /\ Kind(p) = "none" => p \notin DOMAIN k.table
      BY <1>5, <2>1, <2>3 DEF New, Known, Extracted
    <3>2. sent'[p] = sent[p] + (IF k.pid = p THEN 1 ELSE 0)
      BY <1>5, <2>1
    <3>3. Kind(p) = "none" => ~Announces(k, n, p)
      BY <3>1 DEF Announces
    <3>4. QED
      BY <2>1, <3>1, <3>2, <3>3, ExtractedStays
  <2>4. QED
    BY <2>2, <2>3
<1>9. ASSUME NEW q \in PsiPids
      PROVE  section_data'[q] = IF k.pid = q /\ Expected(q, n + 1) THEN Collected(k)
                                ELSE section_data[q]
  <2>1. q \in Pids /\ section_data = [p \in Pids |-> section_data[p]]
    BY PsiPidsType DEF Accounted
  <2>2. QED
    BY <1>1, <1>2, <2>1
<1>10. QED
  BY <1>7, <1>8, <1>9 DEF Keeps

(* A packet that does not complete the section it is part of. *)
LEMMA PartKeeps ==
  ASSUME IInv, Accounted, TrackFacts, AllCut', NEW k, NEW n, Taken(k, n), TakePart(k)
  PROVE  Keeps(k, n)
<1>1. /\ k.pid \in Pids /\ Kind(k.pid) \in {"pat", "pmt"} /\ Collected(k) # Idle
      /\ section_data' = [section_data EXCEPT ![k.pid] = Collected(k)]
      /\ packet_streams' = packet_streams /\ consumers' = consumers /\ sent' = sent
  BY DEF TakePart, Put, Taken, IsPacket, vars
<1>2. k.pid \in PsiPids /\ Expected(k.pid, n + 1)
  <2>1. k.pid \in PsiPids
    BY <1>1 DEF TrackFacts, Extracted
  <2>2. QED
    BY <1>1, <2>1 DEF TrackFacts, Registered, Taken
<1>3. ~Ends(k)
  <2>1. Collected(k) = Behind(k)
    BY <1>2, CleanGoesOn DEF TrackFacts, AllCut, PsiPids
  <2>2. QED
    BY <1>1, <2>1 DEF Behind, Ends
<1>4. \A q \in PsiPids : Registered(q)'
  BY <1>1, <1>3, RegisteredStays DEF TrackFacts
<1>5. ASSUME NEW p \in Pids \ PsiPids PROVE Extracted(p)'
  <2>1. Extracted(p) /\ ~Announces(k, n, p) /\ k.pid # p
    BY <1>2, <1>3 DEF TrackFacts, Announces
  <2>2. /\ sent[p] \in Nat /\ consumers[p].since \in Nat /\ consumers'[p].since = consumers[p].since
        /\ sent'[p] = sent[p] + (IF k.pid = p THEN 1 ELSE 0)
    BY <1>1, <2>1, SMTT(30) DEF IInv, TypeOK
  <2>3. QED
    BY <1>1, <2>1, <2>2, ExtractedStays
<1>6. ASSUME NEW q \in PsiPids
      PROVE  section_data'[q] = IF k.pid = q /\ Expected(q, n + 1) THEN Collected(k)
                                ELSE section_data[q]
  <2>1. q \in Pids /\ section_data = [p \in Pids |-> section_data[p]]
    BY PsiPidsType DEF Accounted
  <2>2. QED
    BY <1>1, <1>2, <2>1
<1>7. QED
  BY <1>4, <1>5, <1>6 DEF Keeps
-----------------------------------------------------------------------------
(* At the start nothing is announced, and only the PAT is parsed. *)
LEMMA InitExtract == SandstreamInit => ExtractInv
<1>1. SUFFICES ASSUME SandstreamInit PROVE TrackFacts
  BY DEF ExtractInv
<1>2. /\ input = <<>> /\ DOMAIN input = {} /\ Len(input) = 0
      /\ section_data = [p \in Pids |-> Idle]
      /\ packet_streams = [p \in Pids |-> IF p = PatPid THEN Parser("pat", 0) ELSE None]
  BY <1>1 DEF SandstreamInit, Init
<1>3. ASSUME NEW q \in PsiPids PROVE Registered(q) /\ Collects(q)
  <2>1. q \in Pids /\ Seen(q) = {}
    BY <1>2, PsiPidsType DEF Seen
  <2>2. Expected(q, Len(input) + 1) <=> q = PatPid
    <3>1. 1..(Len(input) + 1 - 1) = {}
      BY <1>2
    <3>2. QED
      BY <3>1 DEF Expected
  <2>3. QED
    BY <1>2, <2>1, <2>2 DEF Registered, Collects, Kind, Parser, None
<1>4. ASSUME NEW p \in Pids \ PsiPids PROVE Extracted(p)
  <2>1. p # PatPid /\ Announcing(p) = {}
    BY <1>2, PsiPidsType DEF Announcing
  <2>2. QED
    BY <1>2, <2>1 DEF Extracted, Kind, Parser, None
<1>5. QED
  BY <1>3, <1>4 DEF TrackFacts

LEMMA StepExtract ==
  ASSUME IInv, Accounted, ExtractInv, [SandstreamNext]_allVars
  PROVE  ExtractInv'
<1>1. ASSUME UNCHANGED <<vars, input, section_data>> PROVE ExtractInv'
  <2>1. /\ \A q, i : /\ EndsSection(q, i)' <=> EndsSection(q, i)
                     /\ Expected(q, i)' <=> Expected(q, i)
        /\ Len(input') + 1 = Len(input) + 1 /\ input' = input
    BY <1>1 DEF Expected, EndsSection
  <2>2. /\ \A q : Seen(q)' = Seen(q)
        /\ \A p : Announcing(p)' = Announcing(p)
        /\ \A p, a : After(p, a)' = After(p, a)
    BY <2>1 DEF Seen, Announcing, After
  <2>3. AllCut' => AllCut
    BY <2>1, <2>2 DEF AllCut, IsCut, PsiPids
  <2>4. \A p : Kind(p)' = Kind(p) /\ packet_streams'[p] = packet_streams[p]
    BY <1>1 DEF vars, Kind
  <2>5. ASSUME NEW q, Registered(q), Collects(q) PROVE Registered(q)' /\ Collects(q)'
    <3>1. Registered(q)'
      BY <2>1, <2>4, <2>5 DEF Registered, None
    <3>2. Collects(q)'
      BY <1>1, <2>2, <2>5 DEF Collects, Behind, Idle, Within
    <3>3. QED
      BY <3>1, <3>2
  <2>6. ASSUME NEW p, Extracted(p) PROVE Extracted(p)'
    BY <1>1, <2>2, <2>4, <2>6 DEF Extracted, None, vars
  <2>7. TrackFacts => TrackFacts'
    BY <2>5, <2>6 DEF TrackFacts, PsiPids
  <2>8. QED
    BY <2>3, <2>7 DEF ExtractInv, RolesApart
<1>2. ASSUME NEW k \in Packets, Take(k),
             \/ TakeUnknown(k) \/ TakeTrack(k) \/ WriteFails(k)
             \/ TakePat(k) \/ TakePmt(k) \/ TakePart(k)
      PROVE  ExtractInv'
  <2>1. SUFFICES ASSUME RolesApart, AllCut' PROVE TrackFacts'
    BY DEF ExtractInv, RolesApart
  <2>2. PICK n : Taken(k, n)
    BY <1>2, TakeTakes
  <2>3. AllCut
    BY <2>1, <2>2, CutGrows DEF AllCut, PsiPids
  <2>4. TrackFacts
    BY <2>1, <2>3 DEF ExtractInv
  <2>5. Keeps(k, n)
    BY <1>2, <2>1, <2>2, <2>4, OtherKeeps, PatKeeps, PmtKeeps, PartKeeps
  <2>6. QED
    BY <2>1, <2>2, <2>4, <2>5, KeepsFacts
<1>3. CASE Read \/ ReadFails \/ Exit \/ Abort \/ UNCHANGED allVars \/ \E p \in Pids : Close(p)
  BY <1>1, <1>3 DEF Read, ReadFails, Exit, Abort, Close, allVars, mainVars
<1>4. ASSUME NEW k \in Packets,
             \/ TakeUnknown(k) \/ TakeTrack(k) \/ WriteFails(k)
             \/ TakePat(k) \/ TakePmt(k) \/ TakePart(k)
      PROVE  ExtractInv'
  BY <1>2, <1>4 DEF TakeUnknown, TakeTrack, WriteFails, TakePat, TakePmt, TakePart, Put
<1>5. QED
  BY <1>3, <1>4 DEF SandstreamNext, Run

(* Which parsers there are, and how much the consumers were given, is told by the input. *)
THEOREM ExtractInductive == SandstreamSpec => []ExtractInv
<1>1. SandstreamInit => ExtractInv
  BY InitExtract
<1>2. MainInv /\ ExtractInv /\ [SandstreamNext]_<<vars, mainVars>> => ExtractInv'
  BY StepExtract DEF MainInv, allVars
<1>3. QED
  BY <1>1, <1>2, ProgramInductive, PTL DEF SandstreamSpec

(* README.md:7: when PMTs list tracks only and sections are cut cleanly, the tracks that  *)
(* are extracted are those that were announced, and each is whole from its announcement   *)
(* on, however the packets of the PIDs are interleaved, repeated and lost.                *)
THEOREM TracksAreExtracted == SandstreamSpec => []TracksExtracted
<1>1. MainInv /\ ExtractInv => TracksExtracted
  <2>1. SUFFICES ASSUME MainInv, ExtractInv, RolesApart, AllCut, NEW p \in Pids \ PsiPids
                 PROVE  /\ Kind(p) = "pes" <=> Announcing(p) # {}
                        /\ Kind(p) = "pes" =>
                             Len(consumers[p].received) = Cardinality(After(p, Min(Announcing(p))))
    BY DEF TracksExtracted, AllCut, After
  <2>2. Extracted(p)
    BY <2>1 DEF ExtractInv, TrackFacts
  <2>3. SUFFICES ASSUME Kind(p) = "pes"
                 PROVE  Len(consumers[p].received) = Cardinality(After(p, Min(Announcing(p))))
    BY <2>2 DEF Extracted
  <2>4. PICK a \in Announcing(p) : /\ \A b \in Announcing(p) : a <= b
                                   /\ sent[p] - consumers[p].since = Cardinality(After(p, a))
    BY <2>2, <2>3 DEF Extracted
  <2>5. Announcing(p) \subseteq Nat
    <3>1. DOMAIN input = 1..Len(input) /\ Len(input) \in Nat
      BY <2>1 DEF MainInv, Accounted
    <3>2. QED
      BY <3>1 DEF Announcing
  <2>6. Min(Announcing(p)) = a
    BY <2>4, <2>5, MinIs
  <2>7. Len(consumers[p].received) = sent[p] - consumers[p].since
    <3>1. PICK m \in Nat : m = sent[p] - consumers[p].since
      BY <2>1 DEF MainInv, IInv, TypeOK, MadeBeforeNow
    <3>2. consumers[p].received = [i \in 1..m |-> <<p, consumers[p].since + i>>]
      BY <2>1, <2>3, <3>1 DEF MainInv, IInv, RoutedInOrder
    <3>3. QED
      BY <3>1, <3>2
  <2>8. QED
    BY <2>4, <2>6, <2>7
<1>2. QED
  BY <1>1, ProgramInductive, ExtractInductive, PTL

(* The program as a whole: no file is made for a track that no PMT announced, and when the *)
(* program returns EXIT_SUCCESS, a file of a track whose stream was closed without loss     *)
(* holds as many packets as the input has of the track behind its announcement.             *)
TracksStored ==
  RolesApart /\ (\A q \in PsiPids : IsCut(q)) =>
    \A p \in Pids \ PsiPids :
      /\ files[p].state = "none" <=> Announcing(p) = {}
      /\ status = "success" /\ files[p].state = "closed" =>
           /\ Len(input) = length
           /\ Len(files[p].disk) =
                Cardinality({i \in DOMAIN input : input[i].pid = p /\ i > Min(Announcing(p))})

(* main.cpp:19-91: with SuccessIsComplete, and since every consumer has a file, what   *)
(* TracksExtracted says of the consumers holds of the files on the disk.               *)
THEOREM TracksAreStored == SandstreamSpec => []TracksStored
<1>1. MainInv /\ TracksExtracted /\ SuccessIsComplete => TracksStored
  <2>1. SUFFICES ASSUME MainInv, TracksExtracted, SuccessIsComplete,
                        RolesApart, \A q \in PsiPids : IsCut(q), NEW p \in Pids \ PsiPids
                 PROVE  /\ files[p].state = "none" <=> Announcing(p) = {}
                        /\ status = "success" /\ files[p].state = "closed" =>
                             /\ Len(input) = length
                             /\ Len(files[p].disk) =
                                  Cardinality({i \in DOMAIN input :
                                                 input[i].pid = p /\ i > Min(Announcing(p))})
    BY DEF TracksStored
  <2>2. /\ Kind(p) = "pes" <=> Announcing(p) # {}
        /\ Kind(p) = "pes" =>
             Len(consumers[p].received) =
               Cardinality({i \in DOMAIN input : input[i].pid = p /\ i > Min(Announcing(p))})
    BY <2>1 DEF TracksExtracted
  <2>3. files[p].state = "none" <=> Kind(p) # "pes"
    BY <2>1 DEF MainInv, FilesInv, FileInv
  <2>4. ASSUME status = "success", files[p].state = "closed"
        PROVE  Len(input) = length /\ files[p].disk = consumers[p].received /\ Kind(p) = "pes"
    BY <2>1, <2>3, <2>4 DEF SuccessIsComplete
  <2>5. QED
    BY <2>2, <2>3, <2>4
<1>2. QED
  BY <1>1, ProgramInductive, TracksAreExtracted, SuccessMeansComplete, PTL
=============================================================================
