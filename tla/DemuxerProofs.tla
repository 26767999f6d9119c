---------------------------- MODULE DemuxerProofs ----------------------------
(***************************************************************************)
(* The demuxer's registry and its routing, for every set of PIDs and every   *)
(* content of the tables: repeated, updated, and conflicting ones included.   *)
(***************************************************************************)
EXTENDS Demuxer, TLAPS, SequenceTheorems

USE DemuxerAssumption

(* A consumer was made after packets that have gone by: what it is given continues them. *)
MadeBeforeNow == \A p \in Pids : consumers[p].since <= sent[p]

IInv == /\ TypeOK
        /\ CreatedOnce
        /\ MadeBeforeNow
        /\ RoutedInOrder

(* A table of a PID announces PIDs of the stream, with stream types. *)
LEMMA TableType ==
  ASSUME NEW q \in Pids, NEW t \in PmtTables[q]
  PROVE  DOMAIN t \subseteq Pids /\ \A p \in DOMAIN t : t[p] \in Types
<1>1. PmtTables[q] \subseteq UNION {[P -> Types] : P \in SUBSET Pids}
  OBVIOUS
<1>2. PICK P \in SUBSET Pids : t \in [P -> Types]
  BY <1>1
<1>3. QED
  BY <1>2

LEMMA InitIInv == Init => IInv
<1>1. SUFFICES ASSUME Init PROVE IInv
  OBVIOUS
<1>2. TypeOK
  <2>1. <<>> \in Seq(Pids \X (1..MaxPackets))
    OBVIOUS
  <2>2. QED
    BY <1>1, <2>1 DEF Init, TypeOK, Kinds, Parser, None, NoConsumer
<1>3. CreatedOnce /\ MadeBeforeNow /\ RoutedInOrder
  BY <1>1 DEF Init, CreatedOnce, MadeBeforeNow, RoutedInOrder, Kind, Parser, None, NoConsumer
<1>4. QED
  BY <1>2, <1>3 DEF IInv

(* The PAT registers PMT parsers, and only for PIDs that had no parser. *)
LEMMA PatIInv == ASSUME IInv, NEW t \in PatTables, ConsumePat(t) PROVE IInv'
<1>1. /\ packet_streams' = [p \in Pids |->
           IF p \in New(t) THEN Parser("pmt", 0) ELSE packet_streams[p]]
      /\ consumers' = consumers /\ creations' = creations /\ sent' = sent
  BY DEF ConsumePat, on_pat
<1>2. TypeOK'
  <2>1. Parser("pmt", 0) \in [kind : Kinds, consumer : Nat]
    BY DEF Parser, Kinds
  <2>2. packet_streams' \in [Pids -> [kind : Kinds, consumer : Nat]]
    BY <1>1, <2>1 DEF IInv, TypeOK
  <2>3. QED
    BY <1>1, <2>2 DEF IInv, TypeOK
<1>3. ASSUME NEW p \in Pids
      PROVE  \/ packet_streams'[p] = packet_streams[p]
             \/ packet_streams[p].kind = "none" /\ packet_streams'[p].kind = "pmt"
  BY <1>1 DEF New, Known, None, Parser
<1>4. CreatedOnce'
  BY <1>1, <1>3 DEF IInv, CreatedOnce, Kind
<1>5. MadeBeforeNow'
  BY <1>1 DEF IInv, MadeBeforeNow
<1>6. RoutedInOrder'
  BY <1>1, <1>3 DEF IInv, RoutedInOrder, Kind
<1>7. QED
  BY <1>2, <1>4, <1>5, <1>6 DEF IInv

(* A PMT makes consumers, with nothing received, for the PIDs that had no parser. *)
LEMMA PmtIInv ==
  ASSUME IInv, NEW q \in Pids, NEW t \in PmtTables[q], ConsumePmt(q, t) PROVE IInv'
<1> DEFINE new == New(t)
<1>1. /\ creations' = [p \in Pids |-> IF p \in new THEN creations[p] + 1 ELSE creations[p]]
      /\ consumers' = [p \in Pids |-> IF p \in new THEN Consumer(t[p], sent[p])
                                                   ELSE consumers[p]]
      /\ packet_streams' = [p \in Pids |->
           IF p \in new THEN Parser("pes", creations[p] + 1) ELSE packet_streams[p]]
      /\ sent' = sent
  BY DEF ConsumePmt, on_pmt, create
<1>2. DOMAIN t \subseteq Pids /\ \A p \in DOMAIN t : t[p] \in Types
  BY TableType
<1>3. /\ creations \in [Pids -> Nat] /\ sent \in [Pids -> 0..MaxPackets]
      /\ packet_streams \in [Pids -> [kind : Kinds, consumer : Nat]]
      /\ consumers \in [Pids -> [stream_type : SUBSET Types, since : 0..MaxPackets,
                                 received : Seq(Pids \X (1..MaxPackets))]]
  BY DEF IInv, TypeOK
<1>4. ASSUME NEW p \in new
      PROVE  /\ p \in Pids /\ creations[p] = 0
             /\ packet_streams'[p] = Parser("pes", 1) /\ creations'[p] = 1
             /\ consumers'[p] = Consumer(t[p], sent[p])
  <2>1. p \in Pids /\ packet_streams[p].kind = "none"
    BY <1>2 DEF New, Known, None, Parser
  <2>2. creations[p] = 0
    <3>1. creations[p] # 1 /\ creations[p] <= 1
      BY <2>1 DEF IInv, CreatedOnce, Kind
    <3>2. creations[p] \in Nat
      BY <1>3, <2>1
    <3>3. QED
      BY <3>1, <3>2
  <2>3. QED
    BY <1>1, <2>1, <2>2
<1>5. ASSUME NEW p \in Pids, p \notin new
      PROVE  /\ packet_streams'[p] = packet_streams[p] /\ creations'[p] = creations[p]
             /\ consumers'[p] = consumers[p]
  BY <1>1, <1>5
<1> HIDE DEF new
<1>6. TypeOK'
  <2>1. creations' \in [Pids -> Nat]
    <3>1. ASSUME NEW p \in Pids PROVE creations'[p] \in Nat
      <4>1. CASE p \in new
        BY <1>4, <4>1
      <4>2. CASE p \notin new
        BY <1>3, <1>5, <4>2
      <4>3. QED
        BY <4>1, <4>2
    <3>2. creations' = [p \in Pids |-> creations'[p]]
      BY <1>1
    <3>3. QED
      BY <3>1, <3>2
  <2>2. packet_streams' \in [Pids -> [kind : Kinds, consumer : Nat]]
    <3>1. Parser("pes", 1) \in [kind : Kinds, consumer : Nat]
      BY DEF Parser, Kinds
    <3>2. \A p \in Pids : packet_streams'[p] \in [kind : Kinds, consumer : Nat]
      BY <1>3, <1>4, <1>5, <3>1
    <3>3. packet_streams' = [p \in Pids |-> packet_streams'[p]]
      BY <1>1
    <3>4. QED
      BY <3>2, <3>3
  <2>3. ASSUME NEW p \in new
        PROVE  Consumer(t[p], sent[p]) \in
                 [stream_type : SUBSET Types, since : 0..MaxPackets,
                  received : Seq(Pids \X (1..MaxPackets))]
    <3>1. t[p] \in Types /\ sent[p] \in 0..MaxPackets
      BY <1>2, <1>3, <1>4, <2>3 DEF new, New
    <3>2. <<>> \in Seq(Pids \X (1..MaxPackets))
      OBVIOUS
    <3>3. QED
      BY <3>1, <3>2 DEF Consumer
  <2>4. consumers' \in [Pids -> [stream_type : SUBSET Types, since : 0..MaxPackets,
                                 received : Seq(Pids \X (1..MaxPackets))]]
    BY <1>1, <1>3, <2>3
  <2>5. QED
    BY <1>1, <1>3, <2>1, <2>2, <2>4 DEF TypeOK
<1>7. CreatedOnce'
  <2>1. ASSUME NEW p \in Pids
        PROVE  /\ creations'[p] <= 1
               /\ packet_streams'[p].kind = "pes" => packet_streams'[p].consumer = creations'[p]
               /\ creations'[p] = 1 <=> packet_streams'[p].kind = "pes"
    <3>1. CASE p \in new
      BY <1>4, <3>1 DEF Parser
    <3>2. CASE p \notin new
      BY <1>5, <3>2 DEF IInv, CreatedOnce, Kind
    <3>3. QED
      BY <3>1, <3>2
  <2>2. QED
    BY <2>1 DEF CreatedOnce, Kind
<1>8. MadeBeforeNow'
  <2>1. ASSUME NEW p \in Pids PROVE consumers'[p].since <= sent[p]
    <3>1. CASE p \in new
      <4>1. consumers'[p].since = sent[p]
        <5>1. consumers'[p] = Consumer(t[p], sent[p])
          BY <1>4, <3>1
        <5>2. QED
          BY <5>1 DEF Consumer
      <4>2. sent[p] \in Nat
        BY <1>3
      <4>3. QED
        BY <4>1, <4>2
    <3>2. CASE p \notin new
      BY <1>5, <3>2 DEF IInv, MadeBeforeNow
    <3>3. QED
      BY <3>1, <3>2
  <2>2. QED
    BY <1>1, <2>1 DEF MadeBeforeNow
<1>9. RoutedInOrder'
  <2>1. ASSUME NEW p \in Pids, packet_streams'[p].kind = "pes"
        PROVE  consumers'[p].received =
                 [i \in 1..(sent[p] - consumers'[p].since) |-> <<p, consumers'[p].since + i>>]
    <3>1. CASE p \in new
      <4>1. consumers'[p].received = <<>> /\ consumers'[p].since = sent[p]
        <5>1. consumers'[p] = Consumer(t[p], sent[p])
          BY <1>4, <3>1
        <5>2. QED
          BY <5>1 DEF Consumer
      <4>2. 1..(sent[p] - sent[p]) = {}
        BY <1>3, SMTT(30)
      <4>3. QED
        BY <4>1, <4>2
    <3>2. CASE p \notin new
      BY <1>5, <2>1, <3>2, ZenonT(30) DEF IInv, RoutedInOrder, Kind
    <3>3. QED
      BY <3>1, <3>2
  <2>2. QED
    BY <1>1, <2>1 DEF RoutedInOrder, Kind
<1>10. QED
  BY <1>6, <1>7, <1>8, <1>9 DEF IInv

(* A packet of a track continues what its consumer was given. *)
LEMMA PesIInv == ASSUME IInv, NEW q \in Pids, ConsumePes(q) PROVE IInv'
<1>1. /\ packet_streams[q].kind = "pes" /\ sent[q] < MaxPackets
      /\ consumers' = [consumers EXCEPT ![q].received = Append(@, <<q, sent[q] + 1>>)]
      /\ sent' = [sent EXCEPT ![q] = @ + 1]
      /\ packet_streams' = packet_streams /\ creations' = creations
  BY DEF ConsumePes, on_data, Kind
<1>2. /\ sent \in [Pids -> 0..MaxPackets]
      /\ consumers \in [Pids -> [stream_type : SUBSET Types, since : 0..MaxPackets,
                                 received : Seq(Pids \X (1..MaxPackets))]]
      /\ sent[q] \in 0..MaxPackets /\ consumers[q].since \in 0..MaxPackets
      /\ consumers[q].received \in Seq(Pids \X (1..MaxPackets))
      /\ consumers[q].since <= sent[q]
      /\ consumers[q].received =
           [i \in 1..(sent[q] - consumers[q].since) |-> <<q, consumers[q].since + i>>]
  BY <1>1 DEF IInv, TypeOK, MadeBeforeNow, RoutedInOrder, Kind
<1>3. /\ sent'[q] = sent[q] + 1
      /\ consumers'[q].since = consumers[q].since
      /\ consumers'[q].received = Append(consumers[q].received, <<q, sent[q] + 1>>)
      /\ \A p \in Pids \ {q} : consumers'[p] = consumers[p] /\ sent'[p] = sent[p]
  BY <1>1, <1>2, SMTT(30)
<1>4. TypeOK'
  <2>1. <<q, sent[q] + 1>> \in Pids \X (1..MaxPackets)
    BY <1>1, <1>2
  <2>2. Append(consumers[q].received, <<q, sent[q] + 1>>) \in Seq(Pids \X (1..MaxPackets))
    BY <1>2, <2>1
  <2>3. consumers' \in [Pids -> [stream_type : SUBSET Types, since : 0..MaxPackets,
                                 received : Seq(Pids \X (1..MaxPackets))]]
    <3>1. [consumers[q] EXCEPT !.received = Append(@, <<q, sent[q] + 1>>)] \in
            [stream_type : SUBSET Types, since : 0..MaxPackets,
             received : Seq(Pids \X (1..MaxPackets))]
      BY <1>2, <2>2, ZenonT(30)
    <3>2. consumers' =
            [consumers EXCEPT ![q] = [consumers[q] EXCEPT !.received = Append(@, <<q, sent[q] + 1>>)]]
      BY <1>1
    <3>3. QED
      BY <1>2, <3>1, <3>2, Zenon
  <2>4. sent' \in [Pids -> 0..MaxPackets]
    <3>1. sent \in [Pids -> 0..MaxPackets] /\ sent[q] \in 0..MaxPackets /\ sent[q] < MaxPackets
      BY <1>1, <1>2
    <3>2. sent[q] + 1 \in 0..MaxPackets
      BY <3>1
    <3>3. sent' = [sent EXCEPT ![q] = sent[q] + 1]
      BY <1>1
    <3>4. QED
      BY <3>1, <3>2, <3>3
  <2>5. QED
    BY <1>1, <2>3, <2>4 DEF IInv, TypeOK
<1>5. CreatedOnce'
  BY <1>1 DEF IInv, CreatedOnce, Kind
<1>6. MadeBeforeNow'
  <2>1. ASSUME NEW p \in Pids PROVE consumers'[p].since <= sent'[p]
    <3>1. CASE p = q
      BY <1>2, <1>3, <3>1
    <3>2. CASE p # q
      BY <1>3, <3>2 DEF IInv, MadeBeforeNow
    <3>3. QED
      BY <3>1, <3>2
  <2>2. QED
    BY <2>1 DEF MadeBeforeNow
<1>7. RoutedInOrder'
  <2>1. PICK n \in Nat, s \in Nat : n = sent[q] - consumers[q].since /\ s = consumers[q].since
    BY <1>2
  <2>2. /\ sent[q] + 1 = s + (n + 1)
        /\ consumers[q].received = [i \in 1..n |-> <<q, s + i>>]
    BY <1>2, <2>1, SMTT(30)
  <2>3. Append([i \in 1..n |-> <<q, s + i>>], <<q, s + (n + 1)>>)
          = [i \in 1..(n + 1) |-> <<q, s + i>>]
    OBVIOUS
  <2>4. consumers'[q].received = [i \in 1..(n + 1) |-> <<q, s + i>>]
    BY <1>3, <2>2, <2>3
  <2>5. consumers'[q].received =
          [i \in 1..(sent'[q] - consumers'[q].since) |-> <<q, consumers'[q].since + i>>]
    <3>1. consumers'[q].since = s /\ sent'[q] - consumers'[q].since = n + 1
      BY <1>2, <1>3, <2>1
    <3>2. QED
      BY <2>4, <3>1
  <2>6. ASSUME NEW p \in Pids, packet_streams[p].kind = "pes", p # q
        PROVE  consumers'[p].received =
                 [i \in 1..(sent'[p] - consumers'[p].since) |-> <<p, consumers'[p].since + i>>]
    <3>1. consumers'[p] = consumers[p] /\ sent'[p] = sent[p]
      BY <1>3, <2>6
    <3>2. QED
      BY <2>6, <3>1 DEF IInv, RoutedInOrder, Kind
  <2>7. ASSUME NEW p \in Pids, packet_streams[p].kind = "pes"
        PROVE  consumers'[p].received =
                 [i \in 1..(sent'[p] - consumers'[p].since) |-> <<p, consumers'[p].since + i>>]
    <3>1. CASE p = q
      BY <2>5, <3>1, Zenon
    <3>2. CASE p # q
      BY <2>6, <2>7, <3>2
    <3>3. QED
      BY <3>1, <3>2
  <2>8. QED
    BY <1>1, <2>7 DEF RoutedInOrder, Kind
<1>8. QED
  BY <1>4, <1>5, <1>6, <1>7 DEF IInv

(* A packet of a PID without a parser concerns no consumer. *)
LEMMA IgnoreIInv == ASSUME IInv, NEW q \in Pids, Ignore(q) PROVE IInv'
<1>1. /\ packet_streams[q].kind = "none" /\ sent[q] < MaxPackets
      /\ sent' = [sent EXCEPT ![q] = @ + 1]
      /\ packet_streams' = packet_streams /\ consumers' = consumers /\ creations' = creations
  BY DEF Ignore, Known, None, Parser
<1>2. /\ sent \in [Pids -> 0..MaxPackets] /\ \A p \in Pids : consumers[p].since \in 0..MaxPackets
  BY DEF IInv, TypeOK
<1>3. /\ sent'[q] = sent[q] + 1 /\ \A p \in Pids \ {q} : sent'[p] = sent[p]
      /\ sent' \in [Pids -> 0..MaxPackets]
  BY <1>1, <1>2
<1>4. TypeOK'
  BY <1>1, <1>3 DEF IInv, TypeOK
<1>5. CreatedOnce'
  BY <1>1 DEF IInv, CreatedOnce, Kind
<1>6. MadeBeforeNow'
  <2>1. \A p \in Pids : consumers[p].since <= sent'[p]
    BY <1>2, <1>3 DEF IInv, MadeBeforeNow
  <2>2. QED
    BY <1>1, <2>1 DEF MadeBeforeNow
<1>7. RoutedInOrder'
  BY <1>1, <1>3 DEF IInv, RoutedInOrder, Kind
<1>8. QED
  BY <1>4, <1>5, <1>6, <1>7 DEF IInv

(* The invariant holds in every reachable state. *)
THEOREM Inductive == Spec => []IInv
<1>1. Init => IInv
  BY InitIInv
<1>2. IInv /\ [Next]_vars => IInv'
  <2>1. ASSUME IInv, UNCHANGED vars PROVE IInv'
    BY <2>1 DEF vars, IInv, TypeOK, CreatedOnce, MadeBeforeNow, RoutedInOrder, Kind
  <2>2. QED
    BY <2>1, PatIInv, PmtIInv, PesIInv, IgnoreIInv DEF Next
<1>3. QED
  BY <1>1, <1>2, PTL DEF Spec

(* demuxer.cpp: the registry maps PIDs to parsers, and a consumer is given packets only. *)
THEOREM TypeCorrect == Spec => []TypeOK
<1>1. IInv => TypeOK
  BY DEF IInv
<1>2. QED
  BY <1>1, Inductive, PTL

(* demuxer.cpp:37-45: whatever the tables say and however often, create() is called at  *)
(* most once for a PID, and the registered parser writes to the consumer it made.        *)
THEOREM ConsumersAreCreatedOnce == Spec => []CreatedOnce
<1>1. IInv => CreatedOnce
  BY DEF IInv
<1>2. QED
  BY <1>1, Inductive, PTL

(* demuxer.cpp:17-26: whatever the tables say, a consumer is given the packets of its    *)
(* PID from its creation on, all of them, in order, and no other.                        *)
THEOREM PacketsAreRoutedInOrder == Spec => []RoutedInOrder
<1>1. IInv => RoutedInOrder
  BY DEF IInv
<1>2. QED
  BY <1>1, Inductive, PTL

(* demuxer.cpp:28-45: no table takes a PID away from the parser that has it. *)
THEOREM ParsersStay == Spec => ParserNeverReplaced
<1>1. TypeOK /\ [Next]_vars =>
        [\A p \in Pids : Known(p) => packet_streams'[p] = packet_streams[p]]_vars
  <2>1. SUFFICES ASSUME TypeOK, Next
                 PROVE  \A p \in Pids : Known(p) => packet_streams'[p] = packet_streams[p]
    OBVIOUS
  <2>2. ASSUME NEW t \in PatTables, ConsumePat(t)
        PROVE  \A p \in Pids : Known(p) => packet_streams'[p] = packet_streams[p]
    BY <2>2 DEF ConsumePat, on_pat, New
  <2>3. ASSUME NEW q \in Pids, NEW t \in PmtTables[q], ConsumePmt(q, t)
        PROVE  \A p \in Pids : Known(p) => packet_streams'[p] = packet_streams[p]
    BY <2>3 DEF ConsumePmt, on_pmt, New
  <2>4. ASSUME NEW q \in Pids, ConsumePes(q) \/ Ignore(q)
        PROVE  \A p \in Pids : Known(p) => packet_streams'[p] = packet_streams[p]
    BY <2>4 DEF ConsumePes, Ignore
  <2>5. QED
    BY <2>1, <2>2, <2>3, <2>4 DEF Next
<1>2. QED
  BY <1>1, TypeCorrect, PTL DEF Spec, ParserNeverReplaced
-----------------------------------------------------------------------------
LEMMA PmtAnnounced ==
  ASSUME IInv, ConsumersAnnounced, NEW r \in Pids, NEW t \in PmtTables[r], ConsumePmt(r, t)
  PROVE  ConsumersAnnounced'
<1>1. /\ packet_streams[r].kind = "pmt"
      /\ consumers' = [p \in Pids |-> IF p \in New(t) THEN Consumer(t[p], sent[p])
                                                      ELSE consumers[p]]
      /\ packet_streams' = [p \in Pids |->
           IF p \in New(t) THEN Parser("pes", creations[p] + 1) ELSE packet_streams[p]]
  BY DEF ConsumePmt, on_pmt, create, Kind
<1>2. \A q \in Pids : packet_streams[q].kind = "pmt" => packet_streams'[q].kind = "pmt"
  BY <1>1 DEF New, Known, None, Parser
<1>3. ASSUME NEW p \in Pids
      PROVE  /\ Kind(p)' = "pmt" => \E u \in PatTables : p \in DOMAIN u
             /\ Kind(p)' = "pes" =>
                  \E q \in Pids : /\ Kind(q)' = "pmt"
                                  /\ \E u \in PmtTables[q] :
                                       p \in DOMAIN u /\ consumers'[p].stream_type = {u[p]}
  <2>1. CASE p \in New(t)
    <3>1. Kind(p)' = "pes" /\ consumers'[p].stream_type = {t[p]} /\ p \in DOMAIN t
      BY <1>1, <2>1 DEF Kind, Parser, Consumer, New
    <3>2. QED
      BY <1>1, <1>2, <3>1 DEF Kind
  <2>2. CASE p \notin New(t)
    <3>1. packet_streams'[p] = packet_streams[p] /\ consumers'[p] = consumers[p]
      BY <1>1, <2>2
    <3>2. QED
      BY <1>2, <3>1 DEF ConsumersAnnounced, Kind
  <2>3. QED
    BY <2>1, <2>2
<1>4. QED
  BY <1>3 DEF ConsumersAnnounced

(* demuxer.cpp:28-45: whatever the tables say and in whatever order they come, a consumer *)
(* goes back to an entry of a PMT, and its PMT to an entry of the PAT.                    *)
THEOREM ConsumersAreAnnounced == Spec => []ConsumersAnnounced
<1>1. Init => ConsumersAnnounced
  <2>1. ASSUME Init PROVE \A p \in Pids : Kind(p) = "pat" \/ Kind(p) = "none"
    BY <2>1 DEF Init, Kind, None, Parser
  <2>2. QED
    BY <2>1 DEF ConsumersAnnounced
<1>2. IInv /\ ConsumersAnnounced /\ [Next]_vars => ConsumersAnnounced'
  <2>1. SUFFICES ASSUME IInv, ConsumersAnnounced, [Next]_vars PROVE ConsumersAnnounced'
    OBVIOUS
  <2>2. ASSUME NEW t \in PatTables, ConsumePat(t) PROVE ConsumersAnnounced'
    <3>1. /\ packet_streams' = [p \in Pids |->
               IF p \in New(t) THEN Parser("pmt", 0) ELSE packet_streams[p]]
          /\ consumers' = consumers
      BY <2>2 DEF ConsumePat, on_pat
    <3>2. \A q \in Pids : packet_streams[q].kind = "pmt" => packet_streams'[q].kind = "pmt"
      BY <3>1 DEF Parser
    <3>3. \A p \in Pids : \/ packet_streams'[p] = packet_streams[p]
                          \/ packet_streams'[p].kind = "pmt" /\ p \in DOMAIN t
      BY <3>1 DEF New, Parser
    <3>4. QED
      BY <2>1, <3>1, <3>2, <3>3 DEF ConsumersAnnounced, Kind
  <2>3. ASSUME NEW q \in Pids, ConsumePes(q) \/ Ignore(q) PROVE ConsumersAnnounced'
    <3>1. packet_streams' = packet_streams
      BY <2>3 DEF ConsumePes, Ignore
    <3>2. \A p \in Pids : consumers'[p].stream_type = consumers[p].stream_type
      <4>1. consumers \in [Pids -> [stream_type : SUBSET Types, since : 0..MaxPackets,
                                    received : Seq(Pids \X (1..MaxPackets))]]
        BY <2>1 DEF IInv, TypeOK
      <4>2. ASSUME consumers' = [consumers EXCEPT ![q].received = Append(@, <<q, sent[q] + 1>>)]
            PROVE  \A p \in Pids : consumers'[p].stream_type = consumers[p].stream_type
        BY <4>1, <4>2
      <4>3. QED
        BY <2>3, <4>2 DEF ConsumePes, Ignore, on_data
    <3>3. QED
      BY <2>1, <3>1, <3>2 DEF ConsumersAnnounced, Kind
  <2>4. CASE UNCHANGED vars
    BY <2>1, <2>4 DEF vars, ConsumersAnnounced, Kind
  <2>5. QED
    BY <2>1, <2>2, <2>3, <2>4, PmtAnnounced DEF Next
<1>3. QED
  BY <1>1, <1>2, Inductive, PTL DEF Spec

(* No PAT lists a PID under program number 0, the network information table. *)
NoNit == \A t \in PatTables : \A p \in DOMAIN t : t[p] # 0

(* callback_es_factory.h:12: without a network PID in the PAT, create() is called for the *)
(* tracks of its programs only.                                                          *)
THEOREM WithoutNitOnlyTracks == NoNit /\ Spec => []OnlyTracksCreated
<1>1. ASSUME NoNit, IInv, ConsumersAnnounced PROVE OnlyTracksCreated
  <2>1. SUFFICES ASSUME NEW p \in Pids, creations[p] > 0 PROVE p \in Tracks
    BY DEF OnlyTracksCreated
  <2>2. Kind(p) = "pes"
    <3>1. creations[p] \in Nat /\ creations[p] <= 1
      BY <1>1 DEF IInv, TypeOK, CreatedOnce
    <3>2. creations[p] = 1
      BY <2>1, <3>1
    <3>3. QED
      BY <1>1, <3>2 DEF IInv, CreatedOnce
  <2>3. PICK q \in Pids : Kind(q) = "pmt" /\ \E t \in PmtTables[q] : p \in DOMAIN t
    BY <1>1, <2>2 DEF ConsumersAnnounced
  <2>4. q \in Programs
    BY <1>1, <2>3 DEF ConsumersAnnounced, NoNit, Programs
  <2>5. QED
    BY <2>3, <2>4 DEF Tracks
<1>2. NoNit /\ [Next]_vars => NoNit'
  BY DEF NoNit
<1>3. QED
  BY <1>1, <1>2, Inductive, ConsumersAreAnnounced, PTL DEF Spec
=============================================================================
