------------------------------- MODULE Demuxer -------------------------------
(***************************************************************************)
(* demuxer_t (src/demuxer.cpp): the registry of parsers by PID, filled from  *)
(* the PAT and the PMTs as they are repeated, and the packets it routes.      *)
(*                                                                           *)
(* Each action is one round of the loop of consume(): a packet is taken, its  *)
(* PID looked up, and the packet put into the parser found, with all that the *)
(* parser calls back.  What a packet makes a PSI parser call is its table (a   *)
(* packet that completes no section calls nothing, one that completes several *)
(* is as many rounds); PsiParser is about how it gets there.                  *)
(***************************************************************************)
EXTENDS Integers, Sequences

CONSTANTS Pids,          \* the PIDs of the stream
          PatPid,        \* pat_pid
          PatTables,     \* the tables the PAT's PID carries: pat_t, from PIDs to program numbers
          PmtTables,     \* for each PID, the pmt_t that parser_pmt_t makes of its sections
          Types,         \* the values of stream_type
          MaxPackets     \* bound: packets of a PID that are not parsed as PSI

ASSUME DemuxerAssumption ==
  /\ PatPid \in Pids
  /\ \A t \in PatTables : DOMAIN t \subseteq Pids
  /\ PmtTables \in [Pids -> SUBSET UNION {[P -> Types] : P \in SUBSET Pids}]
  /\ MaxPackets \in Nat

VARIABLES packet_streams,   \* for each PID the parser registered, if any
          consumers,        \* for each PID the callback_es_t made last, and what it was given
          creations,        \* for each PID the calls of callback_es_factory_t::create
          sent              \* for each PID the packets taken that no PSI parser was given

vars == <<packet_streams, consumers, creations, sent>>

(* A parser of a kind; the consumer of a parser_pes_t is that of the n-th create(). *)
Parser(kind, n) == [kind |-> kind, consumer |-> n]
None            == Parser("none", 0)

Kind(p)  == packet_streams[p].kind
Known(p) == packet_streams[p] # None

(* A consumer: its stream_type, the packets of its PID that had gone by when it was *)
(* made, and what on_data was called with since: PID and number of each packet.     *)
Consumer(type, n) == [stream_type |-> {type}, since |-> n, received |-> <<>>]
NoConsumer        == [stream_type |-> {}, since |-> 0, received |-> <<>>]

Init == /\ packet_streams = [p \in Pids |-> IF p = PatPid THEN Parser("pat", 0) ELSE None]
        /\ consumers = [p \in Pids |-> NoConsumer]
        /\ creations = [p \in Pids |-> 0]
        /\ sent = [p \in Pids |-> 0]
-----------------------------------------------------------------------------
(* A definition named Slip_X is the next definition with one plausible mistake in   *)
(* it: a property is worth checking when it tells the two apart.                     *)
Slip_NewIsAll(update) == DOMAIN update

Slip_NewStopsAtKnown(update) ==
  {p \in DOMAIN update : \A q \in DOMAIN update : q <= p => ~Known(q)}

(* The PIDs of a table that find() does not find in packet_streams. *)
New(update) == {p \in DOMAIN update : ~Known(p)}

(* on_pat: a PMT parser for every new PID of the table; the program number is not *)
(* looked at.                                                                     *)
on_pat(update) ==
  packet_streams' = [p \in Pids |-> IF p \in New(update) THEN Parser("pmt", 0)
                                                         ELSE packet_streams[p]]

Slip_create(type, p) == Consumer(p, sent[p])

(* The callback_es_t that create() returns. *)
create(type, p) == Consumer(type, sent[p])

(* on_pmt: a consumer and a PES parser for every new PID of the table. *)
on_pmt(update) ==
  /\ creations' = [p \in Pids |-> IF p \in New(update) THEN creations[p] + 1 ELSE creations[p]]
  /\ consumers' = [p \in Pids |-> IF p \in New(update) THEN create(update[p], p)
                                                       ELSE consumers[p]]
  /\ packet_streams' = [p \in Pids |->
       IF p \in New(update) THEN Parser("pes", creations[p] + 1) ELSE packet_streams[p]]

Slip_DataToAll(p) ==
  consumers' = [q \in Pids |->
    IF Kind(q) = "pes" THEN [consumers[q] EXCEPT !.received = Append(@, <<p, sent[p] + 1>>)]
                       ELSE consumers[q]]

(* parser_pes_t::put of a packet with payload, down to on_data. *)
on_data(p) ==
  consumers' = [consumers EXCEPT ![p].received = Append(@, <<p, sent[p] + 1>>)]
-----------------------------------------------------------------------------
(* The rounds of consume(), by what find() returns. *)
ConsumePat(t) == /\ Kind(PatPid) = "pat"
                 /\ on_pat(t)
                 /\ UNCHANGED <<consumers, creations, sent>>

ConsumePmt(p, t) == /\ Kind(p) = "pmt"
                    /\ on_pmt(t)
                    /\ UNCHANGED sent

ConsumePes(p) == /\ Kind(p) = "pes"
                 /\ sent[p] < MaxPackets
                 /\ on_data(p)
                 /\ sent' = [sent EXCEPT ![p] = @ + 1]
                 /\ UNCHANGED <<packet_streams, creations>>

Ignore(p) == /\ ~Known(p)
             /\ sent[p] < MaxPackets
             /\ sent' = [sent EXCEPT ![p] = @ + 1]
             /\ UNCHANGED <<packet_streams, consumers, creations>>

Next == \/ \E t \in PatTables : ConsumePat(t)
        \/ \E p \in Pids : \E t \in PmtTables[p] : ConsumePmt(p, t)
        \/ \E p \in Pids : ConsumePes(p)
        \/ \E p \in Pids : Ignore(p)

Spec == Init /\ [][Next]_vars

(* The tables of a broadcast are repeated for as long as it lasts. *)
FairSpec == /\ Spec
            /\ \A t \in PatTables : WF_vars(ConsumePat(t))
            /\ \A p \in Pids : \A t \in PmtTables[p] : WF_vars(ConsumePmt(p, t))
-----------------------------------------------------------------------------
Kinds == {"none", "pat", "pmt", "pes"}

(* Every variable has its type. *)
TypeOK ==
  /\ packet_streams \in [Pids -> [kind : Kinds, consumer : Nat]]
  /\ consumers \in [Pids -> [stream_type : SUBSET Types, since : 0..MaxPackets,
                             received : Seq(Pids \X (1..MaxPackets))]]
  /\ creations \in [Pids -> Nat]
  /\ sent \in [Pids -> 0..MaxPackets]

(* demuxer.cpp:37-45 and main.cpp:39-45: create() opens the output file anew, so it is *)
(* called once for a PID, however often its PMT is repeated and in however many PMTs    *)
(* it is listed; and the consumer made is the one the registered parser writes to.      *)
CreatedOnce ==
  \A p \in Pids : /\ creations[p] <= 1
                  /\ Kind(p) = "pes" => packet_streams[p].consumer = creations[p]
                  /\ creations[p] = 1 <=> Kind(p) = "pes"

(* demuxer.cpp:17-26: a consumer is given the packets of its PID, all of them from the *)
(* PMT that announced it on, in order, and nothing else.                               *)
RoutedInOrder ==
  \A p \in Pids :
    Kind(p) = "pes" =>
      consumers[p].received =
        [i \in 1..(sent[p] - consumers[p].since) |-> <<p, consumers[p].since + i>>]

(* demuxer.cpp:28-45: the PIDs parsed as PMTs are those that a PAT lists; a consumer is  *)
(* made because a PMT of one of them announces its PID, and it is told the stream_type of *)
(* that PMT, also when another PMT lists the PID with another type.                       *)
ConsumersAnnounced ==
  \A p \in Pids :
    /\ Kind(p) = "pmt" => \E t \in PatTables : p \in DOMAIN t
    /\ Kind(p) = "pes" =>
         \E q \in Pids : /\ Kind(q) = "pmt"
                         /\ \E t \in PmtTables[q] :
                              p \in DOMAIN t /\ consumers[p].stream_type = {t[p]}

(* The tracks of the programs of the PAT. *)
Programs == {p \in Pids : \E t \in PatTables : p \in DOMAIN t /\ t[p] # 0}
Tracks   == UNION {UNION {DOMAIN t : t \in PmtTables[p]} : p \in Programs}

(* callback_es_factory.h:12, create() is called "when new elementary stream detected": *)
(* only for the tracks of a program.                                                   *)
OnlyTracksCreated == \A p \in Pids : creations[p] > 0 => p \in Tracks

(* demuxer.cpp:28-45: no table, repeated, changed or conflicting with another, takes a *)
(* PID away from the parser that has it, which would lose the section it has collected. *)
ParserNeverReplaced ==
  [][\A p \in Pids : Known(p) => packet_streams'[p] = packet_streams[p]]_vars
=============================================================================
