----------------------------- MODULE Sandstream -----------------------------
(***************************************************************************)
(* The program (src/main.cpp): the read loop that feeds the demuxer to the   *)
(* end of the input, the sections of PAT and PMT put together from several    *)
(* packets, and the output files that create() opens and on_data writes.      *)
(*                                                                           *)
(* The input is any sequence of packets: packets may be missing, repeated or  *)
(* out of order.  Bytes before, between and behind packets are the concern of  *)
(* Packetizer, the bytes of a section that of PsiParser, and which bytes of a  *)
(* packet are written that of EsExtraction; here a packet is the unit.         *)
(***************************************************************************)
EXTENDS Demuxer, FiniteSetsExt

CONSTANTS Packets,      \* the packets the input may be made of
          BufferSize,   \* packets in the input buffer: 10 MiB
          InputLength   \* bound: packets in the input

(* A packet: its PID; for a packet of a PSI PID also the table of the section it carries *)
(* and which of the packets of that section it is (0 of 0 for any other packet).          *)
IsPacket(k) ==
  /\ k.pid \in Pids /\ k.parts \in Nat /\ k.part \in 0..k.parts
  /\ k.pid = PatPid => k.part > 0
  /\ k.part > 0 => \/ k.pid = PatPid /\ k.table \in PatTables
                   \/ k.pid # PatPid /\ k.table \in PmtTables[k.pid]

ASSUME SandstreamAssumption == /\ \A k \in Packets : IsPacket(k)
                               /\ BufferSize \in Nat \ {0}
                               /\ InputLength \in Nat /\ InputLength <= MaxPackets

VARIABLES length,         \* packets in the input
          unread,         \* of these, not yet read
          source,         \* the state of the stream: "good", or "end" after a short read
          buffered,       \* packets in the input buffer
          input,          \* the packets taken out of it
          section_data,   \* for each PID what its PSI parser has collected
          files,          \* for each PID its output file
          status          \* "running", what main returns ("success", "failure"), or "aborted"

mainVars == <<length, unread, source, buffered, input, section_data, files, status>>

(* A PSI parser is between sections, or has collected the first parts of one; or what it *)
(* has collected does not begin with a section, and then it may call back with any table. *)
Idle         == [state |-> "idle", table |-> <<>>, part |-> 0]
Within(k)    == [state |-> "within", table |-> k.table, part |-> k.part]
Adrift       == [state |-> "adrift", table |-> <<>>, part |-> 0]

(* An output file: what it holds, and what the stream still holds back in its buffer. *)
File(state, disk, held) == [state |-> state, disk |-> disk, held |-> held]
NoFile == File("none", <<>>, <<>>)

SandstreamInit == /\ Init
                  /\ length \in 0..InputLength
                  /\ unread = length
                  /\ source = "good"
                  /\ buffered = 0
                  /\ input = <<>>
                  /\ section_data = [p \in Pids |-> Idle]
                  /\ files = [p \in Pids |-> NoFile]
                  /\ status = "running"
-----------------------------------------------------------------------------
Slip_ReadCount == unread

(* How much a read brings: all there is room for, or all that is left. *)
ReadCount == IF unread < BufferSize THEN unread ELSE BufferSize

Slip_AtEnd(n) == FALSE

(* A read that brings less than was asked for sets eofbit and failbit. *)
AtEnd(n) == n < BufferSize

Slip_Confirmed(n) == IF n < BufferSize THEN 0 ELSE n

Slip_ConfirmedAll(n) == BufferSize

(* What is confirmed, and so consumed: gcount() is used before the state is tested. *)
Confirmed(n) == n

(* consume() has returned and the loop goes on. *)
Looping == status = "running" /\ buffered = 0

Read == /\ Looping
        /\ source = "good"
        /\ unread' = unread - ReadCount
        /\ buffered' = Confirmed(ReadCount)
        /\ source' = IF AtEnd(ReadCount) THEN "end" ELSE "good"
        /\ UNCHANGED <<vars, length, input, section_data, files, status>>

(* badbit, on which source throws. *)
ReadFails == /\ Looping
             /\ source = "good"
             /\ status' = "failure"
             /\ UNCHANGED <<vars, length, unread, source, buffered, input, section_data, files>>

Exit == /\ Looping
        /\ source = "end"
        /\ status' = "success"
        /\ UNCHANGED <<vars, length, unread, source, buffered, input, section_data, files>>

(* A round of consume() begins: packet k leaves the buffer. *)
Take(k) == /\ status = "running"
           /\ buffered > 0
           /\ buffered' = buffered - 1
           /\ input' = Append(input, k)
           /\ UNCHANGED <<length, unread, source>>

TakeUnknown(k) == /\ Take(k)
                  /\ Ignore(k.pid)
                  /\ UNCHANGED <<section_data, files, status>>
-----------------------------------------------------------------------------
(* The buffer is full: it is stored, and what was to be written behind it. *)
Flushed(f, data) == File("open", f.disk \o f.held \o <<data>>, <<>>)

Held(f, data) == File("open", f.disk, Append(f.held, data))

(* The file when the first n packets are stored of what the stream holds back; a packet *)
(* that is stored in part is left out.                                                 *)
Stored(f, n) == f.disk \o SubSeq(f.held, 1, n)

Write(p, data) ==
  \/ /\ files[p].state = "unopened"
     /\ UNCHANGED files
  \/ /\ files[p].state = "open"
     /\ \E f \in {Held(files[p], data), Flushed(files[p], data)} :
          files' = [files EXCEPT ![p] = f]

(* on_data of a track: a stream that was never opened swallows what it is given.  A packet *)
(* without payload, which calls no on_data, is written as a packet of no bytes.            *)
TakeTrack(k) == /\ Take(k)
                /\ ConsumePes(k.pid)
                /\ Write(k.pid, <<k.pid, sent[k.pid] + 1>>)
                /\ UNCHANGED <<section_data, status>>

(* A write that fails, with some of what was held back stored, sets badbit, on which the *)
(* sink throws; the stream still holds all of it.                                       *)
WriteFails(k) == /\ Take(k)
                 /\ ConsumePes(k.pid)
                 /\ files[k.pid].state = "open"
                 /\ \E n \in 0..Len(files[k.pid].held) :
                      files' = [files EXCEPT ![k.pid] = File("broken", Stored(@, n), @.held)]
                 /\ status' = "failure"
                 /\ UNCHANGED section_data

(* assert(false) on a PES packet of a kind that is not implemented: nothing is destroyed, *)
(* and what the streams hold back is lost.  The packet counts as still in the buffer.     *)
Abort == /\ status = "running"
         /\ buffered > 0
         /\ \E k \in Packets : Kind(k.pid) = "pes"
         /\ status' = "aborted"
         /\ UNCHANGED <<vars, length, unread, source, buffered, input, section_data, files>>

(* The files that create() opens: one that cannot be opened sets failbit, on which *)
(* nothing is thrown.                                                              *)
Open(new) ==
  \E opened \in SUBSET new :
    files' = [p \in Pids |-> IF p \in opened THEN File("open", <<>>, <<>>)
                             ELSE IF p \in new THEN File("unopened", <<>>, <<>>)
                             ELSE files[p]]

(* Packet k goes on where what was collected leaves off. *)
GoesOn(k) == LET s == section_data[k.pid]
             IN  /\ k.part > 0
                 /\ \/ s.state = "idle" /\ k.part = 1
                    \/ s.state = "within" /\ s.table = k.table /\ k.part = s.part + 1

Slip_Collected(k) == IF ~GoesOn(k) THEN Adrift ELSE Idle

(* What the parser has collected after put(). *)
Collected(k) == IF ~GoesOn(k) THEN Adrift ELSE IF k.part = k.parts THEN Idle ELSE Within(k)

(* The tables put() may call back with: that of the section completed. *)
Completed(k) ==
  IF GoesOn(k) THEN {k.table}
  ELSE IF k.pid = PatPid THEN PatTables ELSE PmtTables[k.pid]

CallsBack(k) == GoesOn(k) => Collected(k) = Idle

Put(k) == /\ Take(k)
          /\ Kind(k.pid) \in {"pat", "pmt"}
          /\ section_data' = [section_data EXCEPT ![k.pid] = Collected(k)]
          /\ UNCHANGED status

TakePat(k) == /\ Put(k)
              /\ k.pid = PatPid
              /\ CallsBack(k)
              /\ \E t \in Completed(k) : ConsumePat(t)
              /\ UNCHANGED files

TakePmt(k) == /\ Put(k)
              /\ k.pid # PatPid
              /\ CallsBack(k)
              /\ \E t \in Completed(k) : ConsumePmt(k.pid, t) /\ Open(New(t))

(* No section is complete, or so it seems. *)
TakePart(k) == /\ Put(k)
               /\ Collected(k) # Idle
               /\ UNCHANGED <<vars, files>>
-----------------------------------------------------------------------------
(* The stream is destroyed: what it holds back is stored, all of it or, unnoticed, only    *)
(* the first n of it.  A stream whose write failed does not know what of it was stored then, *)
(* and stores it from the beginning.                                                        *)
Destroyed(f, n) == File(IF f.state = "broken" THEN "ended"
                        ELSE IF n = Len(f.held) THEN "closed" ELSE "cut", Stored(f, n), <<>>)

(* main has returned, and the demuxer is destroyed with its consumers and their streams. *)
Close(p) == /\ status \in {"success", "failure"}
            /\ files[p].state \in {"open", "broken"}
            /\ \E n \in 0..Len(files[p].held) : files' = [files EXCEPT ![p] = Destroyed(@, n)]
            /\ UNCHANGED <<vars, length, unread, source, buffered, input, section_data, status>>

(* The steps of a program whose streams do not fail. *)
Run == \/ Read \/ Exit
       \/ \E k \in Packets : TakeUnknown(k)
       \/ \E k \in Packets : TakeTrack(k)
       \/ \E k \in Packets : TakePat(k)
       \/ \E k \in Packets : TakePmt(k)
       \/ \E k \in Packets : TakePart(k)
       \/ \E p \in Pids : Close(p)

SandstreamNext == Run \/ ReadFails \/ Abort \/ \E k \in Packets : WriteFails(k)

SandstreamSpec == SandstreamInit /\ [][SandstreamNext]_<<vars, mainVars>>

(* The program runs on, and the input has an end. *)
FairSandstreamSpec == SandstreamSpec /\ WF_<<vars, mainVars>>(Run)
-----------------------------------------------------------------------------
FileStates == {"none", "open", "unopened", "broken", "closed", "cut", "ended"}

(* Every variable has its type, and the input is in one place. *)
MainTypeOK ==
  /\ length \in 0..InputLength
  /\ unread \in 0..length
  /\ source \in {"good", "end"}
  /\ buffered \in 0..BufferSize
  /\ input \in Seq(Packets) /\ Len(input) <= length
  /\ \A p \in Pids : section_data[p].state \in {"idle", "within", "adrift"}
  /\ files \in [Pids -> [state : FileStates, disk : Seq(Pids \X (1..MaxPackets)),
                         held : Seq(Pids \X (1..MaxPackets))]]
  /\ status \in {"running", "success", "failure", "aborted"}

(* main.cpp:77-90: EXIT_SUCCESS means that all of the input was taken, that no write failed, *)
(* and that every file is complete that could be opened and whose last bytes were stored:   *)
(* those two failures are not reported.                                                    *)
SuccessIsComplete ==
  status = "success" =>
    /\ Len(input) = length
    /\ \A p \in Pids :
         /\ files[p].state \notin {"broken", "ended"}
         /\ files[p].state = "closed" => files[p].disk = consumers[p].received

(* What StreamFiles says of a file whose stream has not failed does not depend on whether *)
(* it was opened or destroyed.                                                           *)
Health(f) == IF f.state \in {"none", "broken", "ended"} THEN f.state ELSE "good"

Storage == INSTANCE StreamFiles WITH
             state   <- [p \in Pids |-> Health(files[p])],
             since   <- [p \in Pids |-> consumers[p].since],
             content <- [p \in Pids |-> files[p].disk]

(* main.cpp:19-45: whatever fails, a file holds the packets of its PID from its creation on, *)
(* in order and without a gap, and grows at its end only; and none twice, unless a write to   *)
(* it failed, when what its stream held back then may stand in it once more.                  *)
FilesSpec == Storage!Spec
-----------------------------------------------------------------------------
(* A section of PID q ends with the i-th packet of the input. *)
EndsSection(q, i) == input[i].pid = q /\ input[i].part > 0 /\ input[i].part = input[i].parts

(* The parser of q is there when the i-th packet is taken: a PAT before it names q. *)
Expected(q, i) ==
  q = PatPid \/ \E j \in 1..(i - 1) : EndsSection(PatPid, j) /\ q \in DOMAIN input[j].table

(* The packets that the parser of q is given. *)
Seen(q) == {i \in DOMAIN input : input[i].pid = q /\ Expected(q, i)}

(* These are sections, each from its first packet on, none of it missing. *)
IsCut(q) ==
  \A i \in Seen(q) :
    LET before == {j \in Seen(q) : j < i}
        last   == input[Max(before)]
    IN  IF before = {} \/ last.part = last.parts THEN input[i].part = 1
        ELSE input[i].part = last.part + 1 /\ input[i].table = last.table

(* The packets of the input that complete a PMT which announces p. *)
Announcing(p) ==
  {i \in DOMAIN input : \E q \in Pids \ {PatPid} :
     EndsSection(q, i) /\ Expected(q, i) /\ p \in DOMAIN input[i].table}

PsiPids == {PatPid} \cup UNION {DOMAIN t : t \in PatTables}

(* No PMT lists the PID of a PAT or of a PMT as that of a track. *)
RolesApart == \A q \in Pids : \A t \in PmtTables[q] : DOMAIN t \cap PsiPids = {}

(* README.md:7, "extract all available elementary streams": when PMTs list tracks only and *)
(* no section was begun or left in the middle, a track has a consumer if and only if a PMT  *)
(* that announces it was complete behind a PAT that names the PMT, and it was given every   *)
(* packet of the track that came behind the first such PMT.  README.md:12 promises nothing  *)
(* of PATs and PMTs that change; what the code makes of them is part of this all the same.  *)
TracksExtracted ==
  RolesApart /\ (\A q \in PsiPids : IsCut(q)) =>
    \A p \in Pids \ PsiPids :
      /\ Kind(p) = "pes" <=> Announcing(p) # {}
      /\ Kind(p) = "pes" =>
           Len(consumers[p].received) =
             Cardinality({i \in DOMAIN input : input[i].pid = p /\ i > Min(Announcing(p))})

(* What is left to do: packets to read and to take, and the read that finds the end; and *)
(* the streams to destroy.                                                              *)
WorkLeft == 2 * unread + buffered + (IF source = "good" THEN 1 ELSE 0)
Streams  == {p \in Pids : files[p].state \in {"open", "broken"}}

(* main.cpp:77-91: no step of the program can be repeated forever.  While it runs, each *)
(* leaves less to do, and afterwards each destroys a stream.                            *)
WorkShrinks ==
  [][/\ status' = "running" => WorkLeft' < WorkLeft
     /\ status' # "running" => Streams' \subseteq Streams
     /\ status # "running" => status' = status /\ Streams' # Streams]_<<vars, mainVars>>

(* main.cpp:77-91: the program ends, and every stream is destroyed unless it aborts. *)
ProgramEnds == <>(status = "aborted" \/ (status # "running" /\ Streams = {}))
=============================================================================
