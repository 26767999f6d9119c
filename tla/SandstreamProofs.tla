-------------------------- MODULE SandstreamProofs --------------------------
(***************************************************************************)
(* The program, for every input, every size of the buffer, every table and   *)
(* every failure of a stream: it runs the demuxer of Demuxer, so what is      *)
(* proved of that holds of it, and its output files are those of StreamFiles. *)
(***************************************************************************)
EXTENDS Sandstream, DemuxerProofs

USE SandstreamAssumption

allVars == <<vars, mainVars>>

(* A PSI parser calls back with a table that its PID may carry. *)
LEMMA CompletedType ==
  ASSUME NEW k \in Packets
  PROVE  /\ k.pid \in Pids
         /\ k.pid = PatPid => Completed(k) \subseteq PatTables
         /\ k.pid # PatPid => Completed(k) \subseteq PmtTables[k.pid]
<1>1. IsPacket(k)
  OBVIOUS
<1>2. QED
  BY <1>1 DEF IsPacket, Completed, GoesOn

(* Each step of the program is a round of consume(), or the demuxer has no part in it. *)
LEMMA StepRunsDemuxer == SandstreamNext => [Next]_vars
<1>1. ASSUME NEW k \in Packets, TakeUnknown(k) PROVE Next
  BY <1>1, CompletedType DEF TakeUnknown, Next
<1>2. ASSUME NEW k \in Packets, TakeTrack(k) \/ WriteFails(k) PROVE Next
  BY <1>2, CompletedType DEF TakeTrack, WriteFails, Next
<1>3. ASSUME NEW k \in Packets, TakePat(k) PROVE Next
  BY <1>3, CompletedType DEF TakePat, Next
<1>4. ASSUME NEW k \in Packets, TakePmt(k) PROVE Next
  <2>1. PICK t \in Completed(k) : ConsumePmt(k.pid, t)
    BY <1>4 DEF TakePmt
  <2>2. k.pid \in Pids /\ t \in PmtTables[k.pid]
    BY <1>4, <2>1, CompletedType DEF TakePmt
  <2>3. QED
    BY <2>1, <2>2 DEF Next
<1>5. ASSUME NEW k \in Packets, TakePart(k) PROVE UNCHANGED vars
  BY <1>5 DEF TakePart
<1>6. ASSUME Read \/ ReadFails \/ Exit \/ Abort \/ \E p \in Pids : Close(p)
      PROVE  UNCHANGED vars
  BY <1>6 DEF Read, ReadFails, Exit, Abort, Close
<1>7. QED
  BY <1>1, <1>2, <1>3, <1>4, <1>5, <1>6 DEF SandstreamNext, Run

(* demuxer.cpp:17-26, main.cpp:83: whatever main reads, and whatever fails, the demuxer *)
(* only ever makes the steps of Demuxer.                                               *)
THEOREM ProgramRunsDemuxer == SandstreamSpec => Spec
<1>1. SandstreamInit => Init
  BY DEF SandstreamInit
<1>2. [SandstreamNext]_<<vars, mainVars>> => [Next]_vars
  BY StepRunsDemuxer DEF mainVars, vars
<1>3. QED
  BY <1>1, <1>2, PTL DEF SandstreamSpec, Spec

(* main.cpp:39-45: the program opens no output file twice, each holds the packets of one *)
(* PID only, and none is made without a table that announces it or is ever taken away.   *)
THEOREM ProgramRoutes ==
  SandstreamSpec =>
    [](CreatedOnce /\ RoutedInOrder /\ ConsumersAnnounced) /\ ParserNeverReplaced
<1>1. QED
  BY ProgramRunsDemuxer, ConsumersAreCreatedOnce, PacketsAreRoutedInOrder,
     ConsumersAreAnnounced, ParsersStay, PTL
-----------------------------------------------------------------------------
Data == Pids \X (1..MaxPackets)

(* The packets s + 1 to s + n of a PID. *)
Passed(p, s, n) == [i \in 1..n |-> <<p, s + i>>]

(* What a run of packets is, element by element. *)
LEMMA IsRun ==
  ASSUME NEW S, NEW q \in Seq(S), NEW p, NEW s, \A i \in 1..Len(q) : q[i] = <<p, s + i>>
  PROVE  q = Passed(p, s, Len(q))
<1>1. q \in [1..Len(q) -> S]
  BY LenProperties
<1>2. QED
  BY <1>1 DEF Passed

(* The k packets behind the m-th of a run. *)
Following(p, s, m, k) == [i \in 1..k |-> <<p, s + m + i>>]

(* What is in a file and what its stream holds back; and when only n of the latter follow. *)
Whole(disk, held)    == disk \o held
First(disk, held, n) == disk \o SubSeq(held, 1, n)

(* The beginning of a run of packets is a run of packets, and so is what follows it. *)
LEMMA CutRun ==
  ASSUME NEW p \in Pids, NEW s \in Nat, NEW N \in Nat,
         NEW disk \in Seq(Data), NEW held \in Seq(Data), Whole(disk, held) = Passed(p, s, N),
         NEW n \in 0..Len(held)
  PROVE  /\ Len(disk) + n \in Len(disk)..N
         /\ First(disk, held, n) = Passed(p, s, Len(disk) + n)
         /\ First(disk, held, n) \in Seq(Data)
         /\ Len(disk) + Len(held) = N
         /\ held = Following(p, s, Len(disk), Len(held))
<1>1. /\ Len(disk) \in Nat /\ Len(held) \in Nat
      /\ Len(disk) + Len(held) = N
  BY DEF Passed, Whole
<1> DEFINE part == SubSeq(held, 1, n)
<1>2. part \in Seq(Data) /\ Len(part) = n /\ \A i \in 1..n : part[i] = held[i]
  OBVIOUS
<1> HIDE DEF part
<1>3. part \in Seq(Data) /\ Len(part) = n
  BY <1>2
<1>4. /\ disk \o part \in Seq(Data) /\ Len(disk \o part) = Len(disk) + n
      /\ \A i \in 1..(Len(disk) + n) :
           (disk \o part)[i] = IF i <= Len(disk) THEN disk[i] ELSE part[i - Len(disk)]
  BY <1>3, ConcatProperties
<1>5. \A i \in 1..N :
        (disk \o held)[i] = IF i <= Len(disk) THEN disk[i] ELSE held[i - Len(disk)]
  BY <1>1, ConcatProperties
<1>6. ASSUME NEW i \in 1..(Len(disk) + n)
      PROVE  (disk \o part)[i] = <<p, s + i>>
  <2>1. i \in 1..N /\ (i > Len(disk) => i - Len(disk) \in 1..n)
    BY <1>1
  <2>2. (disk \o part)[i] = (disk \o held)[i]
    BY <1>2, <1>4, <1>5, <2>1
  <2>3. QED
    BY <2>1, <2>2 DEF Passed, Whole
<1>7. disk \o part = Passed(p, s, Len(disk) + n)
  <2>1. \A i \in 1..Len(disk \o part) : (disk \o part)[i] = <<p, s + i>>
    BY <1>4, <1>6
  <2>2. disk \o part = Passed(p, s, Len(disk \o part))
    BY <1>4, <2>1, IsRun
  <2>3. QED
    BY <1>4, <2>2
<1>8. Len(disk) + n \in Len(disk)..N
  BY <1>1
<1>9. First(disk, held, n) = disk \o part
  BY DEF part, First
<1>10. held = Following(p, s, Len(disk), Len(held))
  <2>1. PICK l \in Nat, d \in Nat : l = Len(held) /\ d = Len(disk)
    BY <1>1
  <2>2. ASSUME NEW i \in 1..l PROVE held[i] = <<p, s + d + i>>
    <3>1. PICK j \in Nat : j = d + i /\ j \in 1..N /\ ~(j <= d) /\ j - d = i /\ s + j = s + d + i
      BY <1>1, <2>1
    <3>2. (disk \o held)[j] = held[i]
      BY <1>5, <2>1, <3>1
    <3>3. (disk \o held)[j] = <<p, s + j>>
      BY <3>1 DEF Passed, Whole
    <3>4. QED
      BY <3>1, <3>2, <3>3
  <2>3. held = [i \in 1..l |-> held[i]]
    BY <2>1
  <2>4. QED
    BY <2>1, <2>2, <2>3 DEF Following
<1>11. QED
  BY <1>1, <1>4, <1>7, <1>8, <1>9, <1>10
-----------------------------------------------------------------------------
(* The input is in three places: unread, in the buffer, and taken. *)
Accounted ==
  /\ length \in 0..InputLength /\ unread \in 0..length /\ buffered \in 0..BufferSize
  /\ input \in Seq(Packets) /\ length = Len(input) + buffered + unread
  /\ source \in {"good", "end"} /\ status \in {"running", "success", "failure", "aborted"}
  /\ source = "end" => unread = 0
  /\ status = "success" => buffered = 0 /\ source = "end"
  /\ section_data = [p \in Pids |-> section_data[p]]
  /\ \A p \in Pids : section_data[p].state \in {"idle", "within", "adrift"}

LEMMA InitAccounted == SandstreamInit => Accounted
BY DEF SandstreamInit, Accounted, Idle

LEMMA ReadAccounted == ASSUME Accounted, Read PROVE Accounted'
<1>1. PICK n \in Nat : n = ReadCount
  BY DEF Accounted, ReadCount
<1>2. /\ n <= unread /\ n <= BufferSize /\ (n < BufferSize => n = unread)
  BY <1>1 DEF Accounted, ReadCount
<1>3. /\ buffered = 0 /\ status = "running"
      /\ unread' = unread - n /\ buffered' = n
      /\ source' = IF n < BufferSize THEN "end" ELSE "good"
      /\ UNCHANGED <<length, input, section_data, status>>
  BY <1>1 DEF Read, Looping, Confirmed, AtEnd
<1>4. PICK u \in Nat : u = unread - n
  BY <1>2 DEF Accounted
<1>5. length = Len(input) + n + u /\ u \in 0..length /\ (n < BufferSize => u = 0)
  BY <1>2, <1>3, <1>4 DEF Accounted
<1>6. unread' = u
  BY <1>3, <1>4
<1>7. QED
  BY <1>2, <1>3, <1>5, <1>6 DEF Accounted

LEMMA TakeAccounted ==
  ASSUME Accounted, NEW k \in Packets, Take(k), status' \in {"running", "failure"},
         \/ section_data' = section_data
         \/ section_data' = [section_data EXCEPT ![k.pid] = Collected(k)]
  PROVE  Accounted'
<1>1. /\ status = "running" /\ buffered > 0 /\ buffered' = buffered - 1
      /\ input' = Append(input, k) /\ UNCHANGED <<length, unread, source>>
  BY DEF Take
<1>2. PICK b \in Nat : b = buffered - 1
  BY <1>1 DEF Accounted
<1>3. buffered' = b
  BY <1>1, <1>2
<1>4. /\ Append(input, k) \in Seq(Packets) /\ Len(Append(input, k)) = Len(input) + 1
      /\ Len(input) \in Nat
  BY AppendProperties, LenProperties DEF Accounted
<1>5. length = Len(Append(input, k)) + b + unread /\ b \in 0..BufferSize
  BY <1>2, <1>4 DEF Accounted
<1>6. /\ section_data' = [p \in Pids |-> section_data'[p]]
      /\ \A p \in Pids : section_data'[p].state \in {"idle", "within", "adrift"}
  <2>1. Collected(k).state \in {"idle", "within", "adrift"}
    BY DEF Collected, Idle, Within, Adrift
  <2>2. QED
    BY <2>1 DEF Accounted
<1>7. QED
  BY <1>1, <1>3, <1>4, <1>5, <1>6 DEF Accounted

LEMMA StepAccounted == ASSUME Accounted, [SandstreamNext]_allVars PROVE Accounted'
<1>1. ASSUME NEW k \in Packets,
             TakeUnknown(k) \/ TakeTrack(k) \/ WriteFails(k) \/ TakePat(k) \/ TakePmt(k) \/ TakePart(k)
      PROVE  Accounted'
  <2>1. /\ Take(k) /\ status' \in {"running", "failure"}
        /\ \/ section_data' = section_data
           \/ section_data' = [section_data EXCEPT ![k.pid] = Collected(k)]
    BY <1>1 DEF TakeUnknown, TakeTrack, WriteFails, TakePat, TakePmt, TakePart, Put, Take
  <2>2. QED
    BY <2>1, TakeAccounted
<1>2. ASSUME ReadFails \/ Exit \/ Abort \/ (\E p \in Pids : Close(p)) \/ UNCHANGED allVars
      PROVE  Accounted'
  BY <1>2 DEF ReadFails, Exit, Abort, Close, Looping, allVars, mainVars, Accounted
<1>3. QED
  BY <1>1, <1>2, ReadAccounted DEF SandstreamNext, Run
-----------------------------------------------------------------------------
(* The file of a PID holds a run of its packets, and with what its stream holds back all *)
(* that its consumer was given; after a failed write the stream holds a run that begins   *)
(* no later than behind what the file holds.                                             *)
FileInv(p) ==
  /\ files[p] \in [state : FileStates, disk : Seq(Data), held : Seq(Data)]
  /\ files[p].state = "none" <=> Kind(p) # "pes"
  /\ files[p].state \in {"open", "closed"} => files[p].disk \o files[p].held = consumers[p].received
  /\ files[p].state = "none" => files[p].disk = <<>>
  /\ files[p].state = "closed" => files[p].held = <<>>
  /\ files[p].state \in {"broken", "ended"} => status = "failure"
  /\ files[p].state \notin {"none", "ended"} =>
       \E n \in 0..(sent[p] - consumers[p].since) :
         Len(files[p].disk) = n /\ files[p].disk = Passed(p, consumers[p].since, n)
  /\ files[p].state = "broken" =>
       \E n \in 0..(sent[p] - consumers[p].since) : \E m \in 0..Len(files[p].disk) :
         /\ n = m + Len(files[p].held)
         /\ files[p].held = Following(p, consumers[p].since, m, Len(files[p].held))

FilesInv == files = [p \in Pids |-> files[p]] /\ \A p \in Pids : FileInv(p)

LEMMA InitFiles == SandstreamInit => FilesInv
<1>1. SUFFICES ASSUME SandstreamInit PROVE FilesInv
  OBVIOUS
<1>2. /\ files = [p \in Pids |-> NoFile]
      /\ \A p \in Pids : Kind(p) # "pes"
  BY <1>1 DEF SandstreamInit, Init, Kind, Parser, None
<1>3. <<>> \in Seq(Data)
  OBVIOUS
<1>4. QED
  BY <1>2, <1>3 DEF FilesInv, FileInv, NoFile, File, FileStates

(* What the invariant of the demuxer says of one PID. *)
LEMMA ConsumerFacts ==
  ASSUME IInv, NEW p \in Pids
  PROVE  /\ sent[p] \in 0..MaxPackets /\ consumers[p].since \in 0..MaxPackets
         /\ consumers[p].since <= sent[p]
         /\ consumers[p].received \in Seq(Data)
         /\ Kind(p) = "pes" =>
              consumers[p].received = Passed(p, consumers[p].since, sent[p] - consumers[p].since)
BY DEF IInv, TypeOK, MadeBeforeNow, RoutedInOrder, Passed, Data

(* A step that does not concern the PID. *)
LEMMA FileWaits ==
  ASSUME IInv, NEW p \in Pids, FileInv(p), files'[p] = files[p], consumers'[p] = consumers[p],
         Kind(p)' = "pes" <=> Kind(p) = "pes", sent'[p] \in {sent[p], sent[p] + 1},
         status = "failure" => status' = "failure"
  PROVE  FileInv(p)' /\ Storage!Wait(p)
<1>1. PICK s \in Nat, t \in Nat : s = sent[p] /\ t = sent'[p] /\ s <= t
  BY ConsumerFacts
<1>2. consumers[p].since \in Nat
  BY ConsumerFacts
<1>3. ASSUME NEW n \in 0..(sent[p] - consumers[p].since)
      PROVE  n \in 0..(sent'[p] - consumers'[p].since)
  BY <1>1, <1>2
<1>4. FileInv(p)'
  BY <1>3 DEF FileInv
<1>5. QED
  BY <1>4 DEF Storage!Wait

(* create() makes the file of the PID. *)
LEMMA FileCreated ==
  ASSUME IInv, NEW p \in Pids, FileInv(p), Kind(p) # "pes", Kind(p)' = "pes",
         files'[p] \in {File("open", <<>>, <<>>), File("unopened", <<>>, <<>>)},
         consumers'[p].since = sent[p], consumers'[p].received = <<>>, sent' = sent
  PROVE  FileInv(p)' /\ Storage!Create(p)
<1>1. /\ files[p].state = "none" /\ files'[p].state \in {"open", "unopened"}
      /\ files'[p].disk = <<>> /\ files'[p].held = <<>>
  BY DEF FileInv, File
<1>2. files'[p] \in [state : FileStates, disk : Seq(Data), held : Seq(Data)]
  <2>1. <<>> \in Seq(Data)
    OBVIOUS
  <2>2. /\ File("open", <<>>, <<>>) \in [state : FileStates, disk : Seq(Data), held : Seq(Data)]
        /\ File("unopened", <<>>, <<>>) \in [state : FileStates, disk : Seq(Data), held : Seq(Data)]
    BY <2>1 DEF File, FileStates
  <2>3. QED
    BY <2>2
<1>3. 0 \in 0..(sent'[p] - consumers'[p].since) /\ <<>> = Passed(p, consumers'[p].since, 0)
  <2>1. PICK s \in Nat : s = sent[p]
    BY ConsumerFacts
  <2>2. sent'[p] = s /\ consumers'[p].since = s
    BY <2>1
  <2>3. 0 \in 0..(s - s) /\ <<>> = Passed(p, s, 0)
    BY DEF Passed
  <2>4. QED
    BY <2>2, <2>3
<1>4. FileInv(p)'
  BY <1>1, <1>2, <1>3 DEF FileInv
<1>5. QED
  BY <1>1, <1>4 DEF Storage!Create, Health

(* What was stored of the packets of the PID becomes n of them, of as many as passed. *)
LEMMA FileStored ==
  ASSUME IInv, IInv', NEW p \in Pids, FileInv(p), files[p].state \notin {"none", "broken", "ended"},
         consumers'[p].since = consumers[p].since, sent'[p] \in {sent[p], sent[p] + 1},
         NEW n \in Nat, Len(files[p].disk) <= n, n <= sent'[p] - consumers[p].since,
         files'[p].disk = Passed(p, consumers[p].since, n), files'[p].state \notin {"none", "ended"}
  PROVE  Storage!Store(p)
<1>1. Len(files[p].disk) \in Nat
  BY DEF FileInv
<1>2. sent'[p] - consumers[p].since \in Int
  <2>1. sent'[p] \in Nat /\ consumers[p].since \in Nat
    BY ConsumerFacts DEF IInv, TypeOK
  <2>2. QED
    BY <2>1
<1>3. n \in Len(files[p].disk)..(sent'[p] - consumers[p].since)
  BY <1>1, <1>2
<1>4. Storage!Run(p, 0, n) = Passed(p, consumers[p].since, n)
  <2>1. PICK s \in Nat : s = consumers[p].since
    BY ConsumerFacts
  <2>2. n - 0 = n /\ \A i \in 1..n : s + 0 + i = s + i
    BY <2>1
  <2>3. [i \in 1..(n - 0) |-> <<p, s + 0 + i>>] = [i \in 1..n |-> <<p, s + i>>]
    BY <2>2
  <2>4. QED
    BY <2>1, <2>3 DEF Storage!Run, Passed
<1>5. Health(files[p]) = "good" /\ Health(files'[p]) \in {"good", "broken"}
  BY DEF Health
<1>6. QED
  BY <1>3, <1>4, <1>5, ZenonT(30) DEF Storage!Store

(* What ConsumePes does to its PID. *)
LEMMA PesFacts ==
  ASSUME IInv, NEW p \in Pids, ConsumePes(p)
  PROVE  /\ Kind(p) = "pes" /\ Kind(p)' = "pes"
         /\ <<p, sent[p] + 1>> \in Data
         /\ consumers'[p].since = consumers[p].since
         /\ consumers'[p].received = Append(consumers[p].received, <<p, sent[p] + 1>>)
         /\ sent'[p] = sent[p] + 1
         /\ \A q \in Pids \ {p} : consumers'[q] = consumers[q] /\ sent'[q] = sent[q]
         /\ packet_streams' = packet_streams
<1>1. /\ consumers' = [consumers EXCEPT ![p].received = Append(@, <<p, sent[p] + 1>>)]
      /\ sent' = [sent EXCEPT ![p] = @ + 1] /\ packet_streams' = packet_streams
      /\ Kind(p) = "pes" /\ sent[p] < MaxPackets
  BY DEF ConsumePes, on_data
<1>2. /\ consumers \in [Pids -> [stream_type : SUBSET Types, since : 0..MaxPackets,
                                 received : Seq(Pids \X (1..MaxPackets))]]
      /\ sent \in [Pids -> 0..MaxPackets]
  BY DEF IInv, TypeOK
<1>3. <<p, sent[p] + 1>> \in Data
  <2>1. PICK s \in Nat : s = sent[p]
    BY <1>2
  <2>2. s + 1 \in 1..MaxPackets
    BY <1>1, <2>1, DemuxerAssumption
  <2>3. QED
    BY <2>1, <2>2 DEF Data
<1>4. QED
  BY <1>1, <1>2, <1>3 DEF Kind

(* The packet is written to the file of its PID, or the write fails. *)
LEMMA FileWritten ==
  ASSUME IInv, IInv', NEW p \in Pids, FileInv(p), ConsumePes(p),
         NEW data, data = <<p, sent[p] + 1>>,
         \/ files[p].state = "unopened" /\ files'[p] = files[p]
         \/ files[p].state = "open" /\ files'[p] = Held(files[p], data)
         \/ files[p].state = "open" /\ files'[p] = Flushed(files[p], data)
         \/ /\ files[p].state = "open" /\ status' = "failure"
            /\ \E n \in 0..Len(files[p].held) :
                 files'[p] = File("broken", Stored(files[p], n), files[p].held)
  PROVE  FileInv(p)' /\ Storage!Store(p)
<1> DEFINE disk == files[p].disk
           held == files[p].held
           rest == consumers[p].received
<1>1. /\ disk \in Seq(Data) /\ held \in Seq(Data) /\ rest \in Seq(Data) /\ data \in Data
      /\ Len(disk) \in Nat
  BY ConsumerFacts, PesFacts DEF FileInv
<1>2. PICK s \in Nat, N \in Nat :
        /\ s = consumers[p].since /\ sent[p] = s + N /\ sent[p] - s = N
        /\ rest = Passed(p, s, N) /\ sent[p] + 1 = s + (N + 1)
  <2>1. consumers[p].since \in Nat /\ sent[p] \in Nat /\ consumers[p].since <= sent[p]
    BY ConsumerFacts
  <2>2. rest = Passed(p, consumers[p].since, sent[p] - consumers[p].since)
    BY ConsumerFacts, PesFacts
  <2>3. sent[p] - consumers[p].since \in Nat
    BY <2>1
  <2>4. QED
    BY <2>1, <2>2, <2>3
<1>3. /\ consumers'[p].since = s /\ sent'[p] = s + (N + 1)
      /\ consumers'[p].received = Append(rest, data)
  BY <1>2, PesFacts, Zenon
<1>4. Append(rest, data) = Passed(p, s, N + 1)
  <2>1. Append([i \in 1..N |-> <<p, s + i>>], <<p, s + (N + 1)>>)
          = [i \in 1..(N + 1) |-> <<p, s + i>>]
    OBVIOUS
  <2>2. data = <<p, s + (N + 1)>>
    BY <1>2, Zenon
  <2>3. QED
    BY <1>2, <2>1, <2>2 DEF Passed
<1>5. /\ files[p].state \in {"open", "unopened"}
      /\ Len(disk) \in 0..N /\ disk = Passed(p, s, Len(disk))
      /\ files[p].state = "open" => disk \o held = rest
  BY <1>2, PesFacts DEF FileInv
<1> HIDE DEF disk, held, rest
(* It is enough to say which packets are stored now, and that none is missing. *)
<1> DEFINE Sound(f, n) ==
  /\ Len(disk) <= n /\ n <= N + 1 /\ f.disk = Passed(p, s, n)
  /\ f \in [state : FileStates, disk : Seq(Data), held : Seq(Data)]
  /\ f.state \in {"unopened", "open", "broken"}
  /\ f.state = "open" => f.disk \o f.held = Append(rest, data)
  /\ f.state = "broken" =>
       /\ status' = "failure"
       /\ \E t \in 0..(N + 1) : \E m \in 0..Len(f.disk) :
            t = m + Len(f.held) /\ f.held = Following(p, s, m, Len(f.held))
<1>6. ASSUME NEW n \in Nat, Sound(files'[p], n)
      PROVE  FileInv(p)' /\ Storage!Store(p)
  <2>1. /\ n \in 0..(sent'[p] - consumers'[p].since) /\ n <= sent'[p] - consumers[p].since
        /\ sent'[p] - consumers'[p].since = N + 1
    <3>1. sent'[p] - s = N + 1
      <4>1. PICK t \in Nat : t = sent'[p]
        BY <1>3
      <4>2. t - s = N + 1
        BY <1>3, <4>1
      <4>3. QED
        BY <4>1, <4>2
    <3>2. n <= N + 1 /\ n \in 0..(N + 1)
      BY <1>6
    <3>3. QED
      BY <1>2, <1>3, <3>1, <3>2, Zenon
  <2>2. Len(files'[p].disk) = n
    BY <1>6 DEF Passed
  <2>3. FileInv(p)'
    <3>1. \/ files'[p].state # "broken"
          \/ \E t \in 0..(sent'[p] - consumers'[p].since) : \E m \in 0..Len(files'[p].disk) :
               /\ t = m + Len(files'[p].held)
               /\ files'[p].held = Following(p, consumers'[p].since, m, Len(files'[p].held))
      BY <1>3, <1>6, <2>1, Zenon
    <3>2. QED
      BY <1>3, <1>6, <2>1, <2>2, <3>1, PesFacts DEF FileInv
  <2>4. Storage!Store(p)
    <3>1. /\ files'[p].state \notin {"none", "ended"}
          /\ files[p].state \notin {"none", "broken", "ended"}
      BY <1>5, <1>6
    <3>2. Len(files[p].disk) <= n /\ files'[p].disk = Passed(p, consumers[p].since, n)
      BY <1>2, <1>6 DEF disk
    <3>3. consumers'[p].since = consumers[p].since /\ sent'[p] \in {sent[p], sent[p] + 1}
      BY PesFacts
    <3>4. QED
      BY <2>1, <3>1, <3>2, <3>3, FileStored
  <2>5. QED
    BY <2>3, <2>4
<1>7. CASE files[p].state = "unopened" /\ files'[p] = files[p]
  <2>1. files[p] \in [state : FileStates, disk : Seq(Data), held : Seq(Data)]
    BY DEF FileInv
  <2>2. Sound(files[p], Len(disk))
    <3>1. Len(disk) <= N + 1
      BY <1>5
    <3>2. QED
      BY <1>1, <1>5, <1>7, <2>1, <3>1 DEF disk
  <2>3. QED
    BY <1>1, <1>6, <1>7, <2>2
<1>8. CASE files[p].state = "open" /\ files'[p] = Held(files[p], data)
  <2> DEFINE f == [state |-> "open", disk |-> disk, held |-> Append(held, data)]
  <2>1. files'[p] = f
    BY <1>8 DEF Held, File, disk, held
  <2>2. Append(held, data) \in Seq(Data)
    BY <1>1
  <2>3. f.disk \o f.held = Append(rest, data)
    <3>1. disk \o Append(held, data) = Append(disk \o held, data)
      BY <1>1
    <3>2. QED
      BY <1>5, <1>8, <3>1
  <2>4. f \in [state : FileStates, disk : Seq(Data), held : Seq(Data)]
    BY <1>1, <2>2 DEF FileStates
  <2>5. Sound(f, Len(disk))
    <3>1. Len(disk) <= N + 1 /\ Len(disk) <= Len(disk)
      BY <1>5
    <3>2. f.disk = Passed(p, s, Len(disk)) /\ f.state = "open"
      BY <1>5
    <3>3. QED
      BY <2>3, <2>4, <3>1, <3>2
  <2>6. QED
    BY <1>1, <1>6, <2>1, <2>5
<1>9. CASE files[p].state = "open" /\ files'[p] = Flushed(files[p], data)
  <2> DEFINE f == [state |-> "open", disk |-> Append(rest, data), held |-> <<>>]
  <2>1. disk \o held \o <<data>> = Append(rest, data)
    BY <1>1, <1>5, <1>9, AppendIsConcat
  <2>2. files'[p] = f
    BY <1>9, <2>1 DEF Flushed, File, disk, held
  <2>3. Append(rest, data) \in Seq(Data) /\ Append(rest, data) \o <<>> = Append(rest, data)
    BY <1>1
  <2>4. f \in [state : FileStates, disk : Seq(Data), held : Seq(Data)]
    <3>1. <<>> \in Seq(Data) /\ "open" \in FileStates
      BY DEF FileStates
    <3>2. QED
      BY <2>3, <3>1
  <2>5. Sound(f, N + 1)
    <3>1. N + 1 <= N + 1 /\ Len(disk) <= N + 1
      BY <1>5
    <3>2. QED
      BY <1>4, <2>3, <2>4, <3>1
  <2>6. N + 1 \in Nat
    OBVIOUS
  <2>7. QED
    BY <1>6, <2>2, <2>5, <2>6
<1>10. CASE /\ files[p].state = "open" /\ status' = "failure"
            /\ \E n \in 0..Len(files[p].held) :
                 files'[p] = File("broken", Stored(files[p], n), files[p].held)
  <2>1. PICK n \in 0..Len(held) : files'[p] = File("broken", Stored(files[p], n), held)
    BY <1>10 DEF held
  <2> DEFINE f == [state |-> "broken", disk |-> disk \o SubSeq(held, 1, n), held |-> held]
  <2>2. files'[p] = f
    BY <2>1 DEF Stored, File, disk, held
  <2>3. Whole(disk, held) = Passed(p, s, N)
    BY <1>2, <1>5, <1>10 DEF Whole
  <2>4. /\ Len(disk) + n \in Len(disk)..N
        /\ f.disk = Passed(p, s, Len(disk) + n)
        /\ f.disk \in Seq(Data)
        /\ Len(disk) + Len(held) = N
        /\ held = Following(p, s, Len(disk), Len(held))
    <3>1. /\ Len(disk) + n \in Len(disk)..N
          /\ First(disk, held, n) = Passed(p, s, Len(disk) + n)
          /\ First(disk, held, n) \in Seq(Data)
          /\ Len(disk) + Len(held) = N
          /\ held = Following(p, s, Len(disk), Len(held))
      BY <1>1, <2>3, CutRun
    <3>2. QED
      BY <3>1 DEF First
  <2>5. f \in [state : FileStates, disk : Seq(Data), held : Seq(Data)]
    <3>1. "broken" \in FileStates
      BY DEF FileStates
    <3>2. QED
      BY <1>1, <2>4, <3>1
  <2>6. Sound(f, Len(disk) + n)
    <3>1. Len(disk) <= Len(disk) + n /\ Len(disk) + n <= N + 1
      BY <1>5, <2>4
    <3>2. \E t \in 0..(N + 1) : \E m \in 0..Len(f.disk) :
            t = m + Len(f.held) /\ f.held = Following(p, s, m, Len(f.held))
      <4>1. PICK d \in Nat, l \in Nat : d = Len(disk) /\ l = Len(held) /\ d + l = N
        <5>1. Len(disk) \in Nat /\ Len(held) \in Nat
          BY <1>1
        <5>2. QED
          BY <2>4, <5>1
      <4>2. Len(f.disk) = d + n
        BY <2>4, <4>1 DEF Passed
      <4>3. N \in 0..(N + 1) /\ d \in 0..Len(f.disk)
        BY <4>1, <4>2
      <4>4. N = d + Len(f.held) /\ f.held = Following(p, s, d, Len(f.held))
        BY <2>4, <4>1
      <4>5. QED
        BY <4>3, <4>4
    <3>3. QED
      BY <1>10, <2>4, <2>5, <3>1, <3>2
  <2>7. Len(disk) + n \in Nat
    BY <1>5, <2>4
  <2>8. QED
    BY <1>6, <2>2, <2>6, <2>7
<1>11. QED
  BY <1>7, <1>8, <1>9, <1>10

(* What destroying a stream does to its file, whichever it is. *)
LEMMA DestroyedFacts ==
  ASSUME FilesInv, NEW p \in Pids, Close(p)
  PROVE  /\ FileInv(p) /\ files[p].state \in {"open", "broken"} /\ status # "running"
         /\ consumers' = consumers /\ sent' = sent /\ packet_streams' = packet_streams
         /\ status' = status
         /\ \E n \in 0..Len(files[p].held) : files'[p] = Destroyed(files[p], n)
         /\ \A q \in Pids \ {p} : files'[q] = files[q]
         /\ files' = [q \in Pids |-> files'[q]]
BY DEF Close, FilesInv, vars

(* A stream that has not failed is destroyed. *)
LEMMA FileClosed ==
  ASSUME IInv, IInv', FilesInv, NEW p \in Pids, Close(p), files[p].state = "open"
  PROVE  FileInv(p)' /\ Storage!Store(p)
<1> DEFINE disk == files[p].disk
           held == files[p].held
<1>1. PICK n \in 0..Len(held) : files'[p] = Destroyed(files[p], n)
  BY DestroyedFacts
<1> DEFINE state == IF n = Len(held) THEN "closed" ELSE "cut"
           f     == [state |-> state, disk |-> disk \o SubSeq(held, 1, n), held |-> <<>>]
<1>2. /\ files[p].state = "open" /\ files'[p] = f /\ FileInv(p)
      /\ consumers' = consumers /\ sent' = sent /\ packet_streams' = packet_streams
  BY <1>1, DestroyedFacts DEF Destroyed, Stored, File
<1>3. disk \in Seq(Data) /\ held \in Seq(Data) /\ Len(disk) \in Nat
  BY <1>2 DEF FileInv
<1>4. Kind(p) = "pes" /\ disk \o held = consumers[p].received
  BY <1>2 DEF FileInv
<1>5. PICK s \in Nat, N \in Nat :
        s = consumers[p].since /\ sent[p] - s = N /\ consumers[p].received = Passed(p, s, N)
  <2>1. sent[p] \in Nat /\ consumers[p].since \in Nat /\ consumers[p].since <= sent[p]
    BY ConsumerFacts
  <2>2. sent[p] - consumers[p].since \in Nat
    BY <2>1
  <2>3. QED
    BY <1>4, <2>1, <2>2, ConsumerFacts
<1> HIDE DEF disk, held
<1>6. /\ Len(disk) + n \in Len(disk)..N
      /\ disk \o SubSeq(held, 1, n) = Passed(p, s, Len(disk) + n)
      /\ disk \o SubSeq(held, 1, n) \in Seq(Data)
  <2>1. Whole(disk, held) = Passed(p, s, N)
    BY <1>4, <1>5 DEF Whole
  <2>2. /\ Len(disk) + n \in Len(disk)..N
        /\ First(disk, held, n) = Passed(p, s, Len(disk) + n)
        /\ First(disk, held, n) \in Seq(Data)
    BY <1>3, <2>1, CutRun
  <2>3. QED
    BY <2>2 DEF First
<1>7. PICK m \in Nat : m = Len(disk) + n /\ Len(disk) <= m /\ m <= N
  BY <1>3, <1>6
<1>8. f \in [state : FileStates, disk : Seq(Data), held : Seq(Data)]
  <2>1. <<>> \in Seq(Data) /\ state \in FileStates
    BY DEF FileStates
  <2>2. QED
    BY <1>6, <2>1
<1>9. state = "closed" => disk \o SubSeq(held, 1, n) \o <<>> = consumers[p].received
  <2>1. SubSeq(held, 1, Len(held)) = held /\ disk \o held \o <<>> = disk \o held
    BY <1>3
  <2>2. QED
    BY <1>4, <2>1 DEF disk, held
<1>10. FileInv(p)'
  <2>1. m \in 0..(sent'[p] - consumers'[p].since)
    <3>1. m \in 0..N
      BY <1>7
    <3>2. QED
      BY <1>2, <1>5, <3>1
  <2>2. Len(f.disk) = m /\ f.disk = Passed(p, consumers'[p].since, m)
    <3>1. f.disk = Passed(p, s, m)
      BY <1>6, <1>7
    <3>2. Len(Passed(p, s, m)) = m
      BY DEF Passed
    <3>3. QED
      BY <1>2, <1>5, <3>1, <3>2
  <2>3. Kind(p)' = "pes"
    BY <1>2, <1>4 DEF Kind
  <2>4. f.state \in {"closed", "cut"} /\ f.held = <<>>
    OBVIOUS
  <2>5. f.state = "closed" => f.disk \o f.held = consumers'[p].received
    BY <1>2, <1>9
  <2> HIDE DEF f
  <2>6. QED
    BY <1>2, <1>8, <2>1, <2>2, <2>3, <2>4, <2>5 DEF FileInv
<1>11. Storage!Store(p)
  <2>1. sent'[p] - consumers[p].since = N
    BY <1>2, <1>5
  <2>2. m <= sent'[p] - consumers[p].since
    BY <1>7, <2>1
  <2>3. /\ files'[p].disk = Passed(p, consumers[p].since, m)
        /\ files'[p].state \notin {"none", "ended"}
    BY <1>2, <1>5, <1>6, <1>7, SMTT(30)
  <2>4. Len(files[p].disk) <= m
    BY <1>7 DEF disk
  <2>5. files[p].state \notin {"none", "broken", "ended"} /\ consumers'[p].since = consumers[p].since
    BY <1>2
  <2>6. sent'[p] \in {sent[p], sent[p] + 1}
    BY <1>2
  <2>7. QED
    BY <1>2, <2>2, <2>3, <2>4, <2>5, <2>6, FileStored
<1>12. QED
  BY <1>10, <1>11

(* A stream whose write failed is destroyed: what it held then is stored again. *)
LEMMA FileEnded ==
  ASSUME IInv, FilesInv, NEW p \in Pids, Close(p), files[p].state = "broken"
  PROVE  FileInv(p)' /\ Storage!Repeat(p)
<1> DEFINE disk == files[p].disk
           held == files[p].held
<1>1. PICK n \in 0..Len(held) : files'[p] = Destroyed(files[p], n)
  BY DestroyedFacts
<1> DEFINE part == SubSeq(held, 1, n)
<1>2. /\ files'[p] = [state |-> "ended", disk |-> disk \o part, held |-> <<>>]
      /\ consumers' = consumers /\ sent' = sent /\ packet_streams' = packet_streams
      /\ status' = status /\ FileInv(p)
  BY <1>1, DestroyedFacts DEF Destroyed, Stored, File
<1>3. disk \in Seq(Data) /\ held \in Seq(Data) /\ status = "failure" /\ Kind(p) = "pes"
  BY <1>2 DEF FileInv
<1>4. PICK s \in Nat, m \in Nat, N \in Nat, t \in Nat :
        /\ s = consumers[p].since /\ N = sent[p] - s /\ m \in 0..Len(disk)
        /\ t = m + Len(held) /\ t <= N /\ held = Following(p, s, m, Len(held))
  <2>1. consumers[p].since \in Nat /\ sent[p] - consumers[p].since \in Nat
    BY ConsumerFacts
  <2>2. Len(disk) \in Nat
    BY <1>3
  <2>3. PICK t \in 0..(sent[p] - consumers[p].since), m \in 0..Len(disk) :
          t = m + Len(held) /\ held = Following(p, consumers[p].since, m, Len(held))
    BY <1>2 DEF FileInv
  <2>4. m \in Nat /\ t \in Nat /\ t <= sent[p] - consumers[p].since
    BY <2>1, <2>2, <2>3
  <2>5. QED
    BY <2>1, <2>3, <2>4
<1>5. part \in Seq(Data) /\ Len(part) = n /\ \A i \in 1..n : part[i] = held[i]
  BY <1>3
<1> HIDE DEF part, disk, held
<1>6. PICK l \in Nat : l = Len(held)
  BY <1>3
<1>7. part = Following(p, s, m, n)
  <2>1. \A i \in 1..l : held[i] = <<p, s + m + i>>
    BY <1>4, <1>6 DEF Following
  <2>2. \A i \in 1..n : part[i] = <<p, s + m + i>>
    BY <1>5, <1>6, <2>1
  <2>3. part = [i \in 1..n |-> part[i]]
    BY <1>5, LenProperties
  <2>4. QED
    BY <2>2, <2>3 DEF Following
<1>8. PICK k \in Nat : k = m + n /\ k - m = n /\ m <= k /\ k <= N
  BY <1>4, <1>6
<1>9. Storage!Run(p, m, k) = part
  BY <1>4, <1>7, <1>8 DEF Storage!Run, Following
<1>10. Storage!Repeat(p)
  <2>1. k \in m..(sent[p] - consumers[p].since) /\ m \in 0..Len(files[p].disk)
    BY <1>4, <1>8 DEF disk
  <2>2. files'[p].disk = files[p].disk \o Storage!Run(p, m, k)
    BY <1>2, <1>9 DEF disk
  <2>3. Health(files[p]) = "broken" /\ Health(files'[p]) = "ended"
    BY <1>2 DEF Health
  <2>4. consumers'[p].since = consumers[p].since
    BY <1>2
  <2>5. QED
    BY <2>1, <2>2, <2>3, <2>4, ZenonT(30) DEF Storage!Repeat
<1>11. FileInv(p)'
  <2>1. disk \o part \in Seq(Data) /\ <<>> \in Seq(Data)
    BY <1>3, <1>5
  <2>2. files'[p] \in [state : FileStates, disk : Seq(Data), held : Seq(Data)]
    BY <1>2, <2>1 DEF FileStates
  <2>3. files'[p].state = "ended" /\ Kind(p)' = "pes" /\ status' = "failure"
    BY <1>2, <1>3 DEF Kind
  <2>4. QED
    BY <2>2, <2>3 DEF FileInv
<1>12. QED
  BY <1>10, <1>11

(* Every step keeps the files in order, and is one that StreamFiles allows. *)
LEMMA StepFiles ==
  ASSUME IInv, IInv', FilesInv, [SandstreamNext]_allVars
  PROVE  FilesInv' /\ Storage!Next
<1> DEFINE Good(p) == /\ FileInv(p)'
                      /\ sent'[p] \in {sent[p], sent[p] + 1}
                      /\ \/ Storage!Wait(p) \/ Storage!Create(p)
                         \/ Storage!Store(p) \/ Storage!Repeat(p)
           Waits(p) == /\ files'[p] = files[p] /\ consumers'[p] = consumers[p]
                       /\ Kind(p)' = "pes" <=> Kind(p) = "pes"
                       /\ sent'[p] \in {sent[p], sent[p] + 1}
                       /\ status = "failure" => status' = "failure"
<1>1. ASSUME files' = [p \in Pids |-> files'[p]], \A p \in Pids : Good(p)
      PROVE  FilesInv' /\ Storage!Next
  BY <1>1 DEF FilesInv, Storage!Next
<1>2. ASSUME NEW p \in Pids, Waits(p) PROVE Good(p)
  BY <1>2, FileWaits DEF FilesInv
<1>3. ASSUME files' = files, \A p \in Pids : Waits(p) PROVE FilesInv' /\ Storage!Next
  <2>1. files' = [p \in Pids |-> files'[p]]
    BY <1>3 DEF FilesInv
  <2>2. QED
    BY <1>1, <1>2, <1>3, <2>1
<1> HIDE DEF Good
<1>4. ASSUME UNCHANGED <<vars, files>>, status = "failure" => status' = "failure"
      PROVE  FilesInv' /\ Storage!Next
  BY <1>3, <1>4 DEF vars, Kind
<1>5. CASE \/ Read \/ ReadFails \/ Exit \/ Abort \/ UNCHANGED allVars
           \/ \E k \in Packets : TakePart(k)
  BY <1>4, <1>5 DEF Read, ReadFails, Exit, Abort, Looping, allVars, mainVars, vars, TakePart, Put
<1>6. ASSUME NEW k \in Packets, TakeUnknown(k) PROVE FilesInv' /\ Storage!Next
  <2>1. /\ sent' = [sent EXCEPT ![k.pid] = @ + 1] /\ consumers' = consumers
        /\ packet_streams' = packet_streams /\ files' = files /\ status' = status
    BY <1>6 DEF TakeUnknown, Ignore
  <2>2. sent \in [Pids -> 0..MaxPackets]
    BY DEF IInv, TypeOK
  <2>3. \A p \in Pids : Waits(p)
    BY <2>1, <2>2 DEF Kind
  <2>4. QED
    BY <1>3, <2>1, <2>3
<1>7. ASSUME NEW k \in Packets, TakePat(k) PROVE FilesInv' /\ Storage!Next
  <2>1. PICK t : ConsumePat(t)
    BY <1>7 DEF TakePat
  <2>2. /\ sent' = sent /\ consumers' = consumers /\ files' = files /\ status' = status
        /\ packet_streams' = [p \in Pids |->
              IF p \in New(t) THEN Parser("pmt", 0) ELSE packet_streams[p]]
    BY <1>7, <2>1 DEF TakePat, Put, ConsumePat, on_pat
  <2>3. \A p \in Pids : Waits(p)
    BY <2>2 DEF Kind, New, Known, None, Parser
  <2>4. QED
    BY <1>3, <2>2, <2>3
<1>8. ASSUME NEW k \in Packets, TakeTrack(k) \/ WriteFails(k) PROVE FilesInv' /\ Storage!Next
  <2>1. k.pid \in Pids /\ ConsumePes(k.pid)
    BY <1>8, CompletedType DEF TakeTrack, WriteFails
  <2>2. PICK q, data : q \in Pids /\ q = k.pid /\ ConsumePes(q) /\ data = <<q, sent[q] + 1>>
    BY <2>1
  <2>3. /\ FileInv(q) /\ files = [p \in Pids |-> files[p]]
    BY <2>2 DEF FilesInv
  <2>4. /\ \/ files[q].state = "unopened" /\ files'[q] = files[q]
           \/ files[q].state = "open" /\ files'[q] = Held(files[q], data)
           \/ files[q].state = "open" /\ files'[q] = Flushed(files[q], data)
           \/ /\ files[q].state = "open" /\ status' = "failure"
              /\ \E n \in 0..Len(files[q].held) :
                   files'[q] = File("broken", Stored(files[q], n), files[q].held)
        /\ \A p \in Pids \ {q} : files'[p] = files[p]
        /\ files' = [p \in Pids |-> files'[p]]
        /\ status = "failure" => status' = "failure"
    <3>1. CASE TakeTrack(k)
      <4>1. Write(q, data) /\ status' = status
        BY <2>2, <3>1 DEF TakeTrack
      <4>2. QED
        BY <2>2, <2>3, <4>1 DEF Write
    <3>2. CASE WriteFails(k)
      <4>1. /\ files[q].state = "open" /\ status' = "failure"
            /\ \E n \in 0..Len(files[q].held) :
                 files' = [files EXCEPT ![q] = File("broken", Stored(@, n), @.held)]
        BY <2>2, <3>2 DEF WriteFails
      <4>2. QED
        BY <2>2, <2>3, <4>1
    <3>3. QED
      BY <1>8, <3>1, <3>2
  <2>5. Good(q)
    <3>1. FileInv(q)' /\ Storage!Store(q)
      BY <2>2, <2>3, <2>4, FileWritten
    <3>2. sent'[q] \in {sent[q], sent[q] + 1}
      BY <2>2, PesFacts
    <3>3. QED
      BY <3>1, <3>2 DEF Good
  <2>6. ASSUME NEW p \in Pids, p # q PROVE Waits(p)
    BY <2>2, <2>4, <2>6, PesFacts DEF Kind
  <2>7. QED
    BY <1>1, <1>2, <2>2, <2>4, <2>5, <2>6
<1>9. ASSUME NEW k \in Packets, TakePmt(k) PROVE FilesInv' /\ Storage!Next
  <2>1. PICK t : ConsumePmt(k.pid, t) /\ Open(New(t))
    BY <1>9 DEF TakePmt
  <2>2. PICK opened \in SUBSET New(t) :
          files' = [p \in Pids |-> IF p \in opened THEN File("open", <<>>, <<>>)
                                   ELSE IF p \in New(t) THEN File("unopened", <<>>, <<>>)
                                   ELSE files[p]]
    BY <2>1 DEF Open
  <2>3. /\ sent' = sent /\ status' = status
        /\ consumers' = [p \in Pids |-> IF p \in New(t) THEN Consumer(t[p], sent[p])
                                                          ELSE consumers[p]]
        /\ packet_streams' = [p \in Pids |->
             IF p \in New(t) THEN Parser("pes", creations[p] + 1) ELSE packet_streams[p]]
    BY <1>9, <2>1 DEF TakePmt, Put, ConsumePmt, on_pmt, create
  <2>4. ASSUME NEW p \in Pids, p \in New(t) PROVE Good(p)
    <3>1. /\ Kind(p) # "pes" /\ Kind(p)' = "pes"
          /\ files'[p] \in {File("open", <<>>, <<>>), File("unopened", <<>>, <<>>)}
          /\ consumers'[p].since = sent[p] /\ consumers'[p].received = <<>>
      BY <2>2, <2>3, <2>4 DEF Kind, New, Known, None, Parser, Consumer
    <3>2. FileInv(p)' /\ Storage!Create(p)
      BY <2>3, <3>1, FileCreated DEF FilesInv
    <3>3. QED
      BY <2>3, <3>2 DEF Good
  <2>5. ASSUME NEW p \in Pids, p \notin New(t) PROVE Waits(p)
    BY <2>2, <2>3, <2>5 DEF Kind
  <2>6. files' = [p \in Pids |-> files'[p]]
    BY <2>2
  <2>7. QED
    BY <1>1, <1>2, <2>2, <2>4, <2>5, <2>6
<1>10. ASSUME NEW q \in Pids, Close(q) PROVE FilesInv' /\ Storage!Next
  <2>1. /\ \A p \in Pids \ {q} : files'[p] = files[p]
        /\ files' = [p \in Pids |-> files'[p]]
        /\ UNCHANGED <<vars, status>>
    BY <1>10 DEF Close, FilesInv
  <2>2. Good(q)
    <3>1. FileInv(q)' /\ (Storage!Store(q) \/ Storage!Repeat(q))
      BY <1>10, FileClosed, FileEnded, DestroyedFacts
    <3>2. sent' = sent
      BY <2>1 DEF vars
    <3>3. QED
      BY <3>1, <3>2 DEF Good
  <2>3. ASSUME NEW p \in Pids, p # q PROVE Waits(p)
    BY <2>1, <2>3 DEF vars, Kind
  <2>4. QED
    BY <1>1, <1>2, <2>1, <2>2, <2>3
<1>11. QED
  BY <1>5, <1>6, <1>7, <1>8, <1>9, <1>10 DEF SandstreamNext, Run
-----------------------------------------------------------------------------
MainInv == IInv /\ Accounted /\ FilesInv

(* The invariant of the demuxer, what is known of the input, and what of the files. *)
THEOREM ProgramInductive == SandstreamSpec => []MainInv
<1>1. SandstreamInit => Accounted /\ FilesInv
  BY InitAccounted, InitFiles
<1>2. IInv /\ IInv' /\ Accounted /\ FilesInv /\ [SandstreamNext]_<<vars, mainVars>>
        => Accounted' /\ FilesInv'
  BY StepAccounted, StepFiles DEF allVars
<1>3. SandstreamSpec => []IInv
  BY ProgramRunsDemuxer, Inductive, PTL
<1>4. QED
  BY <1>1, <1>2, <1>3, PTL DEF SandstreamSpec, MainInv

(* main.cpp: the input is in one place, and a file holds packets. *)
THEOREM ProgramTypeCorrect == SandstreamSpec => []MainTypeOK
<1>1. MainInv => MainTypeOK
  <2>1. SUFFICES ASSUME MainInv PROVE MainTypeOK
    OBVIOUS
  <2>2. Len(input) \in Nat /\ Len(input) <= length
    <3>1. /\ Len(input) \in Nat /\ length = Len(input) + buffered + unread
          /\ buffered \in Nat /\ unread \in Nat
      BY <2>1, LenProperties DEF MainInv, Accounted
    <3>2. QED
      BY <3>1
  <2>3. files \in [Pids -> [state : FileStates, disk : Seq(Pids \X (1..MaxPackets)),
                            held : Seq(Pids \X (1..MaxPackets))]]
    BY <2>1 DEF MainInv, FilesInv, FileInv, Data
  <2>4. QED
    BY <2>1, <2>2, <2>3 DEF MainInv, Accounted, MainTypeOK
<1>2. QED
  BY <1>1, ProgramInductive, PTL

(* main.cpp:77-90: EXIT_SUCCESS means that the whole input was taken and no write failed, *)
(* and a file whose stream was closed without loss is complete.                          *)
THEOREM SuccessMeansComplete == SandstreamSpec => []SuccessIsComplete
<1>1. MainInv => SuccessIsComplete
  <2>1. SUFFICES ASSUME MainInv, status = "success" PROVE SuccessIsComplete
    BY DEF SuccessIsComplete
  <2>2. Len(input) = length
    <3>1. Len(input) \in Nat /\ length = Len(input) + buffered + unread
      BY <2>1, LenProperties DEF MainInv, Accounted
    <3>2. buffered = 0 /\ unread = 0
      BY <2>1 DEF MainInv, Accounted
    <3>3. QED
      BY <3>1, <3>2
  <2>3. ASSUME NEW p \in Pids
        PROVE  /\ files[p].state \notin {"broken", "ended"}
               /\ files[p].state = "closed" => files[p].disk = consumers[p].received
    <3>1. FileInv(p)
      BY <2>1 DEF MainInv, FilesInv
    <3>2. files[p].disk \in Seq(Data)
      BY <3>1 DEF FileInv
    <3>3. files[p].disk \o <<>> = files[p].disk
      BY <3>2
    <3>4. QED
      BY <2>1, <3>1, <3>3 DEF FileInv
  <2>4. QED
    BY <2>2, <2>3 DEF SuccessIsComplete
<1>2. QED
  BY <1>1, ProgramInductive, PTL

(* main.cpp:19-45: whatever fails, the files are those of StreamFiles: each holds the packets *)
(* of its PID from its creation on, in order and without a gap, and none twice unless a write   *)
(* to it failed and its stream, when it was destroyed, stored once more what it held then.       *)
THEOREM FilesAreInOrder == SandstreamSpec => FilesSpec
<1>1. SandstreamInit => Storage!Init
  <2>1. SUFFICES ASSUME SandstreamInit PROVE Storage!Init
    OBVIOUS
  <2>2. /\ sent = [p \in Pids |-> 0] /\ consumers = [p \in Pids |-> NoConsumer]
        /\ files = [p \in Pids |-> NoFile]
    BY <2>1 DEF SandstreamInit, Init
  <2>3. \A p \in Pids : /\ files[p].state = "none" /\ files[p].disk = <<>>
                        /\ consumers[p].since = 0
    BY <2>2 DEF NoFile, File, NoConsumer
  <2>4. QED
    BY <2>2, <2>3 DEF Storage!Init, Health
<1>2. MainInv /\ MainInv' /\ [SandstreamNext]_<<vars, mainVars>> => Storage!Next
  BY StepFiles DEF MainInv, allVars
<1>3. QED
  BY <1>1, <1>2, ProgramInductive, PTL DEF SandstreamSpec, FilesSpec, Storage!Spec
-----------------------------------------------------------------------------
(* A number that stands in WorkLeft, of which the rest is u unread and b buffered. *)
LEMMA WorkFalls ==
  ASSUME NEW u \in Nat, NEW b \in Nat, NEW g \in 0..1, NEW v \in Nat, NEW c \in Nat, NEW h \in 0..1,
         2 * v + c + h < 2 * u + b + g,
         unread = u, buffered = b, g = (IF source = "good" THEN 1 ELSE 0),
         unread' = v, buffered' = c, h = (IF source' = "good" THEN 1 ELSE 0)
  PROVE  WorkLeft' < WorkLeft
BY DEF WorkLeft

(* A read leaves less to do: what it brings in counts twice before and once behind it, *)
(* and one that brings nothing is the last.                                            *)
LEMMA ReadWorks == ASSUME Accounted, Read PROVE WorkLeft' < WorkLeft
<1>1. PICK n \in Nat, u \in Nat, m \in Nat :
        n = ReadCount /\ u = unread /\ m = BufferSize /\ m > 0
  BY DEF Accounted, ReadCount
<1>2. n <= u /\ n <= m /\ (n < m => n = u)
  BY <1>1 DEF ReadCount
<1>3. PICK v \in Nat : v = u - n
  BY <1>2
<1>4. unread' = v /\ buffered = 0 /\ buffered' = n /\ source = "good"
  BY <1>1, <1>3 DEF Read, Looping, Confirmed
<1>5. source' = IF n < m THEN "end" ELSE "good"
  BY <1>1 DEF Read, AtEnd
<1>6. CASE n < m
  <2>1. 2 * v + n + 0 < 2 * u + 0 + 1
    BY <1>2, <1>3, <1>6
  <2>2. 0 = (IF source' = "good" THEN 1 ELSE 0) /\ 1 = (IF source = "good" THEN 1 ELSE 0)
    BY <1>4, <1>5, <1>6
  <2>3. QED
    BY <1>1, <1>4, <2>1, <2>2, WorkFalls
<1>7. CASE ~(n < m)
  <2>1. 2 * v + n + 1 < 2 * u + 0 + 1
    BY <1>1, <1>2, <1>3, <1>7
  <2>2. 1 = (IF source' = "good" THEN 1 ELSE 0) /\ 1 = (IF source = "good" THEN 1 ELSE 0)
    BY <1>4, <1>5, <1>7
  <2>3. QED
    BY <1>1, <1>4, <2>1, <2>2, WorkFalls
<1>8. QED
  BY <1>6, <1>7

(* A packet taken is one less in the buffer. *)
LEMMA TakeWorks == ASSUME Accounted, NEW k, Take(k) PROVE WorkLeft' < WorkLeft
<1>1. PICK u \in Nat, b \in Nat : u = unread /\ b = buffered /\ b > 0
  BY DEF Accounted, Take
<1>2. PICK c \in Nat : c = b - 1
  BY <1>1
<1>3. PICK g \in 0..1 : g = (IF source = "good" THEN 1 ELSE 0)
  OBVIOUS
<1>4. unread' = u /\ buffered' = c /\ g = (IF source' = "good" THEN 1 ELSE 0)
  BY <1>1, <1>2, <1>3 DEF Take
<1>5. 2 * u + c + g < 2 * u + b + g
  BY <1>2
<1>6. QED
  BY <1>1, <1>3, <1>4, <1>5, WorkFalls

(* main.cpp:77-91: whatever is read and whatever fails, no step of the program can be     *)
(* repeated forever: while it runs each leaves less to do, and afterwards each destroys a  *)
(* stream.                                                                                *)
THEOREM NoStepForever == SandstreamSpec => WorkShrinks
<1> DEFINE Shrinks == /\ status' = "running" => WorkLeft' < WorkLeft
                      /\ status' # "running" => Streams' \subseteq Streams
                      /\ status # "running" => status' = status /\ Streams' # Streams
<1>1. ASSUME Accounted, FilesInv, SandstreamNext PROVE Shrinks
  <2>1. CASE Read
    BY <1>1, <2>1, ReadWorks DEF Read, Looping
  <2>2. CASE ReadFails \/ Exit \/ Abort
    <3>1. files' = files /\ status = "running" /\ status' # "running"
      BY <2>2 DEF ReadFails, Exit, Abort, Looping
    <3>2. QED
      BY <3>1 DEF Streams
  <2>3. ASSUME NEW k \in Packets,
               TakeUnknown(k) \/ TakeTrack(k) \/ TakePat(k) \/ TakePmt(k) \/ TakePart(k)
        PROVE  Shrinks
    <3>1. Take(k) /\ status' = status
      BY <2>3 DEF TakeUnknown, TakeTrack, TakePat, TakePmt, TakePart, Put
    <3>2. status = "running"
      BY <3>1 DEF Take
    <3>3. QED
      BY <1>1, <3>1, <3>2, TakeWorks
  <2>4. ASSUME NEW k \in Packets, WriteFails(k) PROVE Shrinks
    <3>1. /\ status = "running" /\ status' = "failure" /\ files[k.pid].state = "open"
          /\ \E n : files' = [files EXCEPT ![k.pid] = File("broken", Stored(@, n), @.held)]
      BY <2>4 DEF WriteFails, Take
    <3>2. \A p \in Pids : files'[p].state \in {"open", "broken"}
                          => files[p].state \in {"open", "broken"}
      BY <1>1, <3>1 DEF FilesInv
    <3>3. Streams' \subseteq Streams
      BY <3>2 DEF Streams
    <3>4. QED
      BY <3>1, <3>3
  <2>5. ASSUME NEW q \in Pids, Close(q) PROVE Shrinks
    <3>1. /\ files[q].state \in {"open", "broken"} /\ files'[q].state \notin {"open", "broken"}
          /\ status # "running" /\ status' = status
          /\ \A p \in Pids \ {q} : files'[p] = files[p]
      <4>1. /\ files[q].state \in {"open", "broken"} /\ status # "running" /\ status' = status
            /\ \A p \in Pids \ {q} : files'[p] = files[p]
            /\ \E n \in 0..Len(files[q].held) : files'[q] = Destroyed(files[q], n)
        BY <1>1, <2>5, DestroyedFacts
      <4>2. \A n : Destroyed(files[q], n).state \in {"closed", "cut", "ended"}
        BY DEF Destroyed, File
      <4>3. files'[q].state \in {"closed", "cut", "ended"}
        BY <4>1, <4>2
      <4>4. QED
        BY <4>1, <4>3
    <3>2. q \in Streams /\ q \notin Streams'
      BY <3>1 DEF Streams
    <3>3. Streams' \subseteq Streams
      BY <3>1 DEF Streams
    <3>4. QED
      BY <3>1, <3>2, <3>3
  <2>6. QED
    BY <1>1, <2>1, <2>2, <2>3, <2>4, <2>5 DEF SandstreamNext, Run
<1>2. MainInv /\ [SandstreamNext]_<<vars, mainVars>> => [Shrinks]_<<vars, mainVars>>
  BY <1>1 DEF MainInv
<1>3. QED
  BY <1>2, ProgramInductive, PTL DEF SandstreamSpec, WorkShrinks
=============================================================================
