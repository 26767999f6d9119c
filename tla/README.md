# A verification of sandstream

sandstream reads an MPEG-2 transport stream (TS) from a file and writes every
elementary stream (ES) in it to a file of its own. This directory holds TLA+ models
of the program's parts, TLC runs that check them on small instances, and proofs,
checked by TLAPS, of what holds for every value of the parameters.

Paths in this document are relative to the repository (`src/` is its source directory).

## The system

One thread, one loop (`src/main.cpp:77-88`): a read fills the input buffer, then the
demuxer takes packet after packet out of it until less than a packet is left.

    file -> packetizer_t -> demuxer_t -+-> parser_pat_t -> on_pat -+
             (buffer,       (registry  |                           | new PMT parsers
              resync)        by PID)   +-> parser_pmt_t -> on_pmt -+ create(), new PES parsers
                                       +-> parser_pes_t -> on_data -> one file per PID

| component | state it keeps | operations | what makes it correct |
|---|---|---|---|
| `packetizer_t` | `data_storage`, `input_buffer` (pointer and size of the live bytes) | `request`, `confirm`, `is_depleted`, `get`, `sync` | the packets handed on are those of the input, however it is read; no byte overwritten, skipped or handed on twice |
| `ts_packet_t` | a copy of the header fields, a pointer to the payload in the buffer | constructor | the payload is what lies behind the adaptation field |
| `demuxer_t` | `packet_streams`: PID to parser | `consume`, `on_pat`, `on_pmt` | one parser per PID, for good; a consumer gets the packets of its PID; every track gets one |
| `parser_psi_t` | `section_data`: bytes not yet parsed | `put`, `try_parse_header`, `skip_padding_bytes` | every section is handed on whole, once, in order, as soon as it is complete |
| `parser_pat_t`, `parser_pmt_t` | - | `on_payload` | the entries of the table, no more; no byte behind the section |
| `parser_pes_t` | its consumer | `put`, `try_parse_header` | all bytes of the stream and none of a header |
| `main` | input stream, output files | read loop, `create`, `on_data` | all of the input is read, every file in the order of its stream, success only for a complete run |

The parts interact by calls and callbacks on one thread: `put` of a PAT or PMT parser
calls back into the demuxer, which changes the registry while it routes. Two kinds of
sharing make that hard. The **buffer** is shared between the packetizer, which moves
bytes in it, and the packets that point into it. The **registry** is shared between
routing and the tables, and decides by which came first. The **output** can fail in
three places (a file that cannot be opened, a write, the last flush), of which the code
notices one. Beyond that the difficulty lies
in **cuts** (reads cut the input anywhere, packets cut sections and PES packets, a
recording begins anywhere) and in **edges** (sizes computed by unsigned subtraction).
Nothing is persisted, nothing runs in parallel and nothing times out.

Not part of the program: `depends/googletest` (vendored, and by far the largest
part of the repository: the share of all its lines that these models stand for is small
for that reason, while of `src` they leave out only what is named under "What is not
modelled"), `test` (read for what it says of the code), `version` and `birthday`
(constants generated by the build).

The hazards, each at the line where it bites and with the properties that would catch
it, are listed in `PROJECT.json`.

## The modules

| module | models | kind |
|---|---|---|
| `TsFraming` | the packets of an input, as the user of the packetizer sees them | abstract specification |
| `Packetizer` | `src/packetizer.cpp` with the loops that drive it | state machine, refines `TsFraming` |
| `PrefixedStream` | the packetizer on recordings, plain or with extra bytes per packet | properties of a well-formed input |
| `MCPacketizer` | recursive reference definition of the packets; liveness | model checking |
| `PacketizerProofs` | inductive invariant, refinement, uniqueness of the packets, recordings, what `main`'s reads do to payloads | proofs |
| `PsiSections` | the sections of a stream, as the table parsers see them | abstract specification |
| `PsiParser` | `src/parser_psi.cpp` and the multiplexer that cuts sections into packets | state machine, refines `PsiSections` |
| `MCPsiParser` | all tilings of a short stream by sections | model checking |
| `PsiProofs` | inductive invariants, from the start of the stream and joined; refinement; progress of the loop | proofs |
| `TablePayloads` | the loops of `src/parser_pat.cpp` and `src/parser_pmt.cpp` | state machine |
| `MCTablePayloads` | all tables of up to three entries, and sections of unknown content | model checking |
| `TableProofs` | inductive invariant; what well-formed tables yield | proofs |
| `Demuxer` | `src/demuxer.cpp` and the calls of the factory | state machine |
| `MCDemuxer` | a broadcast of two programs with a shared track, and a NIT | model checking |
| `DemuxerProofs` | inductive invariant, action property | proofs |
| `EsExtraction` | payload offset of `src/ts_packet.cpp`, `src/parser_pes.cpp`, a channel that loses and repeats packets | state machine |
| `EsProofs` | inductive invariant | proofs |
| `StreamFiles` | the output files, as the user of the program sees them | abstract specification |
| `Sandstream` | `src/main.cpp` with the demuxer, section assembly and the files | composition, extends `Demuxer`, refines `StreamFiles` |
| `MCSandstream` | a broadcast of one program whose PMT is in two packets | model checking |
| `SandstreamProofs` | the composition runs the demuxer; inductive invariant, refinement, progress | proofs |
| `TrackProofs` | which tracks are extracted, and from where on | proofs |
| `LeastNumbers` | a set of natural numbers has a least element; `Max` and `Min` | lemmas the proofs share |

Definitions named `Slip_X` in a module are plausible mistakes in the definition that
follows; each property is known to tell one of them from the code.

### Packetizer

A byte is named by its position in the input, so `data_storage` maps cells to positions
and any overwriting, loss or reordering is visible. The only thing the code asks of a
byte is whether it is `0x47`: `syncBytes` is the set of positions where it is, and the
initial states have *every* such set. Pointers are offsets.

| action | code |
|---|---|
| `Read` (`Fill`) | `request()`, a read, `confirm()` with its `sync()`; `main.cpp` reads when `consume()` has returned |
| `Get` | `get()`: the packet, then `sync()`, before anybody reads the payload |
| `Put` | the `put()` of `consume()`: the payload is read where the packet points, *now* |

That `Get` and `Put` are two steps is the point of the model: between them `sync()` has
moved bytes. A read brings any number of bytes up to the room there is; `main.cpp` fills
the room unless the input ends, but `source_data_t` and `README.md:23-24` promise any
granularity, and the properties are about that promise. `MainSpec` is the packetizer under
`main.cpp`'s own reads (`MainRead`), proved to be a case of `Spec`. `FillAgain` lifts the guard that
the buffer is depleted, which the interface does not ask for.

`Sync` stands for both statements of `sync()`: the loop, as the number of bytes skipped
(`IsSkip`), and the `memmove` (`Settle`).

`PrefixedStream` adds no step. Since every input is among the initial states, recordings
are too; `IsRecording` and `ExtraIsClean` pick them out, and its properties are
implications from them. `RoomForThree` is the size of buffer from which on a full buffer
keeps the payload of the packet got (`FullBufferKeepsPayload`); 10 MiB is far beyond it.

### PsiParser

A byte of `section_data` is the position it has in the stream of sections; stuffing and
the pointer field are values of their own. A stream is a tiling of positions by sections
(`IsStream`), and packets (`Packet`) are all that a multiplexer may cut from it: any
number of section bytes, a pointer field when a section starts in them, stuffing behind
the end of a section. A packet with stuffing only is left out: no multiplexer sends it.

`put()` is a loop, so it is three actions: `Put` appends, `HandOn` is one round,
`EndPut` erases what was consumed. `section_length` is read from the bytes at hand: at
a section's header it is that section's length, elsewhere in payload it may be anything.
`AsSize` is the wrap of `size_t`.

`JoinSpec` starts a parser after any number of bytes have gone by.

### TablePayloads

A section is the entries that lie in it, at their offsets; what is read at any other offset
may turn out to be any entry (`EntriesAt`). So a well-formed table is read as it is, and a
damaged or misread one in every possible way. Sizes are the code's, with the wrap of
`section_length - 5` and of `available - crc_length`. The two functions are one machine:
`Header` (PMT only), `Entry` (a round of the loop), `Return`. Once a byte behind the section
has been read (`overread`) the machine stops, as nothing can be said of the rest.

### Demuxer

Each action is one round of `consume()` by what `find()` returns: `ConsumePat`,
`ConsumePmt`, `ConsumePes`, `Ignore`. What tables a PID's packets make a PSI parser call
back is a parameter (`PatTables`, `PmtTables`), so the model covers updates and
conflicts, and the theorems hold for all tables. A consumer remembers how many packets
of its PID had gone by when it was made; what `on_data` is called with is recorded as PID
and number, so a packet lost, repeated or misrouted shows.

### EsExtraction

Packets are records of counts (header bytes, ES bytes, adaptation field) and `ByteAt`
gives the byte at an offset; the parser's sizes and offsets are the code's, with the wrap.
A byte read behind the packet (`LengthByte`) may have any value. A packet may be lost or
come twice on its way (`Transmit`), which the code cannot notice: it does not read the
continuity counter. A PES header may be split: `SplitAt` has the numbers of its bytes that
may be in the first of its packets. The repository supports no split headers
(`src/parser_pes.h:11`, `README.md:44-45`), but what the code makes of one differs:
cut in front of its length byte, it is found incomplete and `put()` gives its bytes to
`on_data` as if they were the stream's, in this packet and the next (`Carried` counts them);
cut behind that, it is taken for a whole one. `es_extraction` has cuts of the first kind,
`es_split` of the second. `assert(false)` on an
unimplemented stream id ends the program (`aborted`), as it does in the default build,
which does not define `NDEBUG`.

### Sandstream

The program as a whole, with a packet as the unit. `Sandstream` extends `Demuxer`: each of
its `Take...` actions is a packet taken out of the buffer, joined with the action of the
demuxer that it leads to, so the registry, the consumers and the routing are the
demuxer's own. What it adds:

| state | code | steps |
|---|---|---|
| `unread`, `source`, `buffered` | the input stream and the buffer between `confirm()` and the end of `consume()` | `Read`, `ReadFails`, `Exit` |
| `section_data` | whether a PSI parser is between sections, within one, or adrift | `TakePart`, `TakePat`, `TakePmt` |
| `files` | the `ofstream` of each `output_sink_t`: what is stored, what it holds back | `Open`, `TakeTrack`, `WriteFails`, `Close` |
| `status` | what `main` returns, or that it aborted | `Exit`, `ReadFails`, `WriteFails`, `Abort` |

The input is any sequence of packets, so every loss, repetition and change of order is in
it. A PSI parser that is given a packet that does not go on where it left off is `Adrift`
from then on (the code never starts afresh at a unit start, see `psi_join`) and may call back
with any table of its PID, or none, at every packet.

`source.exceptions(badbit)`: the end of the input sets `eofbit` and `failbit`, which only end
the loop; an error throws and `main` returns a failure. `sink->exceptions(badbit)`: a write
that fails throws, a file that cannot be opened sets `failbit` only and swallows what it is
given. An `ofstream` stores what it holds back when its buffer is full and when it is
destroyed, which is after `main` has chosen its result and where an error goes unnoticed
(`Close`, which may store only a part). A write that fails may have stored a part too, and
its stream still holds all of it: it is destroyed like the others, and stores its buffer from
the beginning (`Destroyed`), so that what was stored already is in the file a second time.
That is what libstdc++ does, as a compiled `ofstream` on a device that fills up and is freed
again shows.

`assert(false)` in `parser_pes_t` ends the program on the spot (`Abort`, for any packet of a
track, since a packet does not say what kind of PES packet it carries): nothing is destroyed.
A packet of a track whose payload is empty makes no call of `on_data`; here it is written
as a packet of no bytes, which leaves the file the same.

`StreamFiles` says what remains of the output whatever fails: a file holds the packets of its
PID from its creation on, in order and without a gap, grows at its end only, and has none
twice unless a write to it failed; then what the stream held back may follow once more.

## The runs

| run | instance | shows |
|---|---|---|
| `packetizer` | capacity 8, packets of 3 with a header of 1, input of 10, all 1024 inputs, recordings with two extra bytes per packet among them | the eleven properties of `Packetizer.cfg` |
| `packetizer_alias` | `main`'s reads of a plain stream of 11 bytes, capacity 7 | `PayloadIntact` is violated |
| `packetizer_free` | inputs of 10 bytes, capacity 7, reads at any time | `LiveBytesInOrder` is violated |
| `prefixed_sync` | capacity 7, extra bytes may be `0x47` | `ExtraBytesSkipped` is violated |
| `psi_parser` | stream of 18 section bytes, headers of 3+1, packets of at most 13 | the six properties of `PsiParser.cfg` |
| `psi_join` | stream of 13, packets of at most 8, joined anywhere | `CompleteSections` is violated |
| `table_payloads` | tables of up to 3 entries with descriptors of 0 or 3 bytes, sections of length 0 to 26 of unknown content | the four properties of `TablePayloads.cfg` |
| `demuxer` | 7 PIDs, two PATs, three PMTs, 2 packets per PID | the six properties of `Demuxer.cfg` |
| `demuxer_nit` | 8 PIDs, the PAT also names the NIT | `OnlyTracksCreated` is violated |
| `es_extraction` | packets of 12, header data of 0 or 2 bytes, stream of 12, two packets lost or repeated or headers split in front of their length byte | the three properties of `EsExtraction.cfg` |
| `es_split` | stream of 60, one header split at its length byte or behind it (or one packet lost or repeated) | `NoOverrun` is violated |
| `sandstream` | input of at most 5 packets out of six (PAT, PMT of one packet, PMT of two, two tracks), buffer of 2 | the six properties of `Sandstream.cfg` |

Run one with `tlc -config Packetizer.cfg MCPacketizer`, and so on.

**Why the bounds are enough.** With a capacity of 8 and packets of 3 the buffer holds
two packets and a part of one, and with two extra bytes per packet it is the smallest
that `RoomForThree` admits; it can be full with a partial packet at its front, and the
moved tail (up to 2 bytes) overlaps a packet at the front and not one behind it; ten
bytes make three packets and a rest, so every case of `sync()` follows every other.
Eighteen section bytes make three sections of at least five (so no `payload_size` wraps in
`psi_parser`: shorter lengths are what a parser reads that joined, in `psi_join`); packets of 13 hold the end of
one section, a whole one and the beginning of a third, and smaller ones hold any part of
one, a single header byte included. The demuxer decides PID by PID, so two programs, one
shared track, one track that comes late and one PID listed in two roles give every
combination of two tables meeting on a PID. In `EsExtraction` every filling of a packet
occurs, a payload without stream bytes and a packet without payload included, and twelve
bytes of stream are two packets of any filling with a loss or a repetition at each; of the
four bytes in front of the length byte, a cut behind the second leaves less than the fixed
part, and one behind the third is one short of being taken for whole.
Three entries make a PID listed twice with another between; 26 is more than a PMT of three
entries without descriptors, and lengths below 9 are those that wrap. In `sandstream`, five
packets are a PAT, a PMT of two packets, and a packet of a track on each side of its end or
of each track; a buffer of two makes inputs that end with a full read, a short one and an
empty one. An input of six was checked too and takes some minutes
more.

**Scaled constants.** Packets, headers and section headers are smaller than in the
code (188, 4, 6+2+1, 3+5); all are CONSTANTS, and the assumptions on them hold of
the real values. `table_payloads` has the real sizes of headers, entries and CRC; `size_t` wraps
at 2^16 there and at 64 in the other runs, beyond every size that is met without a wrap.

**Fairness.** `Packetizer!FairSpec` has weak fairness of `Get` and `Put` (the loop of
`consume()` runs on) and of a read that brings something (the loop of `main` goes on
until the input ends, and a read brings bytes while there are any). `PsiParser!FairSpec`
has weak fairness of the steps inside `put()`, and strong fairness of packets that carry
section bytes: packets without payload may come between them, but not for ever.
`Demuxer!FairSpec` assumes that each table of the broadcast is repeated, which broadcasts
do several times a second. The tables of `demuxer` do not put a track and a PMT on the
same PID in an order that would starve one of them; `EveryTrackGetsConsumer` excludes the
PIDs of PMTs.

`TablePayloads!FairSpec` has weak fairness of its steps: a function call is not
interrupted. `Sandstream!FairSandstreamSpec` has weak fairness of `Run`, the steps of a
program whose streams do not fail, taken together: the loop of `main` runs on, and the
input has an end. Failures may happen and are not owed.

`es_extraction`, `table_payloads` and `sandstream` switch the deadlock check off: a stream
that has been sent ends and the program may abort, a function returns, and a program ends
or aborts.

## What the runs found

Six statements of the repository are not true of the code. Each was reproduced with the
compiled code before it was recorded.

1. **A packet's payload is overwritten before it is read** (`packetizer_alias`,
   `src/packetizer.cpp:44`). One whole packet and the beginning of the next in the buffer:
   `get()` moves the beginning over the packet. `DamageConfinedToTail` says, and is
   proved to say, how far the damage goes: the first bytes of the buffer, fewer than a packet.
   `main.cpp` meets it at the end of the input only, because it fills 10 MiB at a time: the
   run has `main`'s own reads, of an input that ends inside a packet, and `OnlyLastDamaged`
   is the proof that of a clean recording no other payload than that of the last whole
   packet is ever damaged.
2. **`request()` offers live bytes** (`packetizer_free`, `src/packetizer.cpp:11`) when
   called before the buffer is depleted and bytes were skipped in front. The guard that
   saves `main.cpp` is that it always drains the buffer first; `BytesStayInOrder` is the
   proof that the guard suffices.
3. **Extra bytes are not always skipped** (`prefixed_sync`): one equal to `0x47` starts a
   false packet. `OnlyRealPackets` is the promise that does hold, and is proved.
4. **A PSI parser that joins in the middle of a section** reads a header out of its
   payload (`psi_join`, `src/parser_psi.cpp:9`): the pointer field is ignored and a unit
   start does not discard what was collected. What it hands on is worthless, but its loop
   ends and never leaves `section_data` (`JoinedStaysInside`, `JoinedRoundsAdvance`).
5. **The NIT is parsed as a PMT** (`demuxer_nit`, `src/demuxer.cpp:30`): program number 0
   is not excluded, and an output file is created for a PID out of the NIT. Without that
   PID in a PAT the promise holds (`WithoutNitOnlyTracks`).
6. **A partial PES header is taken for a whole one** (`es_split`, `src/parser_pes.cpp:66`):
   the size of the rest wraps, and `on_data` is given nearly all of memory. Split headers are
   not supported (`src/parser_pes.h:11`, `README.md:44-45`), so the stream in such a
   PES packet is not owed; but the test at `test/ut_parser_pes.cpp:28-40` says that a
   partial header is found incomplete. `ExtractedInOrder` says what becomes of those that are.

The README says that there is no support for "PAT/PMT updates" (`README.md:12`).
`EveryTrackGetsConsumer` and `TracksExtracted` hold with tables that change all the same: they
say what the code makes of an update, which is that new tracks are added and known ones stay.

Three more are no disagreement, since nothing in the repository says otherwise, but worth
knowing: a file that cannot be opened and a last flush that fails are silent, so
`EXIT_SUCCESS` does not mean that all output is there. `SuccessIsComplete` says exactly
what it does mean. A write that fails is reported, but may leave bytes twice in the file
(`StreamFiles!Repeat`). And a section shorter than its CRC makes the table loops run on
behind the data (`ReadsInside` names the condition); such a section is what a PSI parser
that lost its place reads.

## The proofs

Seven proof modules follow one argument: an invariant that is inductive, one lemma per
action that it is preserved (`ReadIInv`, `GetIInv`, ...), and theorems that follow from
`Spec => []IInv` with temporal logic alone. TLC checked every part first. The eighth,
`LeastNumbers`, has the one induction they take: a set of natural numbers that is not
empty has a least element, from the library's well-founded induction.

Every invariant and every action property of a passing run is proved, and so is every
refinement. The hypotheses beyond the assumptions on constants are `SplitsAreSeen` (PES
headers are whole, or cut in front of their length byte), `NoNit` (no PAT lists a PID under program number
0), `NeverFull` (no stream has 2^64 bytes) and, inside properties, `IsRecording`,
`ExtraIsClean`, `RoomForThree` and `RolesApart` (no PMT lists as a track the PID of a PAT or
PMT). The first two are what `es_split` and `demuxer_nit` violate.

**`PacketizerProofs`**, from `SizesAssumption` only (a buffer of at least one packet, a
packet of at least its header): `TypeOK`, `LiveBytesInOrder`, `HeadIsSync`,
`DamageConfinedToTail`, `NoSyncByteLost`, `EndLeavesNothing`, and `Spec => FramingSpec`.
`LiveBytesInOrder` is not inductive by itself: a read lands at the end of the live bytes
only because `data` is 0 whenever the buffer is depleted (`RewoundWhenDepleted`). The
refinement needs that the packet got is the next one of the input while it is pending
(`PendingIsNext`), which takes `HeadIsSync` (it starts at a sync byte) and
`NoSyncByteLost` (none was passed over). `SyncLemma` states once what `sync()` does to live
bytes, and `Read` and `Get` both cite it. Under the mapping (`starts` is the first byte of
every packet delivered), `Read` is an `Arrive`, `Put` an `Emit`, and `Get` a stutter.

- *One answer.* `FramedExactly` adds that at the end of an input the packets are a framing
  of it that leaves none out, and that there is no other: two framings agree as far as
  both go (`FramingsAgree`, by the least place where they differ), and a complete one is
  as long as any (`CompleteIsLongest`). So they depend on nothing but the bytes.
- *Recordings*, from `ExtraAssumption`: `OnlyRealPackets` by `PendingIsNext` (the packet got
  starts at the first sync byte behind the last packet, in a clean recording the next
  real one), and `WholeRecording` by that and `EndLeavesNothing`.
- *Payloads.* `FullBufferKeepsPayload`: while the live bytes reach to the end of the
  buffer, the tail that `sync()` moves ends before the packet got begins. As `main` reads,
  the buffer is full until the input is at its end (`FullUntilEnd`), so a packet that is
  damaged has no whole one behind it: `OnlyLastDamaged`.

**`PsiProofs`**, from `PsiAssumption` (streams are tilings by sections, a header has two
bytes at least, sizes do not reach 2^64): `TypeOK`, `RestInOrder` and
`Spec => SectionsSpec`. The invariant says what `section_data` is from `consumed` on: the
rest of the stream that has arrived, and stuffing only behind a section that ends with
it and, inside the loop, has not been handed on. From that, the header read at
`consumed` is the header of a section, so `section_length` has one value and
`payload_size` does not wrap. On top of it, `HandedInv` says which calls have been made,
and gives `HandedSoFar` and `CompleteSections`. A parser that joins anywhere has none of
this; `JoinInv` keeps only sizes, with the wrap of `payload_size`, and with `NeverFull` it is enough for `TypeOK` and
`RoundsAdvance` under `JoinSpec`, whose first calls `psi_join` shows to be wrong.

**`TableProofs`**, from `TablesAssumption` (sizes as in the code or smaller, sections
shorter than a wrap): `TypeOK`, `ReadsInside` and `TableAsListed` for all sections and tables of
any number of entries. The invariant is
that `position` is always the offset of an entry or of the CRC in a well-formed table, and
that `result` is what the entries in front of `position` say.

**`DemuxerProofs`**, from `DemuxerAssumption` only (tables list PIDs): `TypeOK`,
`CreatedOnce`, `RoutedInOrder`, `ConsumersAnnounced` and `ParserNeverReplaced`, for every set
of PIDs and all tables, conflicting and changing ones included. `RoutedInOrder` needs that
a consumer was made no later than now (`MadeBeforeNow`). `WithoutNitOnlyTracks` follows from
`ConsumersAnnounced` and `CreatedOnce`.

**`EsProofs`**, from `EsAssumption` and `SplitsAreSeen`: `TypeOK`, `ExtractedInOrder` and
`NoOverrun`, for every size of packet and header and any number of losses, repetitions and
split headers. The invariant (`IsSound`) is that a packet on the wire is filled exactly, and
that one with a unit start has its PES header whole or so little of it that the parser finds it
incomplete; `es_split` shows that the condition is needed.

**`SandstreamProofs`**, from `DemuxerAssumption` and `SandstreamAssumption`.
`ProgramRunsDemuxer` proves that every behaviour of the program is one of `Demuxer`, so all
its theorems hold of the whole program without being proved again (`ProgramRoutes`). On top
of the demuxer's invariant come `Accounted` (a packet of the input is unread, buffered or
taken) and `FilesInv` (what a good file and its buffer hold is what its consumer was given;
what a stream with a failed write holds back follows a packet that is in its file or comes
next). They give `MainTypeOK`, `SuccessIsComplete`, `WorkShrinks` and the refinement `SandstreamSpec => FilesSpec`, for every
input, every size of buffer and every failure.

**`TrackProofs`** proves `TracksExtracted`, which speaks of the whole history of the input.
The invariant (`ExtractInv`) relates each part of the state to the packets taken so far: a
PSI parser that was given clean sections only is idle or within the section of the last
packet it saw, never adrift; a PID is parsed as a PMT if and only if a PAT that names it is
complete; a track has a consumer if and only if it was announced, and then as many of its
packets have gone by since as lie behind the first announcement. A step appends one
packet to the history, so the lemmas say what one more packet does to the first, the last
and the number of the packets of a kind. `TracksAreStored` joins it with the theorems on
the files to say what is on the disk when the program reports success.

**Only model-checked**: that something happens at last (`EveryPacketDelivered`,
`EverySectionHanded`, `ParseEnds`, `EveryTrackGetsConsumer`, `ProgramEnds`), since the prover
does not reason about fairness. What these rest on is proved where it is not plain:
`RoundsAdvance` and `WorkShrinks` say that each step of a loop leaves less to
do, and `EndLeavesNothing` and `HandedSoFar` that nothing is left where it stops. The
recursive definition `FramesFrom`, with which TLC compares the packets, is out of the
prover's reach too; `FramedExactly` says the same without recursion.

## What is not modelled

- The values of bits and bytes: PIDs, flags, two-byte values; a field is what it means.
- `main` before its loop (`src/main.cpp:52-67`): the number of arguments and an input file
  that cannot be opened, which end the program before it has any state.
- Damaged packets: the code does not read the error indicator, and what a wrong
  adaptation length leads to (a size that wraps) is undefined.
- Table versions, CRC and `current_next_indicator`, which the code does not read either.
- In `Sandstream`, a packet completes at most one section, be the parser in step or
  adrift; `Demuxer` takes a packet with several sections as several rounds.
- In `Sandstream`, a parser that is adrift only ever calls back with a table of its PID. The
  lengths it reads may also wrap `payload_size` and send the table loops behind their data,
  where the behaviour is undefined; `PsiParser` and `TablePayloads` say when.
- In `Sandstream`, the bytes of a packet that is stored in part, and running out of memory.
- A buffer smaller than a packet, with which the read loop would never end.
- `depends/googletest`: vendored.

## Plan

Done: 1. packetizer and its proofs; 2. section assembly and its proofs; 3. table
payloads and their proofs; 4. demuxer and its proofs; 5. ES extraction with losses and
repetitions, and its proofs; 6. the program and its output, and its proofs; 7. recordings
with extra bytes, proved; 8. proofs of which tracks are extracted, of the damage that
`main`'s reads do, of parsers that join anywhere, and of the progress of the loops.

What is left, in this order:

9. `Sandstream` over `TsFraming`: packets that the packetizer finds in bytes, with its
   damage to the last packet of a read, in place of packets as the unit.
10. Several tables called back by one packet.
