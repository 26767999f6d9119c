------------------------------ MODULE MCDemuxer ------------------------------
(* Demuxer on a broadcast of two programs that share a track, with a network       *)
(* information table.  PIDs: 0 PAT, 1 and 2 PMTs, 3 to 5 tracks, 6 NIT, 7 and 8 none. *)
EXTENDS Demuxer, TLC

CONSTANT WithNit   \* whether the PAT names the PID of the NIT, under program number 0

NitPid == 6

MCPatTables ==
  {1 :> 100, (1 :> 100) @@ (2 :> 200)} \cup
  (IF WithNit THEN {(1 :> 100) @@ (2 :> 200) @@ (NitPid :> 0)} ELSE {})

(* The second program announces a track only later, shares one with the first at      *)
(* another stream_type, and lists the PID of the first PMT.  The NIT yields a track    *)
(* with a PID from its transport stream loop.                                          *)
MCPmtTables ==
  [p \in Pids |-> CASE p = 1 -> {(3 :> 27) @@ (4 :> 3)}
                    [] p = 2 -> {(4 :> 15), (1 :> 27) @@ (4 :> 15) @@ (5 :> 27)}
                    [] p = NitPid -> {(8 :> 240)}
                    [] OTHER -> {}]

(* README.md:7, "extract all available elementary streams": as the tables are repeated, *)
(* every track gets its consumer, unless its PID is one of PSI; one that a table lists  *)
(* only later too, although README.md:12 does not promise updates of PAT and PMT.        *)
EveryTrackGetsConsumer == <>[](\A p \in Tracks \ Programs : Kind(p) = "pes")
=============================================================================
