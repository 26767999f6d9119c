---------------------------- MODULE MCSandstream ----------------------------
(* Sandstream on a broadcast of one program.  PIDs: 0 PAT, 1 PMT, 2 and 3 tracks.  The *)
(* PMT is in two packets; an older version of it, in one packet, has only one track.   *)
EXTENDS Sandstream, TLC

MCPatTables == {1 :> 100}
MCPmtTables == [p \in Pids |-> IF p = 1 THEN {2 :> 27, (2 :> 27) @@ (3 :> 15)} ELSE {}]

Section(pid, table, part, parts) ==
  [pid |-> pid, table |-> table, part |-> part, parts |-> parts]
Track(pid) == [pid |-> pid, table |-> <<>>, part |-> 0, parts |-> 0]

MCPackets == {Section(0, 1 :> 100, 1, 1),
              Section(1, 2 :> 27, 1, 1),
              Section(1, (2 :> 27) @@ (3 :> 15), 1, 2),
              Section(1, (2 :> 27) @@ (3 :> 15), 2, 2),
              Track(2), Track(3)}
=============================================================================
