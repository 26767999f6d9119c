----------------------------- MODULE StreamFiles -----------------------------
(***************************************************************************)
(* What the user of sandstream is promised of the files it writes, however   *)
(* it ends: the file of a PID holds the packets of that PID from the moment   *)
(* of its creation on, in order and without a gap, and it grows at its end     *)
(* only.  No packet is in it twice, unless a write to it failed: what was to   *)
(* be stored then may be stored once more, in part or in whole, behind what    *)
(* the file holds.  How soon what was taken from the input is stored, and       *)
(* whether all of it is, does not show here.                                    *)
(***************************************************************************)
EXTENDS Integers, Sequences

CONSTANT Pids

VARIABLES sent,      \* for each PID the packets that have passed
          state,     \* for each PID its file: "none", "good", "broken" or "ended"
          since,     \* for each PID the packets that had passed when its file was created
          content    \* for each PID what its file holds

vars == <<sent, state, since, content>>

Init == /\ sent = [p \in Pids |-> 0]
        /\ state = [p \in Pids |-> "none"]
        /\ since = [p \in Pids |-> 0]
        /\ content = [p \in Pids |-> <<>>]

(* For the file of a PID, the packets behind the m-th up to the n-th. *)
Run(p, m, n) == [i \in 1..(n - m) |-> <<p, since[p] + m + i>>]

Wait(p)   == state'[p] = state[p] /\ since'[p] = since[p] /\ content'[p] = content[p]

Create(p) == /\ state[p] = "none" /\ state'[p] = "good"
             /\ since'[p] = sent[p] /\ content'[p] = <<>>

Store(p)  == /\ state[p] = "good" /\ state'[p] \in {"good", "broken"} /\ since'[p] = since[p]
             /\ \E n \in Len(content[p])..(sent'[p] - since[p]) : content'[p] = Run(p, 0, n)

(* Once, and from a packet on that leaves no gap. *)
Repeat(p) == /\ state[p] = "broken" /\ state'[p] = "ended" /\ since'[p] = since[p]
             /\ \E m \in 0..Len(content[p]) :
                  \E n \in m..(sent[p] - since[p]) : content'[p] = content[p] \o Run(p, m, n)

Next == \A p \in Pids : /\ sent'[p] \in {sent[p], sent[p] + 1}
                        /\ Wait(p) \/ Create(p) \/ Store(p) \/ Repeat(p)

Spec == Init /\ [][Next]_vars
=============================================================================
