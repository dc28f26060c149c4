-------------------------- MODULE MCLxController --------------------------
(* Instances of LxController for TLC. *)
EXTENDS LxController

CONSTANTS c1, j1, j2

OneCaller == {c1}
TwoJobs == {j1, j2}

Profile(hooks, freeze, stop, operations) ==
  [hooks |-> hooks, freeze |-> freeze, stop |-> stop, snifers |-> FALSE, calls |-> operations]

(* Both timers, without hooks and with those of Freeze and the Drops, where *)
(* DropFreezed starts a job out of a job; a ticker with the hooks of Dial; a *)
(* stopper; and a ticker with the snifer.                                   *)
Timed == Profile({}, TRUE, TRUE, Operations)
Leaves == Profile({"Freeze", "Shutdown"}, TRUE, TRUE, {"DropFreezed", "DumpPackets"})
Stops ==
  Profile({"Freeze", "Shutdown"}, TRUE, TRUE, Operations \ {"DropFreezed", "CommandEvery"})
Dials == Profile({"Boot", "Unfreeze"}, TRUE, FALSE, Operations)
Untimed == Profile({}, FALSE, TRUE, Operations)
Sniffs == [Profile({}, TRUE, FALSE, {"Dial", "DumpPackets"}) EXCEPT !.snifers = TRUE]

Profiles == {Timed, Leaves, Stops, Dials, Untimed, Sniffs}
=============================================================================
