---------------------------- MODULE MCPauseGate ----------------------------
(* Instances of PauseGate for TLC. *)
EXTENDS PauseGate, TLC

CONSTANTS c1, c2, c3, s1, s2

OneController == {c1}
TwoControllers == {c1, c2}
ThreeControllers == {c1, c2, c3}
OneServer == {s1}
TwoServers == {s1, s2}

Anonymous == Permutations(Controllers) \cup Permutations(Servers)
=============================================================================
