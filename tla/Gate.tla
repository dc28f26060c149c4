-------------------------------- MODULE Gate --------------------------------
(***************************************************************************)
(* What Pause, Resume and Wait of a Director and of a ProxyStream promise  *)
(* to the code that uses them: a gate.  Pausing shuts the gate, resuming   *)
(* opens it and lets go everybody who waits, and a server that arrives at  *)
(* a shut gate is held until the gate opens.                               *)
(***************************************************************************)

CONSTANTS
  Controllers,      \* the goroutines that call Pause and Resume
  Servers           \* the goroutines that call Wait

VARIABLES
  paused,           \* is the gate shut?
  held,             \* the servers held at it
  op                \* the call each controller has under way

vars == <<paused, held, op>>

TypeOK ==
  /\ paused \in BOOLEAN
  /\ held \subseteq Servers
  /\ op \in [Controllers -> {"none", "pause", "resume"}]

Init ==
  /\ paused = FALSE
  /\ held = {}
  /\ op = [c \in Controllers |-> "none"]

Call(c, o) ==
  /\ op[c] = "none"
  /\ op' = [op EXCEPT ![c] = o]
  /\ UNCHANGED <<paused, held>>

Pause(c) ==
  /\ op[c] = "pause"
  /\ op' = [op EXCEPT ![c] = "none"]
  /\ paused' = TRUE
  /\ UNCHANGED held

Resume(c) ==
  /\ op[c] = "resume"
  /\ op' = [op EXCEPT ![c] = "none"]
  /\ paused' = FALSE
  /\ held' = {}

Arrive(s) ==
  /\ paused
  /\ s \notin held
  /\ held' = held \cup {s}
  /\ UNCHANGED <<paused, op>>

Next ==
  \/ \E c \in Controllers :
       \/ \E o \in {"pause", "resume"} : Call(c, o)
       \/ Pause(c)
       \/ Resume(c)
  \/ \E s \in Servers : Arrive(s)

Spec == Init /\ [][Next]_vars
=============================================================================
