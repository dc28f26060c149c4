------------------------------- MODULE Snifer -------------------------------
(***************************************************************************)
(* lxcontroller.Snifer: Live opens a packet source and starts a goroutine  *)
(* that reads it and emits the packets, until Kill asks it to stop or the  *)
(* source ends.  Caller and goroutine meet in two atomic flags, active and *)
(* killed, and in the field psource, which has no lock.  Every Live that   *)
(* gets past its check is a session: a source and the loop that reads      *)
(* whatever psource is at the time.                                        *)
(***************************************************************************)
EXTENDS Integers

CONSTANTS
  Callers,          \* the goroutines that call Live, Kill and Close
  MaxSessions       \* bound: calls of Live that open a source

ASSUME SessionsAssumption == MaxSessions \in Nat

Sessions == 1 .. MaxSessions

VARIABLES
  active, killed,   \* the two flags
  streams,          \* s.streams
  opened,           \* sources opened so far
  handle,           \* the session whose source s.handle is, 0 at first
  psource,          \* the session whose source s.psource is
  input,            \* the source of each session
  loop,             \* where the goroutine of each session is
  pc,               \* where each caller is
  mine              \* the session it is starting

vars == <<active, killed, streams, opened, handle, psource, input, loop, pc, mine>>

Init ==
  /\ active = 0 /\ killed = 0
  /\ streams = "open"
  /\ opened = 0 /\ handle = 0 /\ psource = 0
  /\ input = [i \in Sessions |-> "none"]
  /\ loop = [i \in Sessions |-> "none"]
  /\ pc = [c \in Callers |-> "idle"]
  /\ mine = [c \in Callers |-> 0]

-----------------------------------------------------------------------------
(* The callers *)

Goto(c, l) == pc' = [pc EXCEPT ![c] = l]

(* Faulty variant: nobody is ever found active. *)
NeverActive == FALSE
IsActive == active = 1

(* Live returns at once if the snifer is active, ... *)
Live(c) ==
  /\ pc[c] = "idle"
  /\ Goto(c, IF IsActive THEN "idle" ELSE "opening")
  /\ UNCHANGED <<active, killed, streams, opened, handle, psource, input, loop, mine>>

(* ... opens a source, or fails, ... *)
Open(c) ==
  /\ pc[c] = "opening"
  /\ opened < MaxSessions
  /\ opened' = opened + 1
  /\ handle' = opened + 1
  /\ input' = [input EXCEPT ![opened + 1] = "open"]
  /\ mine' = [mine EXCEPT ![c] = opened + 1]
  /\ Goto(c, "starting")
  /\ UNCHANGED <<active, killed, streams, psource, loop>>

OpenFails(c) ==
  /\ pc[c] = "opening"
  /\ Goto(c, "idle")
  /\ UNCHANGED <<active, killed, streams, opened, handle, psource, input, loop, mine>>

(* ... makes it the packet source, starts the goroutine, ... *)
Go(c) ==
  /\ pc[c] = "starting"
  /\ psource' = handle
  /\ loop' = [loop EXCEPT ![mine[c]] = "check"]
  /\ Goto(c, "activating")
  /\ UNCHANGED <<active, killed, streams, opened, handle, input, mine>>

(* ... and only then sets the flag.                                        *)
(* Faulty variant: it does not. *)
NotActivated == active
Activated == 1

Activate(c) ==
  /\ pc[c] = "activating"
  /\ active' = Activated
  /\ Goto(c, "idle")
  /\ UNCHANGED <<killed, streams, opened, handle, psource, input, loop, mine>>

(* Kill does nothing unless the snifer is active; Close closes the streams *)
(* and kills.                                                              *)
Kill(c, close) ==
  /\ pc[c] = "idle"
  /\ streams' = IF close THEN "closed" ELSE streams
  /\ Goto(c, IF IsActive THEN "killing" ELSE "idle")
  /\ UNCHANGED <<active, killed, opened, handle, psource, input, loop, mine>>

Killed(c) ==
  /\ pc[c] = "killing"
  /\ killed' = 1
  /\ Goto(c, "idle")
  /\ UNCHANGED <<active, streams, opened, handle, psource, input, loop, mine>>

-----------------------------------------------------------------------------
(* The goroutine of a session *)

(* The file is at its end, or the device is gone. *)
InputEnds(i) ==
  /\ input[i] = "open"
  /\ input' = [input EXCEPT ![i] = "eof"]
  /\ UNCHANGED <<active, killed, streams, opened, handle, psource, loop, pc, mine>>

At(i, l) == loop[i] = l
LoopTo(i, l) == loop' = [loop EXCEPT ![i] = l]

(* Faulty variant: the flag is not looked at. *)
NeverKilled == FALSE
KillSeen == killed = 1

Check(i) ==
  /\ At(i, "check")
  /\ LoopTo(i, IF KillSeen THEN "dropActive" ELSE "read")
  /\ UNCHANGED <<active, killed, streams, opened, handle, psource, input, pc, mine>>

(* NextPacket returns a packet, which is emitted, or any error but EOF.    *)
NextPacket(i) ==
  /\ At(i, "read")
  /\ input[psource] = "open"
  /\ LoopTo(i, "check")
  /\ UNCHANGED <<active, killed, streams, opened, handle, psource, input, pc, mine>>

(* A listener, or the decoding of the packet, panics: the goroutine ends in  *)
(* its recover and leaves the flags as they are.                            *)
Panics(i) ==
  /\ At(i, "read")
  /\ LoopTo(i, "gone")
  /\ UNCHANGED <<active, killed, streams, opened, handle, psource, input, pc, mine>>

(* Faulty variant: EOF is skipped like any other error. *)
AnyError == "check"
AfterEOF == "dropActive"

EOF(i) ==
  /\ At(i, "read")
  /\ input[psource] = "eof"
  /\ LoopTo(i, AfterEOF)
  /\ UNCHANGED <<active, killed, streams, opened, handle, psource, input, pc, mine>>

DropActive(i) ==
  /\ At(i, "dropActive")
  /\ active' = 0
  /\ LoopTo(i, "dropKilled")
  /\ UNCHANGED <<killed, streams, opened, handle, psource, input, pc, mine>>

DropKilled(i) ==
  /\ At(i, "dropKilled")
  /\ killed' = 0
  /\ LoopTo(i, "tail")
  /\ UNCHANGED <<active, streams, opened, handle, psource, input, pc, mine>>

(* The goroutine ends with a Kill of its own, which may hit a successor. *)
Tail(i) ==
  /\ At(i, "tail")
  /\ LoopTo(i, IF IsActive THEN "tailKill" ELSE "gone")
  /\ UNCHANGED <<active, killed, streams, opened, handle, psource, input, pc, mine>>

TailKill(i) ==
  /\ At(i, "tailKill")
  /\ killed' = 1
  /\ LoopTo(i, "gone")
  /\ UNCHANGED <<active, streams, opened, handle, psource, input, pc, mine>>

LoopStep(i) ==
  \/ Check(i) \/ NextPacket(i) \/ Panics(i) \/ EOF(i) \/ DropActive(i) \/ DropKilled(i)
  \/ Tail(i) \/ TailKill(i)

CallStep(c) == Open(c) \/ OpenFails(c) \/ Go(c) \/ Activate(c) \/ Killed(c)

Next ==
  \/ \E c \in Callers : Live(c) \/ CallStep(c)
  \/ \E c \in Callers, close \in BOOLEAN : Kill(c, close)
  \/ \E i \in Sessions : LoopStep(i) \/ InputEnds(i)

Spec == Init /\ [][Next]_vars

(* The goroutines keep running.  NextPacket returns at the latest when the *)
(* read timeout of the configuration has passed.                           *)
Fairness ==
  /\ \A c \in Callers : WF_vars(CallStep(c))
  /\ \A i \in Sessions : WF_vars(LoopStep(i))

FairSpec == Spec /\ Fairness

-----------------------------------------------------------------------------
(* Properties *)

TypeOK ==
  /\ active \in {0, 1} /\ killed \in {0, 1}
  /\ streams \in {"open", "closed"}
  /\ opened \in 0 .. MaxSessions
  /\ handle = opened
  /\ psource \in 0 .. opened
  /\ input \in [Sessions -> {"none", "open", "eof"}]
  /\ loop \in [Sessions -> {"none", "check", "read", "dropActive", "dropKilled", "tail",
                            "tailKill", "gone"}]
  /\ pc \in [Callers -> {"idle", "opening", "starting", "activating", "killing"}]
  /\ mine \in [Callers -> 0 .. opened]

Capturing(i) == loop[i] \in {"check", "read"}
Quiet == \A c \in Callers : pc[c] = "idle"

(* However sessions follow each other, no two goroutines ever read packets  *)
(* at once, so that no packet is taken by the loop of a session that was    *)
(* killed.                                                                  *)
OneCapture == \A i, j \in Sessions : Capturing(i) /\ Capturing(j) => i = j

(* Between calls a loop that captures is one that IsActive reports, so that *)
(* a Kill made then is not ignored, also when loops of earlier sessions are *)
(* still winding down and reset the flags.                                  *)
CaptureIsActive == Quiet => \A i \in Sessions : Capturing(i) => active = 1

(* A Kill ends the loop that captures, unless the goroutine of an earlier   *)
(* session has yet to reset the flags and wipes the request out.            *)
KillEnds ==
  \A i \in Sessions :
    /\ Capturing(i) /\ killed = 1
    /\ \A j \in Sessions : loop[j] \notin {"dropActive", "dropKilled"}
    ~> ~Capturing(i)

(* When its source has ended a loop ends by itself. *)
EOFEnds ==
  \A i \in Sessions : Capturing(i) /\ input[psource] = "eof" ~> ~Capturing(i)
=============================================================================
