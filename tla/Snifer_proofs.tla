---------------------------- MODULE Snifer_proofs ----------------------------
(***************************************************************************)
(* A Snifer used by one goroutine never has two loops that capture, however *)
(* many sessions follow each other and however slowly the loops of earlier  *)
(* ones wind down; and the loop that captures is one IsActive reports.      *)
(***************************************************************************)
EXTENDS Snifer, TLAPS

LEMMA InitTypeOK == Init => TypeOK
  BY SessionsAssumption DEF Init, TypeOK, Sessions

LEMMA CallTypeOK ==
  ASSUME TypeOK, NEW c \in Callers,
         Live(c) \/ CallStep(c) \/ (\E close \in BOOLEAN : Kill(c, close))
  PROVE  TypeOK'
<1> USE SessionsAssumption DEF TypeOK, Goto, Sessions
<1>1. CASE Live(c)  BY <1>1 DEF Live
<1>2. CASE Open(c)
  <2>1. opened + 1 \in 1 .. MaxSessions  BY <1>2 DEF Open
  <2>2. input' \in [1 .. MaxSessions -> {"none", "open", "eof"}]  BY <1>2 DEF Open
  <2>3. mine' \in [Callers -> 0 .. opened']  BY <1>2 DEF Open
  <2>4. psource' \in 0 .. opened'  BY <1>2 DEF Open
  <2> QED  BY <1>2, <2>1, <2>2, <2>3, <2>4 DEF Open
<1>3. CASE OpenFails(c)  BY <1>3 DEF OpenFails
<1>4. CASE Go(c)
  <2>1. psource' \in 0 .. opened'  BY <1>4 DEF Go
  <2>2. loop' \in [1 .. MaxSessions -> {"none", "check", "read", "dropActive", "dropKilled",
                                        "tail", "tailKill", "gone"}]
    BY <1>4 DEF Go
  <2>3. pc' \in [Callers -> {"idle", "opening", "starting", "activating", "killing"}]
    BY <1>4 DEF Go
  <2> QED  BY <1>4, <2>1, <2>2, <2>3 DEF Go
<1>5. CASE Activate(c)  BY <1>5 DEF Activate, Activated
<1>6. CASE Killed(c)  BY <1>6 DEF Killed
<1>7. ASSUME NEW close \in BOOLEAN, Kill(c, close) PROVE TypeOK'
  BY <1>7 DEF Kill
<1> QED  BY <1>1, <1>2, <1>3, <1>4, <1>5, <1>6, <1>7 DEF CallStep

LEMMA LoopTypeOK ==
  ASSUME TypeOK, NEW i \in Sessions, LoopStep(i) \/ InputEnds(i)
  PROVE  TypeOK'
<1> USE DEF TypeOK, LoopTo
<1>1. CASE Check(i)  BY <1>1 DEF Check
<1>2. CASE NextPacket(i)  BY <1>2 DEF NextPacket
<1>3. CASE EOF(i)  BY <1>3 DEF EOF, AfterEOF
<1>4. CASE DropActive(i)  BY <1>4 DEF DropActive
<1>5. CASE DropKilled(i)  BY <1>5 DEF DropKilled
<1>6. CASE Tail(i)  BY <1>6 DEF Tail
<1>7. CASE TailKill(i)  BY <1>7 DEF TailKill
<1>8. CASE InputEnds(i)  BY <1>8 DEF InputEnds
<1>9. CASE Panics(i)  BY <1>9 DEF Panics
<1> QED  BY <1>1, <1>2, <1>3, <1>4, <1>5, <1>6, <1>7, <1>8, <1>9 DEF LoopStep

LEMMA NextTypeOK == TypeOK /\ [Next]_vars => TypeOK'
<1> SUFFICES ASSUME TypeOK, [Next]_vars PROVE TypeOK'
  OBVIOUS
<1>1. CASE Next  BY <1>1, CallTypeOK, LoopTypeOK DEF Next
<1>2. CASE UNCHANGED vars  BY <1>2 DEF TypeOK, vars
<1> QED  BY <1>1, <1>2

(* Every variable keeps to its range, whoever calls.                        *)
THEOREM SpecTypeOK == Spec => []TypeOK
  BY InitTypeOK, NextTypeOK, PTL DEF Spec

-----------------------------------------------------------------------------
OneGoroutine == \A c, d \in Callers : c = d

(* A loop that captures, or is about to reset active, holds the snifer. *)
Holding(i) == loop[i] \in {"check", "read", "dropActive"}

(* There is one at most; it shows in active, except while its own Live has  *)
(* yet to set the flag; and a Live on its way to a new session has found    *)
(* none.                                                                    *)
HInv ==
  /\ TypeOK
  /\ \A i, j \in Sessions : Holding(i) /\ Holding(j) => i = j
  /\ \A i \in Sessions : Holding(i) => active = 1 \/ \E c \in Callers : pc[c] = "activating"
  /\ \A c \in Callers : pc[c] \in {"opening", "starting"} => \A i \in Sessions : ~Holding(i)
  /\ \A c \in Callers : pc[c] \in {"starting", "activating"} => mine[c] \in Sessions

LEMMA InitHInv == Init => HInv
  BY InitTypeOK DEF Init, HInv, Holding

LEMMA CallHInv ==
  ASSUME OneGoroutine, HInv, NEW c \in Callers,
         Live(c) \/ CallStep(c) \/ (\E close \in BOOLEAN : Kill(c, close))
  PROVE  HInv'
<1>t. TypeOK'  BY CallTypeOK DEF HInv
<1>p. pc \in [Callers -> {"idle", "opening", "starting", "activating", "killing"}]
      /\ \A d \in Callers : d = c
  BY DEF HInv, TypeOK, OneGoroutine
<1> USE DEF Goto, Holding
<1>1. CASE Live(c)
  <2>1. pc[c] = "idle"  BY <1>1 DEF Live
  <2>2. CASE IsActive
    BY <1>1, <1>t, <1>p, <2>1, <2>2 DEF Live, HInv
  <2>3. CASE ~IsActive
    <3>1. \A i \in Sessions : ~Holding(i)
      BY <1>p, <2>1, <2>3 DEF HInv, IsActive
    <3> QED  BY <1>1, <1>t, <1>p, <2>3, <3>1 DEF Live, HInv
  <2> QED  BY <2>2, <2>3
<1>2. CASE Open(c)
  <2>1. mine'[c] \in Sessions
    BY <1>2, SessionsAssumption DEF Open, HInv, TypeOK, Sessions
  <2>2. \A i \in Sessions : ~Holding(i)
    BY <1>2 DEF Open, HInv
  <2> QED  BY <1>2, <1>t, <1>p, <2>1, <2>2 DEF Open, HInv
<1>3. CASE OpenFails(c)
  <2>1. \A i \in Sessions : ~Holding(i)
    BY <1>3 DEF OpenFails, HInv
  <2> QED  BY <1>3, <1>t, <1>p, <2>1 DEF OpenFails, HInv
<1>4. CASE Go(c)
  <2>1. \A i \in Sessions : ~Holding(i)
    BY <1>4 DEF Go, HInv
  <2>2. mine[c] \in Sessions /\ pc'[c] = "activating"
    BY <1>4, <1>p DEF Go, HInv
  <2>3. \A i \in Sessions : i /= mine[c] => ~Holding(i)'
    BY <1>4, <2>1 DEF Go, HInv, TypeOK
  <2> QED  BY <1>4, <1>t, <1>p, <2>2, <2>3 DEF Go, HInv
<1>5. CASE Activate(c)
  BY <1>5, <1>t, <1>p DEF Activate, Activated, HInv
<1>6. CASE Killed(c)
  BY <1>6, <1>t, <1>p DEF Killed, HInv
<1>7. ASSUME NEW close \in BOOLEAN, Kill(c, close) PROVE HInv'
  BY <1>7, <1>t, <1>p DEF Kill, HInv
<1> QED  BY <1>1, <1>2, <1>3, <1>4, <1>5, <1>6, <1>7 DEF CallStep

LEMMA LoopHInv ==
  ASSUME HInv, NEW i \in Sessions, LoopStep(i) \/ InputEnds(i)
  PROVE  HInv'
<1>t. TypeOK'  BY LoopTypeOK DEF HInv
<1>f. loop \in [Sessions -> {"none", "check", "read", "dropActive", "dropKilled", "tail",
                             "tailKill", "gone"}]
  BY DEF HInv, TypeOK
<1> USE DEF Holding, LoopTo, At
<1>1. CASE Check(i)  BY <1>1, <1>t, <1>f DEF Check, HInv
<1>2. CASE NextPacket(i)  BY <1>2, <1>t, <1>f DEF NextPacket, HInv
<1>3. CASE EOF(i)  BY <1>3, <1>t, <1>f DEF EOF, AfterEOF, HInv
<1>4. CASE DropActive(i)
  <2>1. \A j \in Sessions : ~Holding(j)'
    BY <1>4, <1>f DEF DropActive, HInv
  <2> QED  BY <1>4, <1>t, <2>1 DEF DropActive, HInv
<1>5. CASE DropKilled(i)  BY <1>5, <1>t, <1>f DEF DropKilled, HInv
<1>6. CASE Tail(i)  BY <1>6, <1>t, <1>f DEF Tail, HInv
<1>7. CASE TailKill(i)  BY <1>7, <1>t, <1>f DEF TailKill, HInv
<1>8. CASE InputEnds(i)  BY <1>8, <1>t, <1>f DEF InputEnds, HInv
<1>9. CASE Panics(i)  BY <1>9, <1>t, <1>f DEF Panics, HInv
<1> QED  BY <1>1, <1>2, <1>3, <1>4, <1>5, <1>6, <1>7, <1>8, <1>9 DEF LoopStep

LEMMA NextHInv == ASSUME OneGoroutine, HInv, [Next]_vars PROVE HInv'
<1>1. CASE Next  BY <1>1, CallHInv, LoopHInv DEF Next
<1>2. CASE UNCHANGED vars  BY <1>2 DEF HInv, TypeOK, Holding, vars
<1> QED  BY <1>1, <1>2

LEMMA SpecHInv == ASSUME OneGoroutine PROVE Spec => []HInv
<1>1. HInv /\ [Next]_vars => HInv'  BY NextHInv
<1> QED  BY <1>1, InitHInv, PTL DEF Spec

(* With one goroutine that calls, no two loops capture at once. *)
THEOREM OneCallerOneCapture == ASSUME OneGoroutine PROVE Spec => []OneCapture
<1>1. HInv => OneCapture  BY DEF HInv, OneCapture, Holding, Capturing
<1> QED  BY <1>1, SpecHInv, PTL

(* With one goroutine that calls, a loop that captures shows in IsActive     *)
(* between the calls.                                                        *)
THEOREM OneCallerCaptureIsActive == ASSUME OneGoroutine PROVE Spec => []CaptureIsActive
<1>1. HInv => CaptureIsActive  BY DEF HInv, CaptureIsActive, Holding, Capturing, Quiet
<1> QED  BY <1>1, SpecHInv, PTL
=============================================================================
