------------------------ MODULE LxController_proofs ------------------------
(***************************************************************************)
(* Proofs about LxController, for any callers, jobs, profiles and calls.   *)
(***************************************************************************)
EXTENDS LxController, SequenceTheorems, TLAPS

-----------------------------------------------------------------------------
(* The steps of the operations *)

LEMMA NoSteps == <<>> \in Seq(Steps)
<1>1. \A V : <<>> \in Seq(V)
  OBVIOUS
<1> QED
  BY <1>1

LEMMA OneStep == ASSUME NEW s \in Steps PROVE <<s>> \in Seq(Steps)
<1> HIDE DEF Steps
<1> QED
  OBVIOUS

LEMMA HookIsSteps ==
  ASSUME NEW h \in HookSteps, NEW work \in Seq(Steps)
  PROVE  Hook(h, work) \in Seq(Steps)
<1>1. <<h>> \in Seq(Steps)
  BY OneStep DEF Steps
<1> QED
  BY <1>1 DEF Hook

LEMMA FreezeIsSteps == FreezeSteps \in Seq(Steps)
<1>1. <<"kill", "freeze", "emitFrozen">> \in Seq(Steps)
  BY DEF Steps
<1>2. Hook("freezing", <<"kill", "freeze", "emitFrozen">>) \in Seq(Steps)
  BY <1>1, HookIsSteps DEF HookSteps
<1>3. <<"addStopper">> \in Seq(Steps)
  BY OneStep DEF Steps
<1> QED
  BY <1>2, <1>3, ConcatProperties DEF FreezeSteps

LEMMA FreezeAllIsSteps == FreezeAllSteps \in Seq(Steps)
<1>1. <<"kill">> \in Seq(Steps) /\ <<"emitClosed">> \in Seq(Steps)
  BY OneStep DEF Steps
<1>2. <<"kill">> \o FreezeSteps \in Seq(Steps)
  BY <1>1, FreezeIsSteps, ConcatProperties
<1> QED
  BY <1>1, <1>2, ConcatProperties DEF FreezeAllSteps

LEMMA WorkIsSteps == ASSUME NEW h \in HookSteps PROVE Work(h) \in Seq(Steps)
<1>1. /\ <<"kill", "freeze", "emitFrozen">> \in Seq(Steps)
      /\ <<"kill", "stop">> \in Seq(Steps)
      /\ <<"kill", "emitClosed", "closeClosed">> \in Seq(Steps)
      /\ <<"closeClosed">> \in Seq(Steps)
  BY DEF Steps
<1>2. Work("freezing") = <<"kill", "freeze", "emitFrozen">>
  BY DEF Work
<1>3. Work("stopping") = <<"kill", "stop">>
  BY DEF Work
<1>4. Work("freezingAll") \in Seq(Steps)
  <2>1. Work("freezingAll") = FreezeAllSteps \o <<"closeClosed">>
    BY DEF Work
  <2> QED
    BY <1>1, <2>1, FreezeAllIsSteps, ConcatProperties
<1>5. Work("leaving") = <<"kill", "emitClosed", "closeClosed">>
  BY DEF Work
<1>6. h \in {"booted", "thawed", "command"} => Work(h) = <<>>
  BY DEF Work
<1> QED
  BY <1>1, <1>2, <1>3, <1>4, <1>5, <1>6, NoSteps DEF HookSteps

LEMMA LeavingIsSteps ==
  ASSUME NEW h \in {"freezingAll", "leaving"}, NEW work \in Seq(Steps)
  PROVE  Leaving(h, work) \in Seq(Steps)
<1>1. <<"closeTimers", "closeSnifer", "closeClosed">> \in Seq(Steps)
  BY DEF Steps
<1>2. <<h, "closeTimers", "closeSnifer">> \in Seq(Steps)
  BY DEF Steps, HookSteps
<1>3. work \o <<"closeTimers", "closeSnifer", "closeClosed">> \in Seq(Steps)
  BY <1>1, ConcatProperties
<1> QED
  BY <1>2, <1>3 DEF Leaving

(* Every operation is made of steps some action takes. *)
LEMMA OperationsAreSteps ==
  ASSUME NEW op \in Operations
  PROVE  StepsOf(op) \in Seq(Steps)
<1>1. CASE op = "Dial"
  BY <1>1, OneStep DEF StepsOf, Steps
<1>2. CASE op = "Freeze"
  BY <1>2, FreezeIsSteps DEF StepsOf
<1>3. CASE op = "Unfreeze"
  <2>1. <<"closeStopper", "boot">> \in Seq(Steps)
    BY DEF Steps
  <2> QED
    BY <1>3, <2>1 DEF StepsOf, UnfreezeSteps
<1>4. CASE op = "Clock"
  <2>1. <<"addTicker">> \in Seq(Steps)
    BY OneStep DEF Steps
  <2> QED
    BY <1>4, <2>1, NoSteps DEF StepsOf
<1>5. CASE op = "DumpPackets"
  <2>1. <<"checkRunning", "stackFrozen", "stackClosed">> \in Seq(Steps)
    BY DEF Steps
  <2> QED
    BY <1>5, <2>1 DEF StepsOf
<1>6. CASE op = "CommandEvery"
  <2>1. <<"command">> \in Seq(Steps)
    BY OneStep DEF Steps, HookSteps
  <2> QED
    BY <1>6, <2>1 DEF StepsOf, CommandSteps
<1>7. CASE op = "Drop"
  <2>1. <<"kill", "stop">> \in Seq(Steps)
    BY DEF Steps
  <2>2. Hook("stopping", <<"kill", "stop">>) \in Seq(Steps)
    BY <2>1, HookIsSteps DEF HookSteps
  <2>3. <<"closeTimers", "closeFrozen", "emitClosed", "closeSnifer", "closeClosed">> \in Seq(Steps)
    BY DEF Steps
  <2>4. StepsOf(op) = Hook("stopping", <<"kill", "stop">>) \o
                      <<"closeTimers", "closeFrozen", "emitClosed", "closeSnifer", "closeClosed">>
    BY <1>7 DEF StepsOf
  <2> QED
    BY <2>2, <2>3, <2>4, ConcatProperties
<1>8. CASE op \in {"DropFreezed", "DropUnfreezed"}
  <2>1. <<"kill", "emitClosed">> \in Seq(Steps)
    BY DEF Steps
  <2>2. Leaving("freezingAll", FreezeAllSteps) \in Seq(Steps)
    BY FreezeAllIsSteps, LeavingIsSteps
  <2>3. Leaving("leaving", <<"kill", "emitClosed">>) \in Seq(Steps)
    BY <2>1, LeavingIsSteps
  <2>4. StepsOf("DropFreezed") = Leaving("freezingAll", FreezeAllSteps)
    BY DEF StepsOf, DropFreezedSteps
  <2>5. StepsOf("DropUnfreezed") = Leaving("leaving", <<"kill", "emitClosed">>)
    BY DEF StepsOf
  <2> QED
    BY <1>8, <2>2, <2>3, <2>4, <2>5
<1> QED
  BY <1>1, <1>2, <1>3, <1>4, <1>5, <1>6, <1>7, <1>8 DEF Operations, Drops
-----------------------------------------------------------------------------
(* Types.  Each action changes the steps of its own thread, and at most one *)
(* of the other variables.                                                  *)

TodoOK == todo \in [Threads -> Seq(Steps)]

TimersOK == timer \in [Timers -> {"nil", "off", "counting"}]

LEMMA BeforeIsTodo ==
  ASSUME TodoOK, NEW t \in Threads, todo[t] /= <<>>, NEW steps \in Seq(Steps), Before(t, steps)
  PROVE  TodoOK'
<1>1. todo[t] \in Seq(Steps)
  BY DEF TodoOK
<1>2. Tail(todo[t]) \in Seq(Steps)
  BY <1>1, HeadTailProperties
<1>3. steps \o Tail(todo[t]) \in Seq(Steps)
  BY <1>2, ConcatProperties
<1> HIDE DEF Threads, Steps
<1> QED
  BY <1>3 DEF Before, TodoOK

LEMMA DoneIsTodo ==
  ASSUME TodoOK, NEW t \in Threads, todo[t] /= <<>>, Done(t) \/ Fails(t)
  PROVE  TodoOK'
<1>1. CASE Done(t)
  BY <1>1, BeforeIsTodo, NoSteps DEF Done
<1>2. CASE Fails(t)
  BY <1>2, NoSteps DEF Fails, TodoOK
<1> QED
  BY <1>1, <1>2

LEMMA HookedIsTodo ==
  ASSUME TodoOK, NEW t \in Threads, todo[t] /= <<>>, Hooked(t)
  PROVE  TodoOK'
<1> DEFINE j == AnyOf(FreeJobs)
           h == Head(todo[t])
<1>1. todo[t] \in Seq(Steps) /\ h \in HookSteps
  BY DEF TodoOK, Hooked
<1>2. Tail(todo[t]) \in Seq(Steps)
  BY <1>1, HeadTailProperties
<1>3. <<"try">> \in Seq(Steps) /\ Work(h) \in Seq(Steps)
  BY <1>1, OneStep, WorkIsSteps DEF Steps
<1>4. <<"try">> \o Work(h) \in Seq(Steps)
  BY <1>3, ConcatProperties
<1>5. todo' = [todo EXCEPT ![t] = Tail(@), ![j] = <<"try">> \o Work(h)]
  BY DEF Hooked
<1> HIDE DEF j, h
<1> QED
  BY <1>2, <1>4, <1>5 DEF TodoOK

LEMMA BootIsTodo ==
  ASSUME TodoOK, NEW t \in Threads, todo[t] /= <<>>, Boot(t)
  PROVE  TodoOK'
<1>1. /\ <<"thaw", "wait", "ip", "live">> \in Seq(Steps)
      /\ <<"start", "wait", "ip", "live">> \in Seq(Steps)
      /\ <<"addTicker">> \in Seq(Steps)
  BY OneStep DEF Steps
<1>2. /\ Hook("thawed", <<>>) \in Seq(Steps)
      /\ Hook("booted", <<>>) \in Seq(Steps)
  BY HookIsSteps, NoSteps DEF HookSteps
<1> DEFINE thawing == <<"thaw", "wait", "ip", "live">> \o Hook("thawed", <<>>) \o <<"addTicker">>
           starting == <<"start", "wait", "ip", "live">> \o Hook("booted", <<>>) \o <<"addTicker">>
<1>3. <<"thaw", "wait", "ip", "live">> \o Hook("thawed", <<>>) \in Seq(Steps)
  BY <1>1, <1>2, ConcatProperties
<1>4. <<"start", "wait", "ip", "live">> \o Hook("booted", <<>>) \in Seq(Steps)
  BY <1>1, <1>2, ConcatProperties
<1>5. thawing \in Seq(Steps) /\ starting \in Seq(Steps)
  BY <1>1, <1>3, <1>4, ConcatProperties
<1>6. Before(t, thawing) \/ Before(t, starting) \/ Done(t) \/ Fails(t)
  BY DEF Boot
<1> HIDE DEF thawing, starting
<1> QED
  BY <1>5, <1>6, BeforeIsTodo, DoneIsTodo

LEMMA AddTickerIsTodo ==
  ASSUME TodoOK, NEW t \in Threads, todo[t] /= <<>>, AddTicker(t)
  PROVE  TodoOK'
<1>1. UnfreezeSteps \in Seq(Steps)
  BY DEF UnfreezeSteps, Steps
<1>2. Before(t, UnfreezeSteps) \/ Done(t)
  BY DEF AddTicker
<1> QED
  BY <1>1, <1>2, BeforeIsTodo, DoneIsTodo

LEMMA StartsIsTodo ==
  ASSUME TodoOK, NEW t \in Threads,
         NEW op \in Operations,
         Starts(t, op)
  PROVE  TodoOK' /\ orderly' \in BOOLEAN
<1>1. StepsOf(op) \in Seq(Steps)
  BY OperationsAreSteps
<1>2. todo' = [todo EXCEPT ![t] = StepsOf(op)]
  BY DEF Starts
<1> QED
  BY <1>1, <1>2 DEF TodoOK, Starts

LEMMA StepIsTodo ==
  ASSUME TodoOK, NEW t \in Threads, Step(t)
  PROVE  TodoOK'
<1>1. todo[t] /= <<>>
  BY DEF Step
<1>2. CASE Hooked(t)  BY <1>1, <1>2, HookedIsTodo
<1>3. CASE Boot(t)  BY <1>1, <1>3, BootIsTodo
<1>4. CASE AddTicker(t)  BY <1>1, <1>4, AddTickerIsTodo
<1>5. CASE Done(t) \/ Fails(t)  BY <1>1, <1>5, DoneIsTodo
<1>6. CASE UNCHANGED todo  BY <1>6 DEF TodoOK
<1>7. CASE Try(t) \/ Thaw(t) \/ Start(t) \/ Wait(t) \/ IP(t)
  BY <1>5, <1>6, <1>7 DEF Try, Thaw, Start, Wait, IP
<1>8. CASE AddStopper(t) \/ CloseStopper(t) \/ CloseTimers(t)
           \/ FreezeContainer(t) \/ StopContainer(t) \/ CheckRunning(t)
  BY <1>5, <1>8 DEF AddStopper, CloseStopper, CloseTimers,
                    FreezeContainer, StopContainer, CheckRunning
<1>9. CASE \E stream \in {"frozen", "closed"} :
             Stack(t, stream) \/ Emit(t, stream) \/ CloseStream(t, stream)
  BY <1>5, <1>9 DEF Stack, Emit, CloseStream
<1>10. CASE Live(t) \/ Kill(t) \/ CloseSnifer(t)
  BY <1>5, <1>6, <1>10 DEF Live, Kill, CloseSnifer, Returns
<1> QED
  BY <1>2, <1>3, <1>4, <1>7, <1>8, <1>9, <1>10 DEF Step

(* The snifer, whose variables change at its own steps only. *)
SniferCall(t) ==
  S!Live(t) \/ S!Open(t) \/ S!OpenFails(t) \/ S!Go(t) \/ S!Activate(t)
  \/ S!Kill(t, FALSE) \/ S!Kill(t, TRUE) \/ S!Killed(t)

LEMMA SniferSame == ASSUME S!TypeOK, UNCHANGED snifer PROVE S!TypeOK'
  BY DEF S!TypeOK, snifer

LEMMA SniferCallType ==
  ASSUME S!TypeOK, NEW t \in Threads, SniferCall(t)
  PROVE  S!TypeOK'
<1> USE LxAssumption DEF S!TypeOK, S!Goto, S!Sessions
<1> HIDE DEF Threads
<1>1. CASE S!Live(t)  BY <1>1 DEF S!Live
<1>2. CASE S!Open(t)
  <2>1. opened + 1 \in 1 .. MaxSessions  BY <1>2 DEF S!Open
  <2>2. input' \in [1 .. MaxSessions -> {"none", "open", "eof"}]  BY <1>2 DEF S!Open
  <2>3. mine' \in [Threads -> 0 .. opened']  BY <1>2 DEF S!Open
  <2>4. psource' \in 0 .. opened'  BY <1>2 DEF S!Open
  <2> QED  BY <1>2, <2>1, <2>2, <2>3, <2>4 DEF S!Open
<1>3. CASE S!OpenFails(t)  BY <1>3 DEF S!OpenFails
<1>4. CASE S!Go(t)
  <2>1. psource' \in 0 .. opened'  BY <1>4 DEF S!Go
  <2>2. loop' \in [1 .. MaxSessions -> {"none", "check", "read", "dropActive", "dropKilled",
                                        "tail", "tailKill", "gone"}]
    BY <1>4 DEF S!Go
  <2>3. pc' \in [Threads -> {"idle", "opening", "starting", "activating", "killing"}]
    BY <1>4 DEF S!Go
  <2> QED  BY <1>4, <2>1, <2>2, <2>3 DEF S!Go
<1>5. CASE S!Activate(t)  BY <1>5 DEF S!Activate, S!Activated
<1>6. CASE S!Killed(t)  BY <1>6 DEF S!Killed
<1>7. CASE S!Kill(t, FALSE) \/ S!Kill(t, TRUE)  BY <1>7 DEF S!Kill
<1> QED  BY <1>1, <1>2, <1>3, <1>4, <1>5, <1>6, <1>7 DEF SniferCall

LEMMA SniferLoopType ==
  ASSUME S!TypeOK, NEW i \in S!Sessions, S!LoopStep(i)
  PROVE  S!TypeOK'
<1> USE DEF S!TypeOK, S!LoopTo
<1>1. CASE S!Check(i)  BY <1>1 DEF S!Check
<1>2. CASE S!NextPacket(i) \/ S!Panics(i)  BY <1>2 DEF S!NextPacket, S!Panics
<1>3. CASE S!EOF(i)  BY <1>3 DEF S!EOF, S!AfterEOF
<1>4. CASE S!DropActive(i)  BY <1>4 DEF S!DropActive
<1>5. CASE S!DropKilled(i)  BY <1>5 DEF S!DropKilled
<1>6. CASE S!Tail(i)  BY <1>6 DEF S!Tail
<1>7. CASE S!TailKill(i)  BY <1>7 DEF S!TailKill
<1> QED  BY <1>1, <1>2, <1>3, <1>4, <1>5, <1>6, <1>7 DEF S!LoopStep

DataOK ==
  /\ conf \in Configs
  /\ container \in States
  /\ timer \in [Timers -> {"nil", "off", "counting"}]
  /\ S!TypeOK
  /\ open \subseteq {"frozen", "closed"} /\ stacked \subseteq {"frozen", "closed"}
  /\ ended \in BOOLEAN
  /\ tries \in [Jobs -> 0 .. RetryMax]
  /\ calls \in 0 .. MaxCalls
  /\ crashed \in BOOLEAN /\ orderly \in BOOLEAN /\ overtaken \in BOOLEAN

LEMMA TypeIsTodoAndData == TypeOK <=> TodoOK /\ DataOK
  BY DEF TypeOK, TodoOK, DataOK

(* What the profiles are made of. *)
LEMMA ProfileOK ==
  ASSUME conf \in Configs
  PROVE  /\ conf.freeze \in BOOLEAN /\ conf.stop \in BOOLEAN /\ conf.snifers \in BOOLEAN
         /\ conf.calls \subseteq Operations
  BY LxAssumption DEF Config

LEMMA InitTypeOK == Init => TypeOK
<1> SUFFICES ASSUME Init PROVE TypeOK
  OBVIOUS
<1>1. TodoOK
  BY NoSteps DEF Init, TodoOK
<1>2. timer \in [Timers -> {"nil", "off", "counting"}]
  BY DEF Init, Timers
<1>3. tries \in [Jobs -> 0 .. RetryMax] /\ calls \in 0 .. MaxCalls
  BY LxAssumption DEF Init
<1>4. S!TypeOK
  BY LxAssumption DEF Init, S!Init, S!TypeOK, S!Sessions
<1> QED
  BY <1>1, <1>2, <1>3, <1>4 DEF Init, TypeOK, TodoOK, States

LEMMA TryIsData == ASSUME DataOK, NEW t \in Threads, Try(t) PROVE DataOK'
<1>1. UNCHANGED <<conf, container, timer, snifer, dump, crashed, history>>
  BY DEF Try
<1>2. tries' \in [Jobs -> 0 .. RetryMax]
  <2>1. CASE t \notin Jobs
    BY <2>1 DEF Try, DataOK
  <2>2. CASE t \in Jobs /\ tries' = [tries EXCEPT ![t] = 0]
    BY <2>2, LxAssumption DEF DataOK
  <2>3. CASE t \in Jobs /\ tries[t] < RetryMax /\ tries' = [tries EXCEPT ![t] = tries[t] + 1]
    BY <2>3, LxAssumption DEF DataOK
  <2> QED
    BY <2>1, <2>2, <2>3 DEF Try, Counted
<1> QED
  BY <1>1, <1>2, SniferSame DEF DataOK, dump, history

LEMMA TimersAreData ==
  ASSUME DataOK, NEW t \in Threads,
         AddTicker(t) \/ AddStopper(t) \/ CloseStopper(t) \/ CloseTimers(t)
  PROVE  DataOK'
<1>1. timer' \in [Timers -> {"nil", "off", "counting"}]
  BY DEF DataOK, AddTicker, AddStopper, CloseStopper, CloseTimers, Timers
<1>2. crashed' \in BOOLEAN
  BY DEF DataOK, AddTicker, AddStopper, CloseStopper, CloseTimers
<1>3. UNCHANGED <<conf, container, snifer, dump, tries, history>>
  BY DEF AddTicker, AddStopper, CloseStopper, CloseTimers
<1> QED
  BY <1>1, <1>2, <1>3, SniferSame DEF DataOK, dump, history

LEMMA SniferIsData ==
  ASSUME DataOK, NEW t \in Threads, Live(t) \/ Kill(t) \/ CloseSnifer(t)
  PROVE  DataOK'
<1>1. S!TypeOK'
  <2>1. SniferCall(t) \/ UNCHANGED snifer
    BY DEF Live, Kill, TurnOff, CloseSnifer, SniferCall
  <2> QED
    BY <2>1, SniferCallType, SniferSame DEF DataOK
<1>2. overtaken' \in BOOLEAN
  BY DEF Live, Kill, CloseSnifer, DataOK, history
<1>3. UNCHANGED <<conf, container, timer, dump, tries, crashed, calls, orderly>>
  BY DEF Live, Kill, CloseSnifer, history
<1> QED
  BY <1>1, <1>2, <1>3 DEF DataOK, dump

LEMMA StepIsData == ASSUME DataOK, NEW t \in Threads, Step(t) PROVE DataOK'
<1> USE DEF dump, history
<1>0. UNCHANGED snifer => S!TypeOK'
  BY SniferSame DEF DataOK
<1>1. CASE Try(t)  BY <1>1, TryIsData
<1>2. CASE AddTicker(t) \/ AddStopper(t) \/ CloseStopper(t) \/ CloseTimers(t)
  BY <1>2, TimersAreData
<1>3. CASE Hooked(t) \/ Boot(t) \/ IP(t) \/ CheckRunning(t)
  BY <1>0, <1>3 DEF Hooked, Boot, IP, CheckRunning, DataOK
<1>4. CASE Thaw(t) \/ FreezeContainer(t)
  BY <1>0, <1>4 DEF Thaw, FreezeContainer, DataOK, States
<1>5. CASE Start(t) \/ StopContainer(t)
  BY <1>0, <1>5 DEF Start, StopContainer, DataOK, States
<1>6. CASE Wait(t)
  BY <1>0, <1>6 DEF Wait, DataOK
<1>7. CASE Live(t) \/ Kill(t) \/ CloseSnifer(t)
  BY <1>7, SniferIsData
<1>8. ASSUME NEW stream \in {"frozen", "closed"},
             Stack(t, stream) \/ Emit(t, stream) \/ CloseStream(t, stream)
      PROVE  DataOK'
  BY <1>0, <1>8 DEF Stack, Emit, CloseStream, DataOK
<1> QED
  BY <1>1, <1>2, <1>3, <1>4, <1>5, <1>6, <1>7, <1>8 DEF Step

LEMMA NextTypeOK == TypeOK /\ [Next]_vars => TypeOK'
<1> SUFFICES ASSUME TodoOK, DataOK, [Next]_vars PROVE TodoOK' /\ DataOK'
  BY TypeIsTodoAndData, PTL
<1>0. UNCHANGED snifer => S!TypeOK'
  BY SniferSame DEF DataOK
<1>1. ASSUME NEW c \in Callers, NEW op \in conf.calls, Call(c, op) PROVE TodoOK' /\ DataOK'
  <2>1. c \in Threads /\ op \in Operations
    BY ProfileOK DEF Threads, DataOK
  <2>2. TodoOK' /\ orderly' \in BOOLEAN
    BY <1>1, <2>1, StartsIsTodo DEF Call
  <2> QED
    BY <1>0, <1>1, <2>2, LxAssumption DEF Call, DataOK, dump
<1>2. ASSUME NEW t \in Timers, Expire(t) PROVE TodoOK' /\ DataOK'
  <2> DEFINE op == IF t = "ticker" THEN "Freeze" ELSE "Drop"
  <2>1. t \in Threads /\ op \in Operations
    BY DEF Threads, Operations, Drops
  <2>2. Starts(t, op)
    BY <1>2 DEF Expire
  <2> HIDE DEF op
  <2>3. TodoOK' /\ orderly' \in BOOLEAN
    BY <2>1, <2>2, StartsIsTodo
  <2> QED
    BY <1>0, <1>2, <2>3 DEF Expire, DataOK, dump
<1>3. ASSUME NEW t \in Threads, Step(t) PROVE TodoOK' /\ DataOK'
  BY <1>3, StepIsTodo, StepIsData
<1>4. CASE Boots
  BY <1>0, <1>4 DEF Boots, TodoOK, DataOK, States, dump, history
<1>5. CASE Halts
  BY <1>0, <1>5 DEF Halts, TodoOK, DataOK, States, dump
<1>6. ASSUME NEW i \in S!Sessions, Capture(i) PROVE TodoOK' /\ DataOK'
  BY <1>6, SniferLoopType DEF Capture, TodoOK, DataOK, dump, history
<1>7. CASE UNCHANGED vars
  BY <1>0, <1>7 DEF vars, TodoOK, DataOK, dump, history
<1> QED
  BY <1>1, <1>2, <1>3, <1>4, <1>5, <1>6, <1>7 DEF Next

(* Every variable of the controller keeps to its range; in particular no    *)
(* command file is tried more often than RetryMax, whoever uses the         *)
(* controller and whatever the container does.                              *)
THEOREM SpecTypeOK == Spec => []TypeOK
  BY InitTypeOK, NextTypeOK, PTL DEF Spec

-----------------------------------------------------------------------------
(* Which timers there are *)

Wanted(x) == IF x = "ticker" THEN conf.freeze ELSE conf.stop

(* A timer is nil if, and as long as, the profile has no duration for it:   *)
(* the code tests the durations, never the pointers.                        *)
TimersAsWanted == \A x \in Timers : timer[x] = "nil" <=> ~Wanted(x)

(* Dial dereferences the ticker, and the Drops take it that a ticker comes  *)
(* with a stopper: with both durations set nothing is ever nil.             *)
BothTimersNeverNil == conf.freeze /\ conf.stop => ~crashed

NilInv == TimersAsWanted /\ BothTimersNeverNil

LEMMA TimersNeverNil ==
  ASSUME TypeOK, NilInv, NEW t \in Threads,
         AddTicker(t) \/ AddStopper(t) \/ CloseStopper(t) \/ CloseTimers(t)
  PROVE  NilInv'
<1> USE DEF Timers
<1>1. /\ timer \in [Timers -> {"nil", "off", "counting"}]
      /\ conf.freeze \in BOOLEAN /\ conf.stop \in BOOLEAN
      /\ timer["ticker"] = "nil" <=> ~conf.freeze
      /\ timer["stopper"] = "nil" <=> ~conf.stop
      /\ conf.freeze /\ conf.stop => ~crashed
  BY ProfileOK DEF TypeOK, NilInv, TimersAsWanted, BothTimersNeverNil, Wanted
<1>2. conf' = conf
  BY DEF AddTicker, AddStopper, CloseStopper, CloseTimers
<1>3. /\ timer'["ticker"] = "nil" <=> ~conf.freeze
      /\ timer'["stopper"] = "nil" <=> ~conf.stop
  BY <1>1 DEF AddTicker, AddStopper, CloseStopper, CloseTimers
<1>4. conf.freeze /\ conf.stop => ~crashed'
  <2>1. CASE AddTicker(t)
    BY <1>1, <2>1 DEF AddTicker
  <2>2. CASE AddStopper(t) \/ CloseStopper(t)
    BY <1>1, <2>2 DEF AddStopper, CloseStopper
  <2>3. CASE CloseTimers(t)
    BY <1>1, <2>3 DEF CloseTimers
  <2> QED
    BY <2>1, <2>2, <2>3
<1> QED
  BY <1>2, <1>3, <1>4 DEF NilInv, TimersAsWanted, BothTimersNeverNil, Wanted

LEMMA NextNilInv == TypeOK /\ NilInv /\ [Next]_vars => NilInv'
<1> SUFFICES ASSUME TypeOK, NilInv, [Next]_vars PROVE NilInv'
  OBVIOUS
<1>1. CASE UNCHANGED <<conf, timer, crashed>>
  BY <1>1 DEF NilInv, TimersAsWanted, BothTimersNeverNil, Wanted
<1>2. ASSUME NEW c \in Callers, NEW op \in conf.calls, Call(c, op) PROVE NilInv'
  BY <1>1, <1>2 DEF Call
<1>3. ASSUME NEW t \in Timers, Expire(t) PROVE NilInv'
  BY <1>3 DEF Expire, TypeOK, NilInv, TimersAsWanted, BothTimersNeverNil, Wanted
<1>4. ASSUME NEW t \in Threads, Step(t) PROVE NilInv'
  BY <1>1, <1>4, TimersNeverNil
  DEF Step, Hooked, Try, Boot, Thaw, Start, Wait, IP, Live, Kill, CloseSnifer, FreezeContainer,
      StopContainer, CheckRunning, Stack, Emit, CloseStream
<1>5. CASE Boots \/ Halts \/ (\E i \in S!Sessions : Capture(i)) \/ UNCHANGED vars
  BY <1>1, <1>5 DEF Boots, Halts, Capture, vars
<1> QED
  BY <1>2, <1>3, <1>4, <1>5 DEF Next

(* A profile with both durations never makes a goroutine dereference a nil  *)
(* timer, although no operation asks for the pointers.                      *)
THEOREM SpecBothTimersNeverNil == Spec => []BothTimersNeverNil
<1>1. Init => NilInv
  BY DEF Init, NilInv, TimersAsWanted, BothTimersNeverNil, Wanted, Timers
<1>2. NilInv => BothTimersNeverNil
  BY DEF NilInv
<1> QED
  BY <1>1, <1>2, SpecTypeOK, NextNilInv, PTL DEF Spec

-----------------------------------------------------------------------------
(* The shape of what an operation puts into its thread *)

(* The steps of the operations that take the container up or only look at   *)
(* it, those of the jobs, and those that take it down.                      *)
UpSteps ==
  {"boot", "thaw", "start", "wait", "ip", "live", "booted", "thawed", "addTicker",
   "closeStopper", "command", "checkRunning", "stackFrozen", "stackClosed"}
JobSteps ==
  {"try", "kill", "freeze", "stop", "emitFrozen", "emitClosed", "closeClosed", "addStopper",
   "freezing"}
DownSteps ==
  JobSteps \cup {"closeTimers", "closeFrozen", "closeSnifer", "stopping", "freezingAll", "leaving"}

(* The stopper is started, now or by the job of a hook. *)
Arming == {"addStopper", "freezingAll"}

(* With these an operation ends, or is left for a Dial. *)
Final == {"boot", "addTicker", "closeClosed"}

(* What the code does next to, before or after one of its steps: an         *)
(* operation kills the snifer before it freezes or stops and tells the      *)
(* streams afterwards, goes on after the address was found, stacks the dump *)
(* on a running container, closes the timers after it has started them, and *)
(* the stream closed at the very end.                                       *)
Fits(s, i) ==
  /\ s[i] = "freeze" => i < Len(s) /\ s[i + 1] = "emitFrozen"
  /\ s[i] = "closeFrozen" => i < Len(s) /\ s[i + 1] = "emitClosed" /\ s[Len(s)] = "closeClosed"
  /\ s[i] = "freezingAll" => i < Len(s) /\ s[i + 1] = "closeTimers"
  /\ i > 1 => /\ s[i] \in {"freeze", "stop"} => s[i - 1] = "kill"
              /\ s[i] = "ip" => s[i - 1] = "wait"
              /\ s[i] = "live" => s[i - 1] = "ip"
              /\ s[i] = "stackFrozen" => s[i - 1] = "checkRunning"
              /\ s[i] = "stackClosed" => s[i - 1] = "stackFrozen"
  /\ s[i] \in Final => i = Len(s)
  /\ s[i] \in Arming \cup {"closeTimers"} => \A k \in i + 1 .. Len(s) : s[k] \notin Arming

Shape(s) == \A i \in 1 .. Len(s) : Fits(s, i)

(* No operation begins with these.                                          *)
Later == {"freeze", "stop", "ip", "live", "stackFrozen", "stackClosed"}

Plan(s) ==
  /\ Shape(s)
  /\ s /= <<>> => Head(s) \notin Later

(* Its shape is kept when a thread has taken the first step.                *)
LEMMA TailShape ==
  ASSUME NEW s \in Seq(Steps), s /= <<>>, Shape(s)
  PROVE  /\ Shape(Tail(s))
         /\ Elems(s) = {Head(s)} \cup Elems(Tail(s))
         /\ Head(s) = "freeze" => "emitFrozen" \in Elems(Tail(s))
         /\ Head(s) = "closeFrozen" => {"emitClosed", "closeClosed"} \subseteq Elems(Tail(s))
         /\ Head(s) = "freezingAll" => "closeTimers" \in Elems(Tail(s))
         /\ Head(s) \in Final => Tail(s) = <<>>
         /\ Head(s) \in Arming \cup {"closeTimers"} => Arming \cap Elems(Tail(s)) = {}
         /\ Tail(s) /= <<>> =>
              /\ Head(Tail(s)) \in {"freeze", "stop"} => Head(s) = "kill"
              /\ Head(Tail(s)) = "ip" => Head(s) = "wait"
              /\ Head(Tail(s)) = "live" => Head(s) = "ip"
              /\ Head(Tail(s)) = "stackFrozen" => Head(s) = "checkRunning"
              /\ Head(Tail(s)) = "stackClosed" => Head(s) = "stackFrozen"
<1> DEFINE t == Tail(s)
           n == Len(s)
<1>1. /\ n \in Nat \ {0} /\ t \in Seq(Steps) /\ Len(t) = n - 1
      /\ \A i \in 1 .. Len(t) : t[i] = s[i + 1]
  BY HeadTailProperties, EmptySeq
<1>2. Head(s) = s[1]
  OBVIOUS
<1>3. t = <<>> <=> n = 1
  BY <1>1, EmptySeq
<1>4. t /= <<>> => Head(t) = s[2] /\ 2 \in 1 .. n
  <2>1. t /= <<>> => Head(t) = t[1]
    BY <1>1
  <2> QED
    BY <1>1, <1>3, <2>1
<1> HIDE DEF t, n, Steps
<1>5. Shape(t)
  <2> SUFFICES ASSUME NEW i \in 1 .. Len(t) PROVE Fits(t, i)
    BY DEF Shape
  <2> DEFINE j == i + 1
  <2>1. /\ j \in 1 .. n /\ t[i] = s[j] /\ j > 1
        /\ i < Len(t) <=> j < n
        /\ i < Len(t) => t[i + 1] = s[j + 1]
        /\ i > 1 => t[i - 1] = s[j - 1]
        /\ i = Len(t) <=> j = n
        /\ t[Len(t)] = s[n]
    BY <1>1
  <2>2. \A k \in i + 1 .. Len(t) : k + 1 \in j + 1 .. n /\ t[k] = s[k + 1]
    BY <1>1
  <2> HIDE DEF j
  <2>3. Fits(s, j)
    BY <2>1 DEF Shape, n
  <2>4. /\ t[i] = "freeze" => i < Len(t) /\ t[i + 1] = "emitFrozen"
        /\ t[i] = "closeFrozen" => i < Len(t) /\ t[i + 1] = "emitClosed" /\ t[Len(t)] = "closeClosed"
        /\ t[i] = "freezingAll" => i < Len(t) /\ t[i + 1] = "closeTimers"
        /\ t[i] \in Final => i = Len(t)
    BY <2>1, <2>3 DEF Fits, n
  <2>5. i > 1 => /\ t[i] \in {"freeze", "stop"} => t[i - 1] = "kill"
                 /\ t[i] = "ip" => t[i - 1] = "wait"
                 /\ t[i] = "live" => t[i - 1] = "ip"
                 /\ t[i] = "stackFrozen" => t[i - 1] = "checkRunning"
                 /\ t[i] = "stackClosed" => t[i - 1] = "stackFrozen"
    BY <2>1, <2>3 DEF Fits, n
  <2>6. t[i] \in Arming \cup {"closeTimers"} => \A k \in i + 1 .. Len(t) : t[k] \notin Arming
    BY <2>1, <2>2, <2>3 DEF Fits, n
  <2> QED
    BY <2>4, <2>5, <2>6 DEF Fits
<1>6. Elems(s) = {Head(s)} \cup Elems(t)
  <2>1. ASSUME NEW i \in 1 .. n PROVE s[i] \in {Head(s)} \cup Elems(t)
    <3>1. CASE i = 1
      BY <1>2, <3>1
    <3>2. CASE i /= 1
      <4>1. i - 1 \in 1 .. Len(t) /\ t[i - 1] = s[i]
        BY <1>1, <3>2
      <4> QED
        BY <4>1 DEF Elems
    <3> QED
      BY <3>1, <3>2
  <2>2. ASSUME NEW i \in 1 .. Len(t) PROVE t[i] \in Elems(s)
    BY <1>1 DEF Elems, n
  <2>3. Head(s) \in Elems(s)
    BY <1>1, <1>2 DEF Elems, n
  <2> QED
    BY <2>1, <2>2, <2>3 DEF Elems, n
<1>7. 1 \in 1 .. n
  BY <1>1
<1>8. n > 1 => s[2] \in Elems(t) /\ s[n] \in Elems(t)
  <2>1. n > 1 => /\ 1 \in 1 .. Len(t) /\ t[1] = s[2]
                 /\ Len(t) \in 1 .. Len(t) /\ t[Len(t)] = s[n]
    BY <1>1
  <2> QED
    BY <2>1 DEF Elems
<1>9. Fits(s, 1)
  BY <1>7 DEF Shape, n
<1>10. /\ Head(s) = "freeze" => "emitFrozen" \in Elems(t)
       /\ Head(s) = "closeFrozen" => {"emitClosed", "closeClosed"} \subseteq Elems(t)
       /\ Head(s) = "freezingAll" => "closeTimers" \in Elems(t)
       /\ Head(s) \in Final => t = <<>>
  <2>1. s[1 + 1] = s[2]
    OBVIOUS
  <2>2. /\ s[1] = "freeze" => 1 < n /\ s[2] = "emitFrozen"
        /\ s[1] = "closeFrozen" => 1 < n /\ s[2] = "emitClosed" /\ s[n] = "closeClosed"
        /\ s[1] = "freezingAll" => 1 < n /\ s[2] = "closeTimers"
        /\ s[1] \in Final => 1 = n
    BY <1>9, <2>1 DEF Fits, n
  <2> QED
    BY <1>1, <1>2, <1>3, <1>8, <2>2
<1>11. Head(s) \in Arming \cup {"closeTimers"} => Arming \cap Elems(t) = {}
  <2> SUFFICES ASSUME Head(s) \in Arming \cup {"closeTimers"}, NEW i \in 1 .. Len(t)
               PROVE  t[i] \notin Arming
    BY DEF Elems
  <2>1. i + 1 \in 1 + 1 .. n /\ t[i] = s[i + 1]
    BY <1>1
  <2> QED
    BY <1>2, <1>9, <2>1 DEF Fits, n
<1>12. t /= <<>> =>
         /\ Head(t) \in {"freeze", "stop"} => Head(s) = "kill"
         /\ Head(t) = "ip" => Head(s) = "wait"
         /\ Head(t) = "live" => Head(s) = "ip"
         /\ Head(t) = "stackFrozen" => Head(s) = "checkRunning"
         /\ Head(t) = "stackClosed" => Head(s) = "stackFrozen"
  <2> SUFFICES ASSUME t /= <<>>
               PROVE  /\ s[2] \in {"freeze", "stop"} => s[1] = "kill"
                      /\ s[2] = "ip" => s[1] = "wait"
                      /\ s[2] = "live" => s[1] = "ip"
                      /\ s[2] = "stackFrozen" => s[1] = "checkRunning"
                      /\ s[2] = "stackClosed" => s[1] = "stackFrozen"
    BY <1>2, <1>4
  <2>1. Fits(s, 2)
    BY <1>4 DEF Shape, n
  <2>2. 2 > 1 /\ s[2 - 1] = s[1]
    OBVIOUS
  <2> QED
    BY <2>1, <2>2 DEF Fits
<1> QED
  BY <1>5, <1>6, <1>10, <1>11, <1>12 DEF t

LEMMA EmptyShape == Shape(<<>>) /\ Elems(<<>>) = {} /\ Plan(<<>>)
  BY DEF Shape, Fits, Elems, Plan

(* A Drop goes down, ends the dump and closes the timers. *)
LEMMA DropPlan ==
  LET s == StepsOf("Drop") IN
  /\ Plan(s) /\ Elems(s) \subseteq DownSteps
  /\ {"emitClosed", "closeTimers"} \subseteq Elems(s)
  /\ {"addStopper", "freezingAll"} \cap Elems(s) = {}
<1> SUFFICES ASSUME NEW s, s = StepsOf("Drop")
             PROVE  /\ Plan(s) /\ Elems(s) \subseteq DownSteps
                    /\ {"emitClosed", "closeTimers"} \subseteq Elems(s)
                    /\ {"addStopper", "freezingAll"} \cap Elems(s) = {}
  OBVIOUS
<1>1. CASE "Shutdown" \in conf.hooks
  <2>1. s = <<"stopping">> \o
            <<"closeTimers", "closeFrozen", "emitClosed", "closeSnifer", "closeClosed">>
    BY <1>1 DEF StepsOf, Hook, HookOf
  <2>2. /\ Len(s) = 6 /\ s[1] = "stopping" /\ s[2] = "closeTimers"
        /\ s[3] = "closeFrozen" /\ s[4] = "emitClosed" /\ s[5] = "closeSnifer"
        /\ s[6] = "closeClosed" /\ Head(s) = s[1]
    BY <2>1
  <2>3. Shape(s)
    <3> SUFFICES ASSUME NEW i \in 1 .. 6 PROVE Fits(s, i)
      BY <2>2 DEF Shape
    <3>1. CASE i = 1  BY <2>2, <3>1 DEF Fits, Arming, Final
    <3>2. CASE i = 2  BY <2>2, <3>2 DEF Fits, Arming, Final
    <3>3. CASE i = 3  BY <2>2, <3>3 DEF Fits, Arming, Final
    <3>4. CASE i = 4  BY <2>2, <3>4 DEF Fits, Arming, Final
    <3>5. CASE i = 5  BY <2>2, <3>5 DEF Fits, Arming, Final
    <3>6. CASE i = 6  BY <2>2, <3>6 DEF Fits, Arming, Final
    <3> QED
      BY <3>1, <3>2, <3>3, <3>4, <3>5, <3>6
  <2>4. Elems(s) = {"stopping", "closeTimers", "closeFrozen", "emitClosed",
                    "closeSnifer", "closeClosed"}
    BY <2>2, SMTT(30) DEF Elems
  <2> QED
    BY <1>1, <2>2, <2>3, <2>4 DEF Plan, Later, DownSteps, JobSteps
<1>2. CASE "Shutdown" \notin conf.hooks
  <2>1. s = <<"kill", "stop">> \o
            <<"closeTimers", "closeFrozen", "emitClosed", "closeSnifer", "closeClosed">>
    BY <1>2 DEF StepsOf, Hook, HookOf
  <2>2. /\ Len(s) = 7 /\ s[1] = "kill" /\ s[2] = "stop" /\ s[3] = "closeTimers"
        /\ s[4] = "closeFrozen" /\ s[5] = "emitClosed" /\ s[6] = "closeSnifer"
        /\ s[7] = "closeClosed" /\ Head(s) = s[1]
    BY <2>1
  <2>3. Shape(s)
    <3> SUFFICES ASSUME NEW i \in 1 .. 7 PROVE Fits(s, i)
      BY <2>2 DEF Shape
    <3>1. CASE i = 1  BY <2>2, <3>1 DEF Fits, Arming, Final
    <3>2. CASE i = 2  BY <2>2, <3>2 DEF Fits, Arming, Final
    <3>3. CASE i = 3  BY <2>2, <3>3 DEF Fits, Arming, Final
    <3>4. CASE i = 4  BY <2>2, <3>4 DEF Fits, Arming, Final
    <3>5. CASE i = 5  BY <2>2, <3>5 DEF Fits, Arming, Final
    <3>6. CASE i = 6  BY <2>2, <3>6 DEF Fits, Arming, Final
    <3>7. CASE i = 7  BY <2>2, <3>7 DEF Fits, Arming, Final
    <3> QED
      BY <3>1, <3>2, <3>3, <3>4, <3>5, <3>6, <3>7
  <2>4. Elems(s) = {"kill", "stop", "closeTimers", "closeFrozen",
                    "emitClosed", "closeSnifer", "closeClosed"}
    BY <2>2, SMTT(30) DEF Elems
  <2> QED
    BY <1>2, <2>2, <2>3, <2>4 DEF Plan, Later, DownSteps, JobSteps
<1> QED
  BY <1>1, <1>2

(* A DropFreezed does so after it has frozen; with a hook, a job of its own
   freezes. *)
LEMMA DropFreezedPlan ==
  LET s == StepsOf("DropFreezed") IN
  /\ Plan(s) /\ Elems(s) \subseteq DownSteps
  /\ "closeTimers" \in Elems(s)
  /\ {"stop", "stopping"} \cap Elems(s) = {}
  /\ "freezingAll" \in Elems(s) => "Shutdown" \in conf.hooks /\ "addStopper" \notin Elems(s)
  /\ "closeClosed" \in Elems(s) => "emitClosed" \in Elems(s)
<1> SUFFICES ASSUME NEW s, s = StepsOf("DropFreezed")
             PROVE  /\ Plan(s) /\ Elems(s) \subseteq DownSteps
                    /\ "closeTimers" \in Elems(s)
                    /\ {"stop", "stopping"} \cap Elems(s) = {}
                    /\ "freezingAll" \in Elems(s) => /\ "Shutdown" \in conf.hooks
                                                     /\ "addStopper" \notin Elems(s)
                    /\ "closeClosed" \in Elems(s) => "emitClosed" \in Elems(s)
  OBVIOUS
<1>1. CASE "Shutdown" \in conf.hooks
  <2>1. s = <<"freezingAll", "closeTimers", "closeSnifer">>
    BY <1>1 DEF StepsOf, DropFreezedSteps, Leaving, HookOf
  <2>2. /\ Len(s) = 3 /\ s[1] = "freezingAll" /\ s[2] = "closeTimers"
        /\ s[3] = "closeSnifer" /\ Head(s) = s[1]
    BY <2>1
  <2>3. Shape(s)
    BY <2>2 DEF Shape, Fits, Arming, Final
  <2>4. Elems(s) = {"freezingAll", "closeTimers", "closeSnifer"}
    BY <2>2 DEF Elems
  <2> QED
    BY <1>1, <2>2, <2>3, <2>4 DEF Plan, Later, DownSteps, JobSteps
<1>2. CASE "Shutdown" \notin conf.hooks /\ "Freeze" \in conf.hooks
  <2>1. s = (<<"kill">> \o (<<"addStopper">> \o <<"freezing">>) \o <<"emitClosed">>) \o
               <<"closeTimers", "closeSnifer", "closeClosed">>
    BY <1>2 DEF StepsOf, DropFreezedSteps, Leaving, FreezeAllSteps, FreezeSteps, Hook, HookOf
  <2>2. /\ Len(s) = 7 /\ s[1] = "kill" /\ s[2] = "addStopper" /\ s[3] = "freezing"
        /\ s[4] = "emitClosed" /\ s[5] = "closeTimers" /\ s[6] = "closeSnifer"
        /\ s[7] = "closeClosed" /\ Head(s) = s[1]
    BY <2>1
  <2>3. Shape(s)
    <3> SUFFICES ASSUME NEW i \in 1 .. 7 PROVE Fits(s, i)
      BY <2>2 DEF Shape
    <3>1. CASE i = 1  BY <2>2, <3>1 DEF Fits, Arming, Final
    <3>2. CASE i = 2  BY <2>2, <3>2 DEF Fits, Arming, Final
    <3>3. CASE i = 3  BY <2>2, <3>3 DEF Fits, Arming, Final
    <3>4. CASE i = 4  BY <2>2, <3>4 DEF Fits, Arming, Final
    <3>5. CASE i = 5  BY <2>2, <3>5 DEF Fits, Arming, Final
    <3>6. CASE i = 6  BY <2>2, <3>6 DEF Fits, Arming, Final
    <3>7. CASE i = 7  BY <2>2, <3>7 DEF Fits, Arming, Final
    <3> QED
      BY <3>1, <3>2, <3>3, <3>4, <3>5, <3>6, <3>7
  <2>4. Elems(s) = {"kill", "addStopper", "freezing", "emitClosed",
                    "closeTimers", "closeSnifer", "closeClosed"}
    BY <2>2, SMTT(30) DEF Elems
  <2> QED
    BY <1>2, <2>2, <2>3, <2>4 DEF Plan, Later, DownSteps, JobSteps
<1>3. CASE "Shutdown" \notin conf.hooks /\ "Freeze" \notin conf.hooks
  <2>1. s = (<<"kill">> \o (<<"addStopper">> \o <<"kill", "freeze", "emitFrozen">>)
               \o <<"emitClosed">>) \o
               <<"closeTimers", "closeSnifer", "closeClosed">>
    BY <1>3 DEF StepsOf, DropFreezedSteps, Leaving, FreezeAllSteps, FreezeSteps, Hook, HookOf
  <2>2. /\ Len(s) = 9 /\ s[1] = "kill" /\ s[2] = "addStopper" /\ s[3] = "kill"
        /\ s[4] = "freeze" /\ s[5] = "emitFrozen" /\ s[6] = "emitClosed"
        /\ s[7] = "closeTimers" /\ s[8] = "closeSnifer" /\ s[9] = "closeClosed"
        /\ Head(s) = s[1]
    BY <2>1
  <2>3. Shape(s)
    <3> SUFFICES ASSUME NEW i \in 1 .. 9 PROVE Fits(s, i)
      BY <2>2 DEF Shape
    <3>1. CASE i = 1  BY <2>2, <3>1 DEF Fits, Arming, Final
    <3>2. CASE i = 2  BY <2>2, <3>2 DEF Fits, Arming, Final
    <3>3. CASE i = 3  BY <2>2, <3>3 DEF Fits, Arming, Final
    <3>4. CASE i = 4  BY <2>2, <3>4 DEF Fits, Arming, Final
    <3>5. CASE i = 5  BY <2>2, <3>5 DEF Fits, Arming, Final
    <3>6. CASE i = 6  BY <2>2, <3>6 DEF Fits, Arming, Final
    <3>7. CASE i = 7  BY <2>2, <3>7 DEF Fits, Arming, Final
    <3>8. CASE i = 8  BY <2>2, <3>8 DEF Fits, Arming, Final
    <3>9. CASE i = 9  BY <2>2, <3>9 DEF Fits, Arming, Final
    <3> QED
      BY <3>1, <3>2, <3>3, <3>4, <3>5, <3>6, <3>7, <3>8, <3>9
  <2>4. Elems(s) = {"kill", "addStopper", "freeze", "emitFrozen", "emitClosed",
                    "closeTimers", "closeSnifer", "closeClosed"}
    BY <2>2, SMTT(30) DEF Elems
  <2> QED
    BY <1>3, <2>2, <2>3, <2>4 DEF Plan, Later, DownSteps, JobSteps
<1> QED
  BY <1>1, <1>2, <1>3

(* A DropUnfreezed neither freezes nor stops. *)
LEMMA DropUnfreezedPlan ==
  LET s == StepsOf("DropUnfreezed") IN
  /\ Plan(s) /\ Elems(s) \subseteq DownSteps
  /\ "closeTimers" \in Elems(s)
  /\ {"stop", "stopping", "addStopper", "freezingAll"} \cap Elems(s) = {}
  /\ "closeClosed" \in Elems(s) => "emitClosed" \in Elems(s)
<1> SUFFICES ASSUME NEW s, s = StepsOf("DropUnfreezed")
             PROVE  /\ Plan(s) /\ Elems(s) \subseteq DownSteps
                    /\ "closeTimers" \in Elems(s)
                    /\ {"stop", "stopping", "addStopper", "freezingAll"} \cap Elems(s) = {}
                    /\ "closeClosed" \in Elems(s) => "emitClosed" \in Elems(s)
  OBVIOUS
<1>1. CASE "Shutdown" \in conf.hooks
  <2>1. s = <<"leaving", "closeTimers", "closeSnifer">>
    BY <1>1 DEF StepsOf, Leaving, HookOf
  <2>2. /\ Len(s) = 3 /\ s[1] = "leaving" /\ s[2] = "closeTimers"
        /\ s[3] = "closeSnifer" /\ Head(s) = s[1]
    BY <2>1
  <2>3. Shape(s)
    BY <2>2 DEF Shape, Fits, Arming, Final
  <2>4. Elems(s) = {"leaving", "closeTimers", "closeSnifer"}
    BY <2>2 DEF Elems
  <2> QED
    BY <1>1, <2>2, <2>3, <2>4 DEF Plan, Later, DownSteps, JobSteps
<1>2. CASE "Shutdown" \notin conf.hooks
  <2>1. s = <<"kill", "emitClosed">> \o <<"closeTimers", "closeSnifer", "closeClosed">>
    BY <1>2 DEF StepsOf, Leaving, HookOf
  <2>2. /\ Len(s) = 5 /\ s[1] = "kill" /\ s[2] = "emitClosed" /\ s[3] = "closeTimers"
        /\ s[4] = "closeSnifer" /\ s[5] = "closeClosed" /\ Head(s) = s[1]
    BY <2>1
  <2>3. Shape(s)
    <3> SUFFICES ASSUME NEW i \in 1 .. 5 PROVE Fits(s, i)
      BY <2>2 DEF Shape
    <3>1. CASE i = 1  BY <2>2, <3>1 DEF Fits, Arming, Final
    <3>2. CASE i = 2  BY <2>2, <3>2 DEF Fits, Arming, Final
    <3>3. CASE i = 3  BY <2>2, <3>3 DEF Fits, Arming, Final
    <3>4. CASE i = 4  BY <2>2, <3>4 DEF Fits, Arming, Final
    <3>5. CASE i = 5  BY <2>2, <3>5 DEF Fits, Arming, Final
    <3> QED
      BY <3>1, <3>2, <3>3, <3>4, <3>5
  <2>4. Elems(s) = {"kill", "emitClosed", "closeTimers", "closeSnifer", "closeClosed"}
    BY <2>2, SMTT(30) DEF Elems
  <2> QED
    BY <1>2, <2>2, <2>3, <2>4 DEF Plan, Later, DownSteps, JobSteps
<1> QED
  BY <1>1, <1>2

(* A Freeze does not stop. *)
LEMMA FreezePlan ==
  LET s == StepsOf("Freeze") IN
  /\ Plan(s) /\ Elems(s) \subseteq DownSteps
  /\ {"stop", "stopping", "freezingAll", "closeClosed"} \cap Elems(s) = {}
<1> SUFFICES ASSUME NEW s, s = StepsOf("Freeze")
             PROVE  /\ Plan(s) /\ Elems(s) \subseteq DownSteps
                    /\ {"stop", "stopping", "freezingAll", "closeClosed"} \cap Elems(s) = {}
  OBVIOUS
<1>1. CASE "Freeze" \in conf.hooks
  <2>1. s = <<"addStopper">> \o <<"freezing">>
    BY <1>1 DEF StepsOf, FreezeSteps, Hook, HookOf
  <2>2. /\ Len(s) = 2 /\ s[1] = "addStopper" /\ s[2] = "freezing" /\ Head(s) = s[1]
    BY <2>1
  <2>3. Shape(s)
    BY <2>2 DEF Shape, Fits, Arming, Final
  <2>4. Elems(s) = {"addStopper", "freezing"}
    BY <2>2 DEF Elems
  <2> QED
    BY <1>1, <2>2, <2>3, <2>4 DEF Plan, Later, DownSteps, JobSteps
<1>2. CASE "Freeze" \notin conf.hooks
  <2>1. s = <<"addStopper">> \o <<"kill", "freeze", "emitFrozen">>
    BY <1>2 DEF StepsOf, FreezeSteps, Hook, HookOf
  <2>2. /\ Len(s) = 4 /\ s[1] = "addStopper" /\ s[2] = "kill" /\ s[3] = "freeze"
        /\ s[4] = "emitFrozen" /\ Head(s) = s[1]
    BY <2>1
  <2>3. Shape(s)
    BY <2>2 DEF Shape, Fits, Arming, Final
  <2>4. Elems(s) = {"addStopper", "kill", "freeze", "emitFrozen"}
    BY <2>2 DEF Elems
  <2> QED
    BY <1>2, <2>2, <2>3, <2>4 DEF Plan, Later, DownSteps, JobSteps
<1> QED
  BY <1>1, <1>2

(* The other operations go up. *)
LEMMA UpPlan ==
  ASSUME NEW op \in {"Dial", "Unfreeze", "Clock", "DumpPackets", "CommandEvery"}
  PROVE  LET s == StepsOf(op) IN
         /\ Plan(s)
         /\ Elems(s) \subseteq UpSteps
<1> SUFFICES ASSUME NEW s, s = StepsOf(op)
             PROVE  /\ Plan(s)
                    /\ Elems(s) \subseteq UpSteps
  OBVIOUS
<1>1. CASE op = "Dial"
  <2>1. s = <<"boot">>
    BY <1>1 DEF StepsOf
  <2>2. /\ Len(s) = 1 /\ s[1] = "boot" /\ Head(s) = s[1]
    BY <2>1
  <2>3. Shape(s)
    BY <2>2 DEF Shape, Fits, Arming, Final
  <2>4. Elems(s) = {"boot"}
    BY <2>2 DEF Elems
  <2> QED
    BY <1>1, <2>2, <2>3, <2>4 DEF Plan, Later, UpSteps
<1>2. CASE op = "Unfreeze"
  <2>1. s = <<"closeStopper", "boot">>
    BY <1>2 DEF StepsOf, UnfreezeSteps
  <2>2. /\ Len(s) = 2 /\ s[1] = "closeStopper" /\ s[2] = "boot" /\ Head(s) = s[1]
    BY <2>1
  <2>3. Shape(s)
    BY <2>2 DEF Shape, Fits, Arming, Final
  <2>4. Elems(s) = {"closeStopper", "boot"}
    BY <2>2 DEF Elems
  <2> QED
    BY <1>2, <2>2, <2>3, <2>4 DEF Plan, Later, UpSteps
<1>3. CASE op = "Clock" /\ conf.freeze
  <2>1. s = <<"addTicker">>
    BY <1>3 DEF StepsOf
  <2>2. /\ Len(s) = 1 /\ s[1] = "addTicker" /\ Head(s) = s[1]
    BY <2>1
  <2>3. Shape(s)
    BY <2>2 DEF Shape, Fits, Arming, Final
  <2>4. Elems(s) = {"addTicker"}
    BY <2>2 DEF Elems
  <2> QED
    BY <1>3, <2>2, <2>3, <2>4 DEF Plan, Later, UpSteps
<1>4. CASE op = "Clock" /\ ~conf.freeze
  <2>1. s = <<>>
    BY <1>4 DEF StepsOf
  <2> QED
    BY <2>1, EmptyShape
<1>5. CASE op = "DumpPackets"
  <2>1. s = <<"checkRunning", "stackFrozen", "stackClosed">>
    BY <1>5 DEF StepsOf
  <2>2. /\ Len(s) = 3 /\ s[1] = "checkRunning" /\ s[2] = "stackFrozen"
        /\ s[3] = "stackClosed" /\ Head(s) = s[1]
    BY <2>1
  <2>3. Shape(s)
    BY <2>2 DEF Shape, Fits, Arming, Final
  <2>4. Elems(s) = {"checkRunning", "stackFrozen", "stackClosed"}
    BY <2>2 DEF Elems
  <2> QED
    BY <1>5, <2>2, <2>3, <2>4 DEF Plan, Later, UpSteps
<1>6. CASE op = "CommandEvery"
  <2>1. s = <<"command">>
    BY <1>6 DEF StepsOf, CommandSteps
  <2>2. /\ Len(s) = 1 /\ s[1] = "command" /\ Head(s) = s[1]
    BY <2>1
  <2>3. Shape(s)
    BY <2>2 DEF Shape, Fits, Arming, Final
  <2>4. Elems(s) = {"command"}
    BY <2>2 DEF Elems
  <2> QED
    BY <1>6, <2>2, <2>3, <2>4 DEF Plan, Later, UpSteps
<1> QED
  BY <1>1, <1>2, <1>3, <1>4, <1>5, <1>6

(* What a hook puts into a job. *)
JobOf(h) == <<"try">> \o Work(h)

(* A job tries its file and goes down, or does nothing more. *)
LEMMA WorkPlan ==
  ASSUME NEW h \in HookSteps
  PROVE  LET s == JobOf(h) IN
         /\ Plan(s) /\ s /= <<>> /\ Elems(s) \subseteq JobSteps
         /\ "stop" \in Elems(s) => h = "stopping"
         /\ "addStopper" \in Elems(s) => h = "freezingAll"
         /\ "closeClosed" \in Elems(s) => "emitClosed" \in Elems(s)
         /\ h \in UpSteps => s = <<"try">>
<1> SUFFICES ASSUME NEW s, s = JobOf(h)
             PROVE  /\ Plan(s) /\ s /= <<>> /\ Elems(s) \subseteq JobSteps
                    /\ "stop" \in Elems(s) => h = "stopping"
                    /\ "addStopper" \in Elems(s) => h = "freezingAll"
                    /\ "closeClosed" \in Elems(s) => "emitClosed" \in Elems(s)
                    /\ h \in UpSteps => s = <<"try">>
  OBVIOUS
<1>1. CASE h = "freezing"
  <2>1. s = <<"try">> \o <<"kill", "freeze", "emitFrozen">>
    BY <1>1 DEF JobOf, Work
  <2>2. /\ Len(s) = 4 /\ s[1] = "try" /\ s[2] = "kill" /\ s[3] = "freeze"
        /\ s[4] = "emitFrozen" /\ Head(s) = s[1]
    BY <2>1
  <2>3. Shape(s)
    BY <2>2 DEF Shape, Fits, Arming, Final
  <2>4. Elems(s) = {"try", "kill", "freeze", "emitFrozen"}
    BY <2>2 DEF Elems
  <2> QED
    BY <1>1, <2>2, <2>3, <2>4 DEF Plan, Later, JobSteps, UpSteps
<1>2. CASE h = "stopping"
  <2>1. s = <<"try">> \o <<"kill", "stop">>
    BY <1>2 DEF JobOf, Work
  <2>2. /\ Len(s) = 3 /\ s[1] = "try" /\ s[2] = "kill" /\ s[3] = "stop"
        /\ Head(s) = s[1]
    BY <2>1
  <2>3. Shape(s)
    BY <2>2 DEF Shape, Fits, Arming, Final
  <2>4. Elems(s) = {"try", "kill", "stop"}
    BY <2>2 DEF Elems
  <2> QED
    BY <1>2, <2>2, <2>3, <2>4 DEF Plan, Later, JobSteps, UpSteps
<1>3. CASE h = "leaving"
  <2>1. s = <<"try">> \o <<"kill", "emitClosed", "closeClosed">>
    BY <1>3 DEF JobOf, Work
  <2>2. /\ Len(s) = 4 /\ s[1] = "try" /\ s[2] = "kill" /\ s[3] = "emitClosed"
        /\ s[4] = "closeClosed" /\ Head(s) = s[1]
    BY <2>1
  <2>3. Shape(s)
    BY <2>2 DEF Shape, Fits, Arming, Final
  <2>4. Elems(s) = {"try", "kill", "emitClosed", "closeClosed"}
    BY <2>2 DEF Elems
  <2> QED
    BY <1>3, <2>2, <2>3, <2>4 DEF Plan, Later, JobSteps, UpSteps
<1>4. CASE h = "freezingAll" /\ "Freeze" \in conf.hooks
  <2>1. s = <<"try">> \o ((<<"kill">> \o (<<"addStopper">> \o <<"freezing">>) \o <<"emitClosed">>)
                          \o <<"closeClosed">>)
    BY <1>4 DEF JobOf, Work, FreezeAllSteps, FreezeSteps, Hook, HookOf
  <2>2. /\ Len(s) = 6 /\ s[1] = "try" /\ s[2] = "kill" /\ s[3] = "addStopper"
        /\ s[4] = "freezing" /\ s[5] = "emitClosed" /\ s[6] = "closeClosed"
        /\ Head(s) = s[1]
    BY <2>1
  <2>3. Shape(s)
    <3> SUFFICES ASSUME NEW i \in 1 .. 6 PROVE Fits(s, i)
      BY <2>2 DEF Shape
    <3>1. CASE i = 1  BY <2>2, <3>1 DEF Fits, Arming, Final
    <3>2. CASE i = 2  BY <2>2, <3>2 DEF Fits, Arming, Final
    <3>3. CASE i = 3  BY <2>2, <3>3 DEF Fits, Arming, Final
    <3>4. CASE i = 4  BY <2>2, <3>4 DEF Fits, Arming, Final
    <3>5. CASE i = 5  BY <2>2, <3>5 DEF Fits, Arming, Final
    <3>6. CASE i = 6  BY <2>2, <3>6 DEF Fits, Arming, Final
    <3> QED
      BY <3>1, <3>2, <3>3, <3>4, <3>5, <3>6
  <2>4. Elems(s) = {"try", "kill", "addStopper", "freezing", "emitClosed", "closeClosed"}
    BY <2>2, SMTT(30) DEF Elems
  <2> QED
    BY <1>4, <2>2, <2>3, <2>4 DEF Plan, Later, JobSteps, UpSteps
<1>5. CASE h = "freezingAll" /\ "Freeze" \notin conf.hooks
  <2>1. s = <<"try">> \o
               ((<<"kill">> \o (<<"addStopper">> \o <<"kill", "freeze", "emitFrozen">>)
                  \o <<"emitClosed">>) \o <<"closeClosed">>)
    BY <1>5 DEF JobOf, Work, FreezeAllSteps, FreezeSteps, Hook, HookOf
  <2>2. /\ Len(s) = 8 /\ s[1] = "try" /\ s[2] = "kill" /\ s[3] = "addStopper"
        /\ s[4] = "kill" /\ s[5] = "freeze" /\ s[6] = "emitFrozen"
        /\ s[7] = "emitClosed" /\ s[8] = "closeClosed" /\ Head(s) = s[1]
    BY <2>1
  <2>3. Shape(s)
    <3> SUFFICES ASSUME NEW i \in 1 .. 8 PROVE Fits(s, i)
      BY <2>2 DEF Shape
    <3>1. CASE i = 1  BY <2>2, <3>1 DEF Fits, Arming, Final
    <3>2. CASE i = 2  BY <2>2, <3>2 DEF Fits, Arming, Final
    <3>3. CASE i = 3  BY <2>2, <3>3 DEF Fits, Arming, Final
    <3>4. CASE i = 4  BY <2>2, <3>4 DEF Fits, Arming, Final
    <3>5. CASE i = 5  BY <2>2, <3>5 DEF Fits, Arming, Final
    <3>6. CASE i = 6  BY <2>2, <3>6 DEF Fits, Arming, Final
    <3>7. CASE i = 7  BY <2>2, <3>7 DEF Fits, Arming, Final
    <3>8. CASE i = 8  BY <2>2, <3>8 DEF Fits, Arming, Final
    <3> QED
      BY <3>1, <3>2, <3>3, <3>4, <3>5, <3>6, <3>7, <3>8
  <2>4. Elems(s) = {"try", "kill", "addStopper", "freeze",
                    "emitFrozen", "emitClosed", "closeClosed"}
    BY <2>2, SMTT(30) DEF Elems
  <2> QED
    BY <1>5, <2>2, <2>3, <2>4 DEF Plan, Later, JobSteps, UpSteps
<1>6. CASE h \in {"booted", "thawed", "command"}
  <2>1. s = <<"try">>
    <3>1. Work(h) = <<>>
      BY <1>6 DEF Work
    <3>2. <<"try">> \in Seq(Steps)
      BY OneStep DEF Steps
    <3> QED
      BY <3>1, <3>2, ConcatEmptySeq DEF JobOf
  <2>2. Len(s) = 1 /\ s[1] = "try" /\ Head(s) = s[1] /\ s /= <<>>
    BY <2>1
  <2>3. Shape(s)
    BY <2>2 DEF Shape, Fits, Arming, Final
  <2>4. Elems(s) = {"try"}
    BY <2>2 DEF Elems
  <2> QED
    BY <2>1, <2>2, <2>3, <2>4 DEF Plan, Later, JobSteps
<1> QED
  BY <1>1, <1>2, <1>3, <1>4, <1>5, <1>6 DEF HookSteps

(* A boot takes the container up; so does the ticker's Unfreeze. *)
LEMMA BootPlan ==
  ASSUME NEW s,
         \/ s = <<"thaw", "wait", "ip", "live">> \o Hook("thawed", <<>>) \o <<"addTicker">>
         \/ s = <<"start", "wait", "ip", "live">> \o Hook("booted", <<>>) \o <<"addTicker">>
         \/ s = UnfreezeSteps
  PROVE  Plan(s) /\ Elems(s) \subseteq UpSteps
<1>1. CASE /\ s = <<"thaw", "wait", "ip", "live">> \o Hook("thawed", <<>>) \o <<"addTicker">>
           /\ "Unfreeze" \in conf.hooks
  <2>1. s = <<"thaw", "wait", "ip", "live">> \o <<"thawed">> \o <<"addTicker">>
    BY <1>1 DEF Hook, HookOf
  <2>2. /\ Len(s) = 6 /\ s[1] = "thaw" /\ s[2] = "wait" /\ s[3] = "ip" /\ s[4] = "live"
        /\ s[5] = "thawed" /\ s[6] = "addTicker" /\ Head(s) = s[1]
    BY <2>1
  <2>3. Shape(s)
    <3> SUFFICES ASSUME NEW i \in 1 .. 6 PROVE Fits(s, i)
      BY <2>2 DEF Shape
    <3>1. CASE i = 1  BY <2>2, <3>1 DEF Fits, Arming, Final
    <3>2. CASE i = 2  BY <2>2, <3>2 DEF Fits, Arming, Final
    <3>3. CASE i = 3  BY <2>2, <3>3 DEF Fits, Arming, Final
    <3>4. CASE i = 4  BY <2>2, <3>4 DEF Fits, Arming, Final
    <3>5. CASE i = 5  BY <2>2, <3>5 DEF Fits, Arming, Final
    <3>6. CASE i = 6  BY <2>2, <3>6 DEF Fits, Arming, Final
    <3> QED
      BY <3>1, <3>2, <3>3, <3>4, <3>5, <3>6
  <2>4. Elems(s) = {"thaw", "wait", "ip", "live", "thawed", "addTicker"}
    BY <2>2, SMTT(30) DEF Elems
  <2> QED
    BY <1>1, <2>2, <2>3, <2>4 DEF Plan, Later, UpSteps
<1>2. CASE /\ s = <<"thaw", "wait", "ip", "live">> \o Hook("thawed", <<>>) \o <<"addTicker">>
           /\ "Unfreeze" \notin conf.hooks
  <2>1. s = <<"thaw", "wait", "ip", "live">> \o <<>> \o <<"addTicker">>
    BY <1>2 DEF Hook, HookOf
  <2>2. /\ Len(s) = 5 /\ s[1] = "thaw" /\ s[2] = "wait" /\ s[3] = "ip" /\ s[4] = "live"
        /\ s[5] = "addTicker" /\ Head(s) = s[1]
    BY <2>1
  <2>3. Shape(s)
    BY <2>2 DEF Shape, Fits, Arming, Final
  <2>4. Elems(s) = {"thaw", "wait", "ip", "live", "addTicker"}
    BY <2>2 DEF Elems
  <2> QED
    BY <1>2, <2>2, <2>3, <2>4 DEF Plan, Later, UpSteps
<1>3. CASE /\ s = <<"start", "wait", "ip", "live">> \o Hook("booted", <<>>) \o <<"addTicker">>
           /\ "Boot" \in conf.hooks
  <2>1. s = <<"start", "wait", "ip", "live">> \o <<"booted">> \o <<"addTicker">>
    BY <1>3 DEF Hook, HookOf
  <2>2. /\ Len(s) = 6 /\ s[1] = "start" /\ s[2] = "wait" /\ s[3] = "ip" /\ s[4] = "live"
        /\ s[5] = "booted" /\ s[6] = "addTicker" /\ Head(s) = s[1]
    BY <2>1
  <2>3. Shape(s)
    <3> SUFFICES ASSUME NEW i \in 1 .. 6 PROVE Fits(s, i)
      BY <2>2 DEF Shape
    <3>1. CASE i = 1  BY <2>2, <3>1 DEF Fits, Arming, Final
    <3>2. CASE i = 2  BY <2>2, <3>2 DEF Fits, Arming, Final
    <3>3. CASE i = 3  BY <2>2, <3>3 DEF Fits, Arming, Final
    <3>4. CASE i = 4  BY <2>2, <3>4 DEF Fits, Arming, Final
    <3>5. CASE i = 5  BY <2>2, <3>5 DEF Fits, Arming, Final
    <3>6. CASE i = 6  BY <2>2, <3>6 DEF Fits, Arming, Final
    <3> QED
      BY <3>1, <3>2, <3>3, <3>4, <3>5, <3>6
  <2>4. Elems(s) = {"start", "wait", "ip", "live", "booted", "addTicker"}
    BY <2>2, SMTT(30) DEF Elems
  <2> QED
    BY <1>3, <2>2, <2>3, <2>4 DEF Plan, Later, UpSteps
<1>4. CASE /\ s = <<"start", "wait", "ip", "live">> \o Hook("booted", <<>>) \o <<"addTicker">>
           /\ "Boot" \notin conf.hooks
  <2>1. s = <<"start", "wait", "ip", "live">> \o <<>> \o <<"addTicker">>
    BY <1>4 DEF Hook, HookOf
  <2>2. /\ Len(s) = 5 /\ s[1] = "start" /\ s[2] = "wait" /\ s[3] = "ip" /\ s[4] = "live"
        /\ s[5] = "addTicker" /\ Head(s) = s[1]
    BY <2>1
  <2>3. Shape(s)
    BY <2>2 DEF Shape, Fits, Arming, Final
  <2>4. Elems(s) = {"start", "wait", "ip", "live", "addTicker"}
    BY <2>2 DEF Elems
  <2> QED
    BY <1>4, <2>2, <2>3, <2>4 DEF Plan, Later, UpSteps
<1>5. CASE s = UnfreezeSteps
  <2>1. s = <<"closeStopper", "boot">>
    BY <1>5 DEF UnfreezeSteps
  <2>2. /\ Len(s) = 2 /\ s[1] = "closeStopper" /\ s[2] = "boot" /\ Head(s) = s[1]
    BY <2>1
  <2>3. Shape(s)
    BY <2>2 DEF Shape, Fits, Arming, Final
  <2>4. Elems(s) = {"closeStopper", "boot"}
    BY <2>2 DEF Elems
  <2> QED
    BY <1>5, <2>2, <2>3, <2>4 DEF Plan, Later, UpSteps
<1> QED
  BY <1>1, <1>2, <1>3, <1>4, <1>5

-----------------------------------------------------------------------------
(* What a step does *)

(* One thread goes on with s, or starts a job as well. *)
Goes(t, s) ==
  /\ todo'[t] = s
  /\ \A u \in Threads \ {t} : todo'[u] = todo[u]

Forks(t, j) ==
  /\ Head(todo[t]) \in HookSteps
  /\ j /= t /\ todo[j] = <<>>
  /\ todo'[t] = Tail(todo[t]) /\ todo'[j] = JobOf(Head(todo[t]))
  /\ \A u \in Threads \ {t, j} : todo'[u] = todo[u]

(* A step is done, goes on, or is replaced by others that go up as well.    *)
Lasting == {"try", "live", "kill", "closeSnifer"}

Moves(t) ==
  \/ \E j \in Jobs : Forks(t, j)
  \/ Goes(t, Tail(todo[t]))
  \/ Head(todo[t]) \in Lasting /\ Goes(t, todo[t])
  \/ /\ Head(todo[t]) \in UpSteps
     /\ \E s \in Seq(Steps) : Goes(t, s) /\ Plan(s) /\ Elems(s) \subseteq UpSteps

LEMMA BeforeGoes ==
  ASSUME TodoOK, NEW t \in Threads, todo[t] /= <<>>, NEW s \in Seq(Steps), Before(t, s)
  PROVE  Goes(t, s \o Tail(todo[t]))
<1> HIDE DEF Threads, Steps
<1> QED
  BY DEF Before, TodoOK, Goes

LEMMA DoneGoes ==
  ASSUME TodoOK, NEW t \in Threads, todo[t] /= <<>>, Done(t)
  PROVE  Goes(t, Tail(todo[t]))
<1>1. Tail(todo[t]) \in Seq(Steps)
  BY HeadTailProperties DEF TodoOK
<1>2. Goes(t, <<>> \o Tail(todo[t]))
  BY NoSteps, BeforeGoes DEF Done
<1> QED
  BY <1>1, <1>2, ConcatEmptySeq

LEMMA FailsGoes ==
  ASSUME TodoOK, NEW t \in Threads, Fails(t)
  PROVE  Goes(t, <<>>)
<1> HIDE DEF Threads
<1> QED
  BY DEF Fails, TodoOK, Goes

LEMMA SameGoes ==
  ASSUME NEW t \in Threads, UNCHANGED todo
  PROVE  Goes(t, todo[t])
  BY DEF Goes

(* A plan that takes the place of the last step. *)
LEMMA LastGoes ==
  ASSUME TodoOK, NEW t \in Threads, todo[t] /= <<>>, Shape(todo[t]),
         Head(todo[t]) \in {"boot", "addTicker"}, NEW s \in Seq(Steps), Before(t, s)
  PROVE  Goes(t, s)
<1>1. todo[t] \in Seq(Steps)
  BY DEF TodoOK
<1>2. Tail(todo[t]) = <<>>
  BY <1>1, TailShape DEF Final
<1>3. s \o <<>> = s
  BY ConcatEmptySeq
<1> QED
  BY <1>2, <1>3, BeforeGoes

LEMMA HookedForks ==
  ASSUME TodoOK, NEW t \in Threads, todo[t] /= <<>>, Hooked(t)
  PROVE  \E j \in Jobs : Forks(t, j)
<1> DEFINE j == AnyOf(FreeJobs)
           h == Head(todo[t])
<1>1. j \in Jobs /\ todo[j] = <<>> /\ j \in Threads
  BY DEF Hooked, AnyOf, FreeJobs, Threads
<1>2. todo' = [todo EXCEPT ![t] = Tail(@), ![j] = JobOf(h)] /\ h \in HookSteps
  BY DEF Hooked, JobOf
<1>3. j /= t
  BY <1>1
<1> HIDE DEF j, h
<1>4. /\ todo'[t] = Tail(todo[t]) /\ todo'[j] = JobOf(h)
      /\ \A u \in Threads \ {t, j} : todo'[u] = todo[u]
  BY <1>1, <1>2, <1>3 DEF TodoOK
<1> QED
  BY <1>1, <1>2, <1>3, <1>4 DEF Forks, h

LEMMA BootMoves ==
  ASSUME TodoOK, NEW t \in Threads, todo[t] /= <<>>, Shape(todo[t]), Boot(t)
  PROVE  Moves(t)
<1> DEFINE thawing == <<"thaw", "wait", "ip", "live">> \o Hook("thawed", <<>>) \o <<"addTicker">>
           starting == <<"start", "wait", "ip", "live">> \o Hook("booted", <<>>) \o <<"addTicker">>
<1>1. /\ Plan(thawing) /\ Elems(thawing) \subseteq UpSteps
      /\ Plan(starting) /\ Elems(starting) \subseteq UpSteps
  BY BootPlan
<1>2. thawing \in Seq(Steps) /\ starting \in Seq(Steps)
  <2>1. /\ <<"thaw", "wait", "ip", "live">> \in Seq(Steps)
        /\ <<"start", "wait", "ip", "live">> \in Seq(Steps)
        /\ <<"addTicker">> \in Seq(Steps)
    BY OneStep DEF Steps
  <2>2. Hook("thawed", <<>>) \in Seq(Steps) /\ Hook("booted", <<>>) \in Seq(Steps)
    BY HookIsSteps, NoSteps DEF HookSteps
  <2>3. /\ <<"thaw", "wait", "ip", "live">> \o Hook("thawed", <<>>) \in Seq(Steps)
        /\ <<"start", "wait", "ip", "live">> \o Hook("booted", <<>>) \in Seq(Steps)
    BY <2>1, <2>2, ConcatProperties
  <2> QED
    BY <2>1, <2>3, ConcatProperties
<1>3. Head(todo[t]) = "boot" /\ Head(todo[t]) \in UpSteps
  BY DEF Boot, At, UpSteps
<1>4. Before(t, thawing) \/ Before(t, starting) \/ Done(t) \/ Fails(t)
  BY DEF Boot
<1> HIDE DEF thawing, starting
<1>5. CASE Before(t, thawing)
  BY <1>1, <1>2, <1>3, <1>5, LastGoes DEF Moves
<1>6. CASE Before(t, starting)
  BY <1>1, <1>2, <1>3, <1>6, LastGoes DEF Moves
<1>7. CASE Done(t)
  BY <1>7, DoneGoes DEF Moves
<1>8. CASE Fails(t)
  BY <1>3, <1>8, FailsGoes, NoSteps, EmptyShape DEF Moves
<1> QED
  BY <1>4, <1>5, <1>6, <1>7, <1>8

LEMMA AddTickerMoves ==
  ASSUME TodoOK, NEW t \in Threads, todo[t] /= <<>>, Shape(todo[t]), AddTicker(t)
  PROVE  Moves(t)
<1>1. Head(todo[t]) = "addTicker" /\ Head(todo[t]) \in UpSteps
  BY DEF AddTicker, At, UpSteps
<1>2. UnfreezeSteps \in Seq(Steps)
  BY DEF UnfreezeSteps, Steps
<1>3. CASE Before(t, UnfreezeSteps)
  BY <1>1, <1>2, <1>3, BootPlan, LastGoes DEF Moves
<1>4. CASE Done(t)
  BY <1>4, DoneGoes DEF Moves
<1> QED
  BY <1>3, <1>4 DEF AddTicker

(* Errors end operations that go up only. *)
LEMMA StepMoves ==
  ASSUME TodoOK, NEW t \in Threads, Shape(todo[t]), Step(t)
  PROVE  Moves(t)
<1>1. todo[t] /= <<>>
  BY DEF Step
<1>2. CASE Hooked(t)  BY <1>1, <1>2, HookedForks DEF Moves
<1>3. CASE Boot(t)  BY <1>1, <1>3, BootMoves
<1>4. CASE AddTicker(t)  BY <1>1, <1>4, AddTickerMoves
<1>5. CASE Done(t)  BY <1>1, <1>5, DoneGoes DEF Moves
<1>6. CASE Fails(t) /\ Head(todo[t]) \in UpSteps
  BY <1>6, FailsGoes, NoSteps, EmptyShape DEF Moves
<1>7. CASE Try(t)
  <2>1. Done(t) \/ (Head(todo[t]) = "try" /\ UNCHANGED todo)
    BY <1>7 DEF Try, At
  <2> QED
    BY <1>5, <2>1, SameGoes DEF Moves, Lasting
<1>8. CASE Thaw(t) \/ Start(t) \/ Wait(t) \/ CheckRunning(t)
  <2>1. Done(t) \/ Fails(t)
    BY <1>8 DEF Thaw, Start, Wait, CheckRunning
  <2>2. Head(todo[t]) \in UpSteps
    BY <1>8 DEF Thaw, Start, Wait, CheckRunning, At, UpSteps
  <2> QED
    BY <1>5, <1>6, <2>1, <2>2
<1>9. CASE \/ IP(t) \/ AddStopper(t) \/ CloseStopper(t) \/ CloseTimers(t)
           \/ FreezeContainer(t) \/ StopContainer(t)
  BY <1>5, <1>9 DEF IP, AddStopper, CloseStopper, CloseTimers, FreezeContainer, StopContainer
<1>10. CASE \E stream \in {"frozen", "closed"} :
              Stack(t, stream) \/ Emit(t, stream) \/ CloseStream(t, stream)
  BY <1>5, <1>10 DEF Stack, Emit, CloseStream
<1>11. CASE Live(t) \/ Kill(t) \/ CloseSnifer(t)
  <2>1. Head(todo[t]) \in Lasting
    BY <1>11 DEF Live, Kill, CloseSnifer, At, Lasting
  <2>2. Done(t) \/ UNCHANGED todo
    BY <1>11 DEF Live, Kill, CloseSnifer, Returns
  <2> QED
    BY <1>5, <2>1, <2>2, SameGoes DEF Moves
<1> QED
  BY <1>2, <1>3, <1>4, <1>7, <1>8, <1>9, <1>10, <1>11 DEF Step

(* What the steps do to everything else. *)
ContainerEffect(t) ==
  LET h == Head(todo[t]) IN
  /\ container' /= container => h \in {"thaw", "start", "freeze", "stop"}
  /\ h = "thaw" => container' \in {container, "RUNNING"}
  /\ h = "start" /\ container' /= container => container = "STOPPED"
  /\ h \in {"wait", "checkRunning"} => container = "RUNNING" \/ todo'[t] = <<>>

(* The calls of the snifer last until they have returned.                   *)
Lasts(t) == IF pc'[t] = "idle" THEN Goes(t, Tail(todo[t])) ELSE Goes(t, todo[t])

LivesOn(t) ==
  /\ conf.snifers
  /\ S!Live(t) \/ S!Open(t) \/ S!OpenFails(t) \/ S!Go(t) \/ S!Activate(t)
  /\ Lasts(t)

SniferEffect(t) ==
  LET h == Head(todo[t]) IN
  /\ h = "live" =>
       /\ LivesOn(t) \/ (~conf.snifers /\ snifer' = snifer /\ Goes(t, Tail(todo[t])))
       /\ overtaken' = \/ overtaken
                       \/ pc'[t] = "opening" /\ \E i \in S!Sessions : loop[i] = "dropKilled"
  /\ h = "kill" =>
       /\ IF conf.snifers THEN S!Kill(t, FALSE) \/ S!Killed(t) ELSE snifer' = snifer
       /\ Lasts(t)
  /\ h = "closeSnifer" => S!Kill(t, TRUE) \/ S!Killed(t)
  /\ h \notin {"live", "kill", "closeSnifer"} => snifer' = snifer
  /\ h /= "live" => overtaken' = overtaken

DumpEffect(t) ==
  LET h == Head(todo[t]) IN
  /\ h = "closeClosed" => open' = open \ {"closed"}
  /\ h = "closeFrozen" => open' = open \ {"frozen"}
  /\ h \notin {"closeClosed", "closeFrozen"} => open' = open
  /\ h = "stackFrozen" => stacked' = stacked \cup ({"frozen"} \cap open)
  /\ h = "stackClosed" => stacked' = stacked \cup ({"closed"} \cap open)
  /\ h = "emitFrozen" => stacked' = stacked \ ({"frozen"} \cap open)
  /\ h = "emitClosed" => stacked' = stacked \ ({"closed"} \cap open)
  /\ h \notin {"stackFrozen", "stackClosed", "emitFrozen", "emitClosed"} => stacked' = stacked

TimerEffect(t) ==
  LET h == Head(todo[t]) IN
  /\ h = "addStopper" => timer' \in {timer, [timer EXCEPT !.stopper = "counting"]}
  /\ h = "closeStopper" => timer' \in {timer, [timer EXCEPT !.stopper = "off"]}
  /\ h = "closeTimers" => \/ crashed'
                          \/ ~conf.freeze /\ timer' = timer
                          \/ timer' = [x \in Timers |-> "off"]
  /\ h \notin {"addTicker", "addStopper", "closeStopper", "closeTimers"} => timer' = timer

Effects(t) ==
  /\ ~crashed
  /\ conf' = conf /\ last' = last /\ (orderly' => orderly)
  /\ ContainerEffect(t) /\ SniferEffect(t) /\ DumpEffect(t) /\ TimerEffect(t)

LEMMA StepEffects ==
  ASSUME TypeOK, NEW t \in Threads, Step(t)
  PROVE  Effects(t)
<1> DEFINE h == Head(todo[t])
<1>0. todo[t] /= <<>> /\ TodoOK
  BY TypeIsTodoAndData DEF Step
<1> USE DEF At, Effects, ContainerEffect, SniferEffect, DumpEffect, TimerEffect, dump, history
<1>1. CASE Hooked(t)
  BY <1>1 DEF Hooked, HookSteps
<1>2. CASE Try(t)
  BY <1>2 DEF Try
<1>3. CASE Boot(t)
  BY <1>3 DEF Boot
<1>4. CASE Thaw(t)
  <2>1. orderly' => orderly
    BY <1>4 DEF Thaw
  <2>2. container' /= container => h \in {"thaw", "start", "freeze", "stop"}
    BY <1>4 DEF Thaw
  <2>3. h = "thaw" => container' \in {container, "RUNNING"}
    BY <1>4 DEF Thaw
  <2>4. ContainerEffect(t)
    BY <1>4, <2>2, <2>3 DEF Thaw
  <2> HIDE DEF ContainerEffect
  <2> QED
    BY <1>4, <2>1, <2>4 DEF Thaw
<1>5. CASE Start(t)
  BY <1>5 DEF Start
<1>6. CASE Wait(t)
  <2>1. container = "RUNNING" \/ todo'[t] = <<>>
    BY <1>0, <1>6, FailsGoes DEF Wait, Goes
  <2> QED
    BY <1>6, <2>1 DEF Wait
<1>7. CASE IP(t)
  BY <1>7 DEF IP
<1>8. CASE Live(t)
  <2>1. Returns(t) => Lasts(t)
    BY <1>0, DoneGoes, SameGoes DEF Returns, Lasts
  <2>2. LivesOn(t) \/ (~conf.snifers /\ snifer' = snifer /\ Goes(t, Tail(todo[t])))
    BY <1>0, <1>8, <2>1, DoneGoes DEF Live, LivesOn
  <2> QED
    BY <1>8, <2>2 DEF Live
<1>9. CASE AddTicker(t)
  BY <1>9 DEF AddTicker
<1>10. CASE AddStopper(t)
  <2>1. timer \in [Timers -> {"nil", "off", "counting"}] /\ "stopper" \in Timers
    BY DEF TypeOK, Timers
  <2>2. [timer EXCEPT !.stopper = timer.stopper] = timer
    BY <2>1
  <2>3. timer' \in {timer, [timer EXCEPT !.stopper = "counting"]}
    BY <1>10, <2>2 DEF AddStopper
  <2> QED
    BY <1>10, <2>3 DEF AddStopper
<1>11. CASE CloseStopper(t)
  <2>1. timer \in [Timers -> {"nil", "off", "counting"}] /\ "stopper" \in Timers
    BY DEF TypeOK, Timers
  <2>2. [timer EXCEPT !.stopper = timer.stopper] = timer
    BY <2>1
  <2>3. timer' \in {timer, [timer EXCEPT !.stopper = "off"]}
    BY <1>11, <2>2 DEF CloseStopper
  <2> QED
    BY <1>11, <2>3 DEF CloseStopper
<1>12. CASE CloseTimers(t)
  <2>1. crashed' \/ (~conf.freeze /\ timer' = timer) \/ timer' = [x \in Timers |-> "off"]
    BY <1>12 DEF CloseTimers
  <2> QED
    BY <1>12, <2>1 DEF CloseTimers
<1>13. CASE Kill(t)
  <2>1. Lasts(t)
    BY <1>0, <1>13, DoneGoes, SameGoes DEF Kill, Returns, Lasts
  <2>2. IF conf.snifers THEN S!Kill(t, FALSE) \/ S!Killed(t) ELSE snifer' = snifer
    BY <1>13 DEF Kill, TurnOff
  <2> QED
    BY <1>13, <2>1, <2>2 DEF Kill
<1>14. CASE CloseSnifer(t)
  BY <1>14 DEF CloseSnifer
<1>15. CASE FreezeContainer(t)
  <2>1. orderly' => orderly
    BY <1>15 DEF FreezeContainer
  <2>2. container' /= container => h \in {"thaw", "start", "freeze", "stop"}
    BY <1>15 DEF FreezeContainer
  <2>3. h = "thaw" => container' \in {container, "RUNNING"}
    BY <1>15 DEF FreezeContainer
  <2>4. ContainerEffect(t)
    BY <1>15, <2>2, <2>3 DEF FreezeContainer
  <2> HIDE DEF ContainerEffect
  <2> QED
    BY <1>15, <2>1, <2>4 DEF FreezeContainer
<1>16. CASE StopContainer(t)
  <2>1. orderly' => orderly
    BY <1>16 DEF StopContainer
  <2>2. container' /= container => h \in {"thaw", "start", "freeze", "stop"}
    BY <1>16 DEF StopContainer
  <2>3. h = "thaw" => container' \in {container, "RUNNING"}
    BY <1>16 DEF StopContainer
  <2>4. ContainerEffect(t)
    BY <1>16, <2>2, <2>3 DEF StopContainer
  <2> HIDE DEF ContainerEffect
  <2> QED
    BY <1>16, <2>1, <2>4 DEF StopContainer
<1>17. CASE CheckRunning(t)
  <2>1. container = "RUNNING" \/ todo'[t] = <<>>
    BY <1>0, <1>17, FailsGoes DEF CheckRunning, Goes
  <2> QED
    BY <1>17, <2>1 DEF CheckRunning
<1>18. ASSUME NEW stream \in {"frozen", "closed"}, CloseStream(t, stream) PROVE Effects(t)
  BY <1>18 DEF CloseStream
<1>19. ASSUME NEW stream \in {"frozen", "closed"}, Stack(t, stream) PROVE Effects(t)
  BY <1>19 DEF Stack
<1>20. ASSUME NEW stream \in {"frozen", "closed"}, Emit(t, stream) PROVE Effects(t)
  <2>1. stacked' = stacked \ ({stream} \cap open)
    BY <1>20 DEF Emit, Told
  <2> QED
    BY <1>20, <2>1 DEF Emit
<1> QED
  BY <1>1, <1>2, <1>3, <1>4, <1>5, <1>6, <1>7, <1>8, <1>9, <1>10, <1>11, <1>12, <1>13, <1>14,
     <1>15, <1>16, <1>17, <1>18, <1>19, <1>20 DEF Step

-----------------------------------------------------------------------------
(* What the threads have left to do *)

LEMMA Apart ==
  /\ JobSteps \subseteq DownSteps
  /\ \A e \in DownSteps : e \notin UpSteps
  /\ "try" \in JobSteps
  BY DEF JobSteps, DownSteps, UpSteps

(* A thread goes down, as the jobs do, or up, as the callers may.           *)
PlanFor(t, s) ==
  /\ Shape(s)
  /\ Elems(s) \subseteq DownSteps \/ Elems(s) \subseteq UpSteps
  /\ t \in Jobs => Elems(s) \subseteq JobSteps
  /\ "freezingAll" \in Elems(s) => "Shutdown" \in conf.hooks
  /\ t \in Jobs /\ "addStopper" \in Elems(s) => "Shutdown" \in conf.hooks

PlansOK == \A t \in Threads : PlanFor(t, todo[t])

LEMMA ShapeOf == ASSUME PlansOK, NEW t \in Threads PROVE Shape(todo[t])
  BY DEF PlansOK, PlanFor

LEMMA HeadIsLeft ==
  ASSUME TodoOK, NEW t \in Threads, todo[t] /= <<>>
  PROVE  Head(todo[t]) \in Left(t) /\ Head(todo[t]) \in Steps
<1>1. todo[t] \in Seq(Steps)
  BY DEF TodoOK
<1> HIDE DEF Steps
<1>2. /\ Len(todo[t]) \in Nat \ {0} /\ Head(todo[t]) = todo[t][1]
      /\ Head(todo[t]) \in Steps
  BY <1>1, EmptySeq
<1> QED
  BY <1>2 DEF Left, Elems

LEMMA EmptyLeft == ASSUME NEW t \in Threads, todo[t] = <<>> PROVE Left(t) = {}
  BY EmptyShape DEF Left

LEMMA TailLeft ==
  ASSUME TodoOK, PlansOK, NEW t \in Threads, todo[t] /= <<>>
  PROVE  Left(t) = {Head(todo[t])} \cup Elems(Tail(todo[t]))
<1>1. todo[t] \in Seq(Steps) /\ Shape(todo[t])
  BY ShapeOf DEF TodoOK
<1> QED
  BY <1>1, TailShape DEF Left

(* A thread with a step up left goes up, and is no job. *)
LEMMA UpThread ==
  ASSUME PlansOK, NEW t \in Threads, NEW e \in Left(t), e \in UpSteps
  PROVE  Left(t) \subseteq UpSteps /\ t \notin Jobs
  BY Apart DEF PlansOK, PlanFor, Left

LEMMA DownThread ==
  ASSUME PlansOK, NEW t \in Threads, NEW e \in Left(t), e \notin UpSteps
  PROVE  Left(t) \subseteq DownSteps
  BY DEF PlansOK, PlanFor, Left

LEMMA HarmlessLeft ==
  ASSUME NEW t \in Threads, Harmless(t)
  PROVE  Left(t) \subseteq {"try"} /\ (todo[t] /= <<>> => Head(todo[t]) = "try")
<1>1. CASE todo[t] = <<>>
  BY <1>1, EmptyLeft
<1>2. CASE todo[t] = <<"try">>
  <2>1. Elems(<<"try">>) = {"try"}
    BY DEF Elems
  <2> QED
    BY <1>2, <2>1 DEF Left
<1> QED
  BY <1>1, <1>2 DEF Harmless

(* What is left after a step was left before, comes with a step up, or is   *)
(* of a new job.                                                            *)
LEMMA Gained ==
  ASSUME TodoOK, PlansOK, NEW t \in Threads, todo[t] /= <<>>, Moves(t),
         NEW u \in Threads, NEW e \in Elems(todo'[u])
  PROVE  \/ e \in Left(u)
         \/ u = t /\ Head(todo[t]) \in UpSteps /\ e \in UpSteps
         \/ /\ u \in Jobs /\ u /= t /\ Head(todo[t]) \in HookSteps
            /\ todo'[u] = JobOf(Head(todo[t]))
<1>1. Elems(Tail(todo[t])) \subseteq Left(t)
  BY TailLeft
<1>2. ASSUME NEW j \in Jobs, Forks(t, j)
      PROVE  \/ e \in Left(u)
             \/ /\ u \in Jobs /\ u /= t /\ Head(todo[t]) \in HookSteps
                /\ todo'[u] = JobOf(Head(todo[t]))
  BY <1>1, <1>2 DEF Forks, Left
<1>3. CASE Goes(t, Tail(todo[t])) \/ Goes(t, todo[t])
  BY <1>1, <1>3 DEF Goes, Left
<1>4. ASSUME NEW s \in Seq(Steps), Goes(t, s), Elems(s) \subseteq UpSteps, Head(todo[t]) \in UpSteps
      PROVE  e \in Left(u) \/ (u = t /\ Head(todo[t]) \in UpSteps /\ e \in UpSteps)
  BY <1>4 DEF Goes, Left
<1> QED
  BY <1>2, <1>3, <1>4 DEF Moves

(* A step takes away itself only, unless it goes up. *)
LEMMA Lost ==
  ASSUME TodoOK, PlansOK, NEW t \in Threads, todo[t] /= <<>>, Moves(t),
         NEW u \in Threads, NEW e \in Left(u), e \notin UpSteps,
         u = t => e /= Head(todo[t])
  PROVE  e \in Elems(todo'[u])
<1>1. u = t => e \in Elems(Tail(todo[t]))
  BY TailLeft
<1>2. ASSUME NEW j \in Jobs, Forks(t, j) PROVE e \in Elems(todo'[u])
  <2>1. u /= j
    BY <1>2, EmptyLeft DEF Forks
  <2> QED
    BY <1>1, <1>2, <2>1 DEF Forks, Left
<1>3. CASE Goes(t, Tail(todo[t])) \/ Goes(t, todo[t])
  BY <1>1, <1>3 DEF Goes, Left
<1>4. ASSUME NEW s \in Seq(Steps), Goes(t, s), Head(todo[t]) \in UpSteps PROVE e \in Elems(todo'[u])
  <2>1. u /= t
    BY <1>4, HeadIsLeft, UpThread
  <2> QED
    BY <1>4, <2>1 DEF Goes, Left
<1> QED
  BY <1>2, <1>3, <1>4 DEF Moves

(* A thread comes to a later step only by the one before it. *)
LEMMA Fronts ==
  ASSUME TodoOK, PlansOK, NEW t \in Threads, todo[t] /= <<>>, Moves(t),
         NEW u \in Threads, todo'[u] /= <<>>, Head(todo'[u]) \in Later
  PROVE  IF u = t THEN \/ todo'[t] = Tail(todo[t])
                       \/ Head(todo[t]) = "live" /\ todo'[t] = todo[t]
                  ELSE todo'[u] = todo[u]
<1> DEFINE Fronting == IF u = t THEN \/ todo'[t] = Tail(todo[t])
                                     \/ Head(todo[t]) = "live" /\ todo'[t] = todo[t]
                                ELSE todo'[u] = todo[u]
<1>1. Lasting \cap Later = {"live"}
  BY DEF Later, Lasting
<1>2. ASSUME NEW j \in Jobs, Forks(t, j)
      PROVE  Fronting
  <2>1. Plan(JobOf(Head(todo[t])))
    BY <1>2, WorkPlan DEF Forks
  <2>2. u /= j
    BY <1>2, <2>1 DEF Forks, Plan
  <2> QED
    BY <1>2, <2>2 DEF Forks
<1>3. CASE Goes(t, Tail(todo[t]))
  BY <1>3 DEF Goes
<1>4. CASE Head(todo[t]) \in Lasting /\ Goes(t, todo[t])
  BY <1>1, <1>4 DEF Goes
<1>5. ASSUME NEW s \in Seq(Steps), Goes(t, s), Plan(s)
      PROVE  Fronting
  BY <1>5 DEF Goes, Plan
<1> QED
  BY <1>2, <1>3, <1>4, <1>5 DEF Moves

(* Plans stay plans. *)
LEMMA TailPlan ==
  ASSUME NEW t, NEW s \in Seq(Steps), s /= <<>>, PlanFor(t, s)
  PROVE  PlanFor(t, Tail(s))
<1>1. Shape(Tail(s)) /\ Elems(Tail(s)) \subseteq Elems(s)
  BY TailShape DEF PlanFor
<1> QED
  BY <1>1 DEF PlanFor

LEMMA JobPlan ==
  ASSUME NEW j \in Jobs, NEW h \in HookSteps, h = "freezingAll" => "Shutdown" \in conf.hooks
  PROVE  PlanFor(j, JobOf(h))
<1>1. /\ Shape(JobOf(h)) /\ Elems(JobOf(h)) \subseteq JobSteps
      /\ "addStopper" \in Elems(JobOf(h)) => h = "freezingAll"
  BY WorkPlan DEF Plan
<1>2. "freezingAll" \notin JobSteps
  BY DEF JobSteps
<1> QED
  BY <1>1, <1>2, Apart DEF PlanFor

LEMMA StepPlans ==
  ASSUME TodoOK, PlansOK, NEW t \in Threads, todo[t] /= <<>>, Moves(t), conf' = conf
  PROVE  PlansOK'
<1> SUFFICES ASSUME NEW u \in Threads PROVE PlanFor(u, todo'[u])
  BY DEF PlansOK, PlanFor
<1>1. PlanFor(u, todo[u]) /\ PlanFor(t, todo[t])
  BY DEF PlansOK
<1>2. PlanFor(t, Tail(todo[t]))
  BY <1>1, TailPlan DEF TodoOK
<1>3. ASSUME NEW j \in Jobs, Forks(t, j) PROVE PlanFor(u, todo'[u])
  <2>1. Head(todo[t]) = "freezingAll" => "Shutdown" \in conf.hooks
    BY <1>1, HeadIsLeft DEF PlanFor, Left
  <2>2. PlanFor(j, JobOf(Head(todo[t])))
    BY <1>3, <2>1, JobPlan DEF Forks
  <2> QED
    BY <1>1, <1>2, <1>3, <2>2 DEF Forks
<1>4. CASE Goes(t, Tail(todo[t])) \/ Goes(t, todo[t])
  BY <1>1, <1>2, <1>4 DEF Goes
<1>5. ASSUME NEW s \in Seq(Steps), Goes(t, s), Plan(s), Elems(s) \subseteq UpSteps,
             Head(todo[t]) \in UpSteps
      PROVE  PlanFor(u, todo'[u])
  <2>1. t \notin Jobs
    BY <1>5, HeadIsLeft, UpThread
  <2>2. "freezingAll" \notin UpSteps
    BY DEF UpSteps
  <2>3. PlanFor(t, s)
    BY <1>5, <2>1, <2>2 DEF PlanFor, Plan
  <2> QED
    BY <1>1, <1>5, <2>3 DEF Goes
<1> QED
  BY <1>3, <1>4, <1>5 DEF Moves

-----------------------------------------------------------------------------
(* One operation after the other *)

(* While operations follow each other, one thread that is no job is busy,   *)
(* and what goes up does so alone.                                          *)
InTurn ==
  orderly =>
    /\ \A t, u \in Threads \ Jobs : ~Harmless(t) /\ ~Harmless(u) => t = u
    /\ \A t \in Threads : Left(t) \cap UpSteps /= {} => \A u \in Threads \ {t} : Harmless(u)

LEMMA UpAlone ==
  ASSUME InTurn, orderly, NEW t \in Threads, NEW e \in Left(t), e \in UpSteps,
         NEW u \in Threads, u /= t
  PROVE  Harmless(u)
  BY DEF InTurn

(* Who only tries a file does no more afterwards. *)
LEMMA HarmlessStays ==
  ASSUME TodoOK, PlansOK, NEW t \in Threads, todo[t] /= <<>>, Moves(t),
         NEW u \in Threads, Harmless(u)
  PROVE  \/ todo'[u] \in {<<>>, <<"try">>}
         \/ u \in Jobs /\ u /= t /\ Head(todo[t]) \in HookSteps /\ todo'[u] = JobOf(Head(todo[t]))
<1>1. u = t => Head(todo[t]) = "try" /\ Tail(todo[t]) = <<>> /\ todo[t] = <<"try">>
  <2>1. <<"try">> \in Seq(Steps)
    BY OneStep DEF Steps
  <2>2. Len(<<"try">>) = 1
    OBVIOUS
  <2>3. Tail(<<"try">>) \in Seq(Steps) /\ Len(Tail(<<"try">>)) = 0
    BY <2>1, <2>2, HeadTailProperties
  <2>4. Tail(<<"try">>) = <<>>
    BY <2>3, EmptySeq
  <2> QED
    BY <2>4, HarmlessLeft DEF Harmless
<1>2. "try" \notin HookSteps /\ "try" \notin UpSteps
  BY DEF HookSteps, UpSteps
<1>3. ASSUME NEW j \in Jobs, Forks(t, j)
      PROVE  \/ todo'[u] \in {<<>>, <<"try">>}
             \/ u \in Jobs /\ u /= t /\ Head(todo[t]) \in HookSteps /\ todo'[u] = JobOf(Head(todo[t]))
  BY <1>1, <1>2, <1>3 DEF Forks, Harmless
<1>4. CASE Goes(t, Tail(todo[t])) \/ Goes(t, todo[t])
  BY <1>1, <1>4 DEF Goes, Harmless
<1>5. ASSUME NEW s \in Seq(Steps), Goes(t, s), Head(todo[t]) \in UpSteps
      PROVE  todo'[u] \in {<<>>, <<"try">>}
  BY <1>1, <1>2, <1>5 DEF Goes, Harmless
<1> QED
  BY <1>3, <1>4, <1>5 DEF Moves

LEMMA StepInTurn ==
  ASSUME TodoOK, PlansOK, InTurn, orderly, NEW t \in Threads, todo[t] /= <<>>, Moves(t)
  PROVE  InTurn'
<1>1. ASSUME NEW u \in Threads \ Jobs, Harmless(u) PROVE Harmless(u)'
  BY <1>1, HarmlessStays DEF Harmless
<1>2. ASSUME NEW u \in Threads, Elems(todo'[u]) \cap UpSteps /= {}, NEW v \in Threads, v /= u
      PROVE  Harmless(v)'
  <2>1. PICK e \in Elems(todo'[u]) : e \in UpSteps
    BY <1>2
  <2>2. e \notin Elems(JobOf(Head(todo[t]))) \/ Head(todo[t]) \notin HookSteps
    BY <2>1, WorkPlan, Apart
  <2>3. PICK d \in Left(u) : d \in UpSteps
    <3>1. e \in Left(u) \/ (u = t /\ Head(todo[t]) \in UpSteps)
      BY <2>1, <2>2, Gained
    <3> QED
      BY <2>1, <3>1, HeadIsLeft
  <2>4. Harmless(v)
    BY <1>2, <2>3, UpAlone
  <2>5. ASSUME v \in Jobs, v /= t, Head(todo[t]) \in HookSteps, todo'[v] = JobOf(Head(todo[t]))
        PROVE  Harmless(v)'
    <3>1. u = t
      <4> SUFFICES ASSUME u /= t PROVE FALSE
        OBVIOUS
      <4>1. Harmless(t)
        BY <2>3, UpAlone
      <4> QED
        BY <2>5, <4>1, HarmlessLeft DEF HookSteps
    <3>2. Head(todo[t]) \in UpSteps
      BY <2>3, <3>1, UpThread, HeadIsLeft
    <3> QED
      BY <2>5, <3>2, WorkPlan DEF Harmless
  <2> QED
    BY <2>4, <2>5, HarmlessStays DEF Harmless
<1>3. \A u, v \in Threads \ Jobs : ~Harmless(u) /\ ~Harmless(v) => u = v
  BY DEF InTurn
<1>4. \A u, v \in Threads \ Jobs : ~Harmless(u)' /\ ~Harmless(v)' => u = v
  BY <1>1, <1>3
<1> QED
  BY <1>2, <1>4 DEF InTurn, Left

-----------------------------------------------------------------------------
(* Who comes after whom *)

(* Who goes up finds the others at rest. *)
LEMMA RestOfUs ==
  ASSUME TodoOK, PlansOK, InTurn, orderly,
         NEW t \in Threads, todo[t] /= <<>>, Head(todo[t]) /= "try",
         NEW u \in Threads, u /= t, todo[u] /= <<>>, Head(todo[u]) /= "try"
  PROVE  Head(todo[t]) \notin UpSteps /\ Head(todo[u]) \notin UpSteps
<1>1. ~Harmless(t) /\ ~Harmless(u)
  BY HarmlessLeft
<1> QED
  BY <1>1, HeadIsLeft, UpAlone

(* What comes before the later steps. *)
LEMMA Earlier ==
  ASSUME TodoOK, PlansOK, NEW t \in Threads, todo[t] /= <<>>, Tail(todo[t]) /= <<>>
  PROVE  LET h == Head(todo[t])
             g == Head(Tail(todo[t]))
         IN  /\ g \in {"freeze", "stop"} => h = "kill"
             /\ g = "ip" => h = "wait"
             /\ g = "live" => h = "ip"
             /\ g = "stackFrozen" => h = "checkRunning"
             /\ g = "stackClosed" => h = "stackFrozen"
<1>1. todo[t] \in Seq(Steps) /\ Shape(todo[t])
  BY ShapeOf DEF TodoOK
<1> QED
  BY <1>1, TailShape

-----------------------------------------------------------------------------
(* The snifer *)

(* A loop that captures, or is about to reset active, holds the snifer.     *)
Holding(i) == loop[i] \in {"check", "read", "dropActive"}

(* A thread inside Live is at that step.                                    *)
InLive == {"opening", "starting", "activating"}

CallsInTurn ==
  \A t \in Threads :
    /\ pc[t] \in InLive => conf.snifers /\ todo[t] /= <<>> /\ Head(todo[t]) = "live"
    /\ pc[t] \in {"starting", "activating"} => mine[t] \in S!Sessions

(* One session at most holds the snifer; it shows in active, except while   *)
(* its own Live has yet to set the flag; and a Live on its way to a session *)
(* has found none.                                                          *)
Held ==
  /\ \A i, j \in S!Sessions : Holding(i) /\ Holding(j) => i = j
  /\ \A i \in S!Sessions : Holding(i) => active = 1 \/ \E t \in Threads : pc[t] = "activating"
  /\ \A t \in Threads : pc[t] \in {"opening", "starting"} => \A i \in S!Sessions : ~Holding(i)

(* No session has begun before the one before it had reset the flags.       *)
Resetting == \E i \in S!Sessions : loop[i] = "dropKilled"
NotOvertaken ==
  Resetting => /\ \A i \in S!Sessions : ~S!Capturing(i)
               /\ \A t \in Threads : pc[t] \notin {"opening", "starting"}

Asked == \A i \in S!Sessions : S!Capturing(i) => killed = 1

(* It captures for nobody who has no snifers.  Whoever is about to freeze   *)
(* or stop the container has asked it to end, and it starts when the        *)
(* address of the container was found.                                      *)
SniferOK ==
  /\ CallsInTurn
  /\ ~conf.snifers => \A i \in S!Sessions : ~S!Capturing(i)
  /\ orderly =>
       /\ Held
       /\ \A t \in Threads : todo[t] /= <<>> /\ Head(todo[t]) \in {"ip", "live"}
                             => container = "RUNNING"
       /\ ~overtaken =>
            /\ NotOvertaken
            /\ container /= "RUNNING" => Asked
            /\ \A t \in Threads : todo[t] /= <<>> /\ Head(todo[t]) \in {"freeze", "stop"} => Asked

(* Who is inside Live is so alone. *)
LEMMA LiveAlone ==
  ASSUME TodoOK, InTurn, orderly, CallsInTurn,
         NEW t \in Threads, todo[t] /= <<>>, Head(todo[t]) = "live", NEW u \in Threads, u /= t
  PROVE  Harmless(u) /\ pc[u] \notin InLive
<1>1. Harmless(u)
  BY HeadIsLeft, UpAlone DEF UpSteps
<1> QED
  BY <1>1, HarmlessLeft DEF CallsInTurn

(* The calls of other threads wait meanwhile. *)
LEMMA CallsStay ==
  ASSUME TypeOK, PlansOK, CallsInTurn, NEW t \in Threads, todo[t] /= <<>>, Moves(t), Effects(t)
  PROVE  CallsInTurn'
<1> DEFINE h == Head(todo[t])
<1>0. TodoOK /\ S!TypeOK /\ SniferEffect(t)
  BY TypeIsTodoAndData DEF TypeOK, Effects
<1>1. pc \in [Threads -> {"idle", "opening", "starting", "activating", "killing"}]
      /\ mine \in [Threads -> 0 .. opened]
  BY <1>0 DEF S!TypeOK
<1>2. ASSUME NEW u \in Threads, u /= t PROVE pc'[u] = pc[u] /\ mine'[u] = mine[u]
  <2>1. SniferCall(t) \/ snifer' = snifer
    BY <1>0 DEF SniferEffect, LivesOn, SniferCall
  <2> HIDE DEF Threads
  <2>2. CASE SniferCall(t)
    BY <1>1, <1>2, <2>2
    DEF SniferCall, S!Live, S!Open, S!OpenFails, S!Go, S!Activate, S!Kill, S!Killed, S!Goto
  <2>3. CASE snifer' = snifer
    BY <2>3 DEF snifer
  <2> QED
    BY <2>1, <2>2, <2>3
<1>c. conf' = conf
  BY DEF Effects
<1> SUFFICES ASSUME NEW u \in Threads
             PROVE  /\ pc'[u] \in InLive => conf.snifers /\ todo'[u] /= <<>> /\ Head(todo'[u]) = "live"
                    /\ pc'[u] \in {"starting", "activating"} => mine'[u] \in S!Sessions
  BY <1>c DEF CallsInTurn, S!Sessions
<1>3. CASE u /= t
  <2>1. pc'[u] = pc[u] /\ mine'[u] = mine[u]
    BY <1>2, <1>3
  <2>2. pc[u] \in InLive => todo'[u] = todo[u]
    <3> SUFFICES ASSUME todo[u] /= <<>> PROVE todo'[u] = todo[u]
      BY DEF CallsInTurn
    <3> QED
      BY <1>3 DEF Moves, Goes, Forks
  <2> QED
    BY <2>1, <2>2 DEF CallsInTurn
<1>4. CASE u = t /\ h = "live" /\ LivesOn(t)
  <2>1. pc'[t] /= "idle" => todo'[t] = todo[t]
    BY <1>4 DEF LivesOn, Lasts, Goes
  <2>2. pc'[t] \in {"starting", "activating"} => mine'[t] \in S!Sessions
    <3> HIDE DEF Threads
    <3>1. CASE S!Live(t) \/ S!OpenFails(t) \/ S!Activate(t)
      BY <1>1, <3>1 DEF S!Live, S!OpenFails, S!Activate, S!Goto
    <3>2. CASE S!Open(t)
      <4>1. mine'[t] = opened + 1 /\ opened + 1 \in 1 .. MaxSessions
        BY <1>0, <1>1, <3>2, LxAssumption DEF S!Open, S!TypeOK
      <4> QED
        BY <4>1 DEF S!Sessions
    <3>3. CASE S!Go(t)
      BY <3>3 DEF S!Go, CallsInTurn
    <3> QED
      BY <1>4, <3>1, <3>2, <3>3 DEF LivesOn
  <2> QED
    BY <1>4, <2>1, <2>2 DEF LivesOn, InLive
<1>5. CASE u = t /\ ~(h = "live" /\ LivesOn(t))
  <2>1. pc[t] \notin InLive
    <3>1. CASE h = "live"
      BY <1>0, <1>5, <3>1 DEF SniferEffect, CallsInTurn
    <3>2. CASE h /= "live"
      BY <3>2 DEF CallsInTurn
    <3> QED
      BY <3>1, <3>2
  <2>2. pc'[t] = pc[t] \/ pc'[t] \in {"killing", "idle"}
    <3> HIDE DEF Threads
    <3>1. snifer' = snifer \/ S!Kill(t, FALSE) \/ S!Kill(t, TRUE) \/ S!Killed(t)
      BY <1>0, <1>5 DEF SniferEffect
    <3> QED
      BY <1>1, <3>1 DEF S!Kill, S!Killed, S!Goto, snifer
  <2> QED
    BY <1>5, <2>1, <2>2 DEF InLive
<1> QED
  BY <1>3, <1>4, <1>5

(* Live comes to hold it only when nobody does. *)
LEMMA LiveHolds ==
  ASSUME TypeOK, InTurn, orderly, CallsInTurn, Held,
         NEW t \in Threads, todo[t] /= <<>>, Head(todo[t]) = "live", LivesOn(t)
  PROVE  Held'
<1>0. TodoOK /\ S!TypeOK
  BY TypeIsTodoAndData DEF TypeOK
<1>1. /\ pc \in [Threads -> {"idle", "opening", "starting", "activating", "killing"}]
      /\ loop \in [S!Sessions -> {"none", "check", "read", "dropActive", "dropKilled", "tail",
                                  "tailKill", "gone"}]
  BY <1>0 DEF S!TypeOK
<1>2. \A u \in Threads : u /= t => pc[u] \notin InLive
  BY <1>0, LiveAlone
<1> HIDE DEF Threads
<1> USE DEF S!Goto, Holding, InLive, S!Sessions
<1>3. CASE S!Live(t)
  <2>1. pc[t] = "idle" /\ loop' = loop /\ active' = active
    BY <1>3 DEF S!Live
  <2>2. CASE S!IsActive
    BY <1>1, <1>3, <2>1, <2>2 DEF S!Live, Held
  <2>3. CASE ~S!IsActive
    <3>1. \A i \in S!Sessions : ~Holding(i)
      BY <1>2, <2>1, <2>3 DEF Held, S!IsActive
    <3> QED
      BY <1>1, <2>1, <3>1 DEF Held
  <2> QED
    BY <2>2, <2>3
<1>4. CASE S!Open(t) \/ S!OpenFails(t)
  <2>1. pc[t] = "opening" /\ loop' = loop /\ active' = active
    BY <1>4 DEF S!Open, S!OpenFails
  <2>2. \A i \in S!Sessions : ~Holding(i)
    BY <2>1 DEF Held
  <2> QED
    BY <1>1, <2>1, <2>2 DEF Held
<1>5. CASE S!Go(t)
  <2>1. /\ pc[t] = "starting" /\ active' = active
        /\ pc' = [pc EXCEPT ![t] = "activating"]
        /\ loop' = [loop EXCEPT ![mine[t]] = "check"]
    BY <1>5 DEF S!Go
  <2>2. mine[t] \in S!Sessions /\ pc'[t] = "activating"
    BY <1>1, <2>1 DEF CallsInTurn
  <2>3. \A i \in S!Sessions : i /= mine[t] => ~Holding(i)'
    BY <1>1, <2>1 DEF Held
  <2>4. \A u \in Threads : pc'[u] \notin {"opening", "starting"}
    BY <1>1, <1>2, <2>1
  <2> QED
    BY <2>2, <2>3, <2>4 DEF Held
<1>6. CASE S!Activate(t)
  BY <1>1, <1>6 DEF S!Activate, S!Activated, Held
<1> QED
  BY <1>3, <1>4, <1>5, <1>6 DEF LivesOn

LEMMA KillHolds ==
  ASSUME S!TypeOK, Held, NEW t \in Threads,
         S!Kill(t, FALSE) \/ S!Kill(t, TRUE) \/ S!Killed(t)
  PROVE  Held'
<1> HIDE DEF Threads
<1>1. /\ pc[t] \in {"idle", "killing"} /\ loop' = loop /\ active' = active
      /\ \E l \in {"idle", "killing"} : pc' = [pc EXCEPT ![t] = l]
  BY DEF S!Kill, S!Killed, S!Goto
<1>2. pc \in [Threads -> {"idle", "opening", "starting", "activating", "killing"}]
  BY DEF S!TypeOK
<1>3. \A u \in Threads : pc'[u] = pc[u] \/ {pc[u], pc'[u]} \subseteq {"idle", "killing"}
  BY <1>1, <1>2
<1> QED
  BY <1>1, <1>3 DEF Held, Holding, S!Sessions

LEMMA LoopCaptures ==
  ASSUME S!TypeOK, NEW i \in S!Sessions, S!LoopStep(i), NEW j \in S!Sessions, S!Capturing(j)'
  PROVE  S!Capturing(j)
<1>1. /\ loop \in [S!Sessions -> {"none", "check", "read", "dropActive", "dropKilled", "tail",
                                  "tailKill", "gone"}]
  BY DEF S!TypeOK
<1> QED
  BY <1>1 DEF S!LoopStep, S!Check, S!NextPacket, S!Panics, S!EOF, S!AfterEOF, S!DropActive,
              S!DropKilled, S!Tail, S!TailKill, S!LoopTo, S!At, S!Capturing

LEMMA LoopHolds ==
  ASSUME S!TypeOK, Held, NEW i \in S!Sessions, S!LoopStep(i)
  PROVE  /\ Held'
         /\ NotOvertaken => NotOvertaken'
         /\ NotOvertaken /\ Asked => Asked'
<1>1. /\ loop \in [S!Sessions -> {"none", "check", "read", "dropActive", "dropKilled", "tail",
                                  "tailKill", "gone"}]
      /\ pc' = pc /\ killed \in {0, 1}
  BY DEF S!TypeOK, S!LoopStep, S!Check, S!NextPacket, S!Panics, S!EOF, S!DropActive,
         S!DropKilled, S!Tail, S!TailKill
<1> HIDE DEF Threads
<1> USE DEF S!LoopTo, S!At, Holding, S!Capturing, NotOvertaken, Resetting, Asked
<1>2. CASE S!Check(i) \/ S!NextPacket(i) \/ S!Panics(i) \/ S!EOF(i)
  <2>1. /\ loop[i] \in {"check", "read"} /\ active' = active /\ killed' = killed
        /\ \E l \in {"check", "read", "dropActive", "gone"} : loop' = [loop EXCEPT ![i] = l]
    BY <1>2 DEF S!Check, S!NextPacket, S!Panics, S!EOF, S!AfterEOF
  <2>2. /\ \A j \in S!Sessions : j /= i => loop'[j] = loop[j]
        /\ loop'[i] \in {"check", "read", "dropActive", "gone"}
    BY <1>1, <2>1
  <2>3. Held'
    BY <1>1, <2>1, <2>2 DEF Held, S!Sessions
  <2> QED
    BY <1>1, <2>1, <2>2, <2>3 DEF S!Sessions
<1>3. CASE S!DropActive(i)
  <2>1. /\ loop[i] = "dropActive" /\ killed' = killed /\ loop'[i] = "dropKilled"
        /\ \A j \in S!Sessions : j /= i => loop'[j] = loop[j]
    BY <1>1, <1>3 DEF S!DropActive
  <2>2. \A j \in S!Sessions : ~Holding(j)'
    BY <2>1 DEF Held
  <2>3. \A t \in Threads : pc[t] \notin {"opening", "starting"}
    BY <2>1 DEF Held
  <2> QED
    BY <1>1, <2>1, <2>2, <2>3 DEF Held, S!Sessions
<1>4. CASE S!DropKilled(i) \/ S!Tail(i) \/ S!TailKill(i)
  <2>1. /\ loop[i] \in {"dropKilled", "tail", "tailKill"} /\ active' = active
        /\ loop'[i] \in {"tail", "tailKill", "gone"}
        /\ \A j \in S!Sessions : j /= i => loop'[j] = loop[j]
        /\ killed' \in {killed, 1} \/ loop[i] = "dropKilled"
    BY <1>1, <1>4 DEF S!DropKilled, S!Tail, S!TailKill
  <2>2. Held'
    BY <1>1, <2>1 DEF Held, S!Sessions
  <2> QED
    BY <1>1, <2>1, <2>2 DEF S!Sessions
<1> QED
  BY <1>2, <1>3, <1>4 DEF S!LoopStep

(* Kill asks; and nothing but Live makes a loop capture. *)
LEMMA KillAsks ==
  ASSUME NEW t \in Threads, S!TypeOK,
         snifer' = snifer \/ S!Kill(t, FALSE) \/ S!Kill(t, TRUE) \/ S!Killed(t)
  PROVE  /\ loop' = loop
         /\ Asked => Asked'
         /\ \A u \in Threads : pc'[u] \in {"opening", "starting"} => pc[u] = pc'[u]
<1> HIDE DEF Threads
<1>1. loop' = loop /\ killed' \in {killed, 1}
  BY DEF S!Kill, S!Killed, snifer
<1>2. pc \in [Threads -> {"idle", "opening", "starting", "activating", "killing"}]
  BY DEF S!TypeOK
<1>3. \A u \in Threads : pc'[u] \in {"opening", "starting"} => pc[u] = pc'[u]
  BY <1>2 DEF S!Kill, S!Killed, S!Goto, snifer
<1> QED
  BY <1>1, <1>3 DEF Asked, S!Capturing, S!Sessions

(* A session that Live begins while an earlier one has yet to reset the     *)
(* flags is overtaken.                                                      *)
LEMMA LiveOvertakes ==
  ASSUME TypeOK, CallsInTurn, NotOvertaken, NEW t \in Threads, Head(todo[t]) = "live",
         LivesOn(t), SniferEffect(t), ~overtaken'
  PROVE  NotOvertaken'
<1>0. /\ pc \in [Threads -> {"idle", "opening", "starting", "activating", "killing"}]
      /\ loop \in [S!Sessions -> {"none", "check", "read", "dropActive", "dropKilled", "tail",
                                  "tailKill", "gone"}]
  BY DEF TypeOK, S!TypeOK
<1>1. pc'[t] = "opening" => ~Resetting
  BY DEF SniferEffect, Resetting
<1> HIDE DEF Threads
<1> USE DEF S!Goto, Resetting, S!Capturing, S!Sessions
<1>2. CASE S!Live(t) \/ S!OpenFails(t) \/ S!Activate(t)
  <2>1. /\ loop' = loop
        /\ \A u \in Threads : u /= t => pc'[u] = pc[u]
        /\ pc'[t] \in {"idle", "opening"}
    BY <1>0, <1>2 DEF S!Live, S!OpenFails, S!Activate
  <2> QED
    BY <1>1, <2>1 DEF NotOvertaken
<1>3. CASE S!Open(t)
  <2>1. loop' = loop /\ pc[t] = "opening"
    BY <1>3 DEF S!Open
  <2> QED
    BY <2>1 DEF NotOvertaken
<1>4. CASE S!Go(t)
  <2>1. loop' = [loop EXCEPT ![mine[t]] = "check"] /\ pc[t] = "starting"
    BY <1>4 DEF S!Go
  <2> QED
    BY <1>0, <2>1 DEF NotOvertaken
<1> QED
  BY <1>2, <1>3, <1>4 DEF LivesOn

LEMMA StepSnifer ==
  ASSUME TypeOK, PlansOK, InTurn, SniferOK, NEW t \in Threads, todo[t] /= <<>>, Moves(t), Effects(t)
  PROVE  SniferOK'
<1> DEFINE h == Head(todo[t])
<1>0. TodoOK /\ S!TypeOK /\ SniferEffect(t) /\ ContainerEffect(t) /\ CallsInTurn
  BY TypeIsTodoAndData DEF TypeOK, Effects, SniferOK
<1>1. conf' = conf /\ (orderly' => orderly) /\ (~overtaken' => ~overtaken)
  <2>1. overtaken => overtaken'
    <3>1. CASE h = "live"
      BY <1>0, <3>1 DEF SniferEffect
    <3>2. CASE h /= "live"
      BY <1>0, <3>2 DEF SniferEffect
    <3> QED
      BY <3>1, <3>2
  <2> QED
    BY <2>1 DEF Effects
<1>2. CallsInTurn'
  BY <1>0, CallsStay
<1>3. ~(h = "live" /\ LivesOn(t)) =>
        snifer' = snifer \/ S!Kill(t, FALSE) \/ S!Kill(t, TRUE) \/ S!Killed(t)
  BY <1>0 DEF SniferEffect
<1>4. ~conf'.snifers => \A i \in S!Sessions : ~S!Capturing(i)'
  <2> SUFFICES ASSUME ~conf.snifers PROVE \A i \in S!Sessions : ~S!Capturing(i)'
    BY <1>1
  <2>1. loop' = loop
    BY <1>0, <1>3, KillAsks DEF LivesOn
  <2> QED
    BY <2>1 DEF SniferOK, S!Capturing
<1>5. ASSUME orderly' PROVE Held'
  <2>1. Held /\ orderly
    BY <1>1, <1>5 DEF SniferOK
  <2>2. CASE snifer' = snifer
    BY <2>1, <2>2 DEF Held, Holding, snifer, S!Sessions
  <2> QED
    BY <1>0, <1>3, <2>1, <2>2, LiveHolds, KillHolds
<1>6. ASSUME orderly', NEW u \in Threads, todo'[u] /= <<>>, Head(todo'[u]) \in {"ip", "live"}
      PROVE  container' = "RUNNING"
  <2>1. Head(todo'[u]) \in Later /\ Head(todo'[u]) \in UpSteps
    BY <1>6 DEF Later, UpSteps
  <2>2. CASE u = t
    <3>1. \/ todo'[t] = Tail(todo[t])
          \/ h = "live" /\ todo'[t] = todo[t]
      BY <1>0, <1>6, <2>1, <2>2, Fronts
    <3>2. h \in {"wait", "ip", "live"}
      BY <1>0, <1>6, <2>2, <3>1, Earlier
    <3>3. container = "RUNNING"
      BY <1>0, <1>1, <1>6, <2>2, <3>2 DEF SniferOK, ContainerEffect
    <3> QED
      BY <1>0, <3>2, <3>3 DEF ContainerEffect
  <2>3. CASE u /= t
    <3>1. todo'[u] = todo[u]
      BY <1>0, <1>6, <2>1, <2>3, Fronts
    <3>2. container = "RUNNING"
      BY <1>1, <1>6, <3>1 DEF SniferOK
    <3>3. h = "try"
      BY <1>0, <1>1, <1>6, <2>1, <2>3, <3>1, RestOfUs
    <3> QED
      BY <1>0, <3>2, <3>3 DEF ContainerEffect
  <2> QED
    BY <2>2, <2>3
<1>7. ASSUME orderly', ~overtaken' PROVE NotOvertaken'
  <2>1. NotOvertaken
    BY <1>1, <1>7 DEF SniferOK
  <2>2. CASE h = "live" /\ LivesOn(t)
    BY <1>0, <1>7, <2>1, <2>2, LiveOvertakes
  <2>3. CASE ~(h = "live" /\ LivesOn(t))
    BY <1>0, <1>3, <2>1, <2>3, KillAsks DEF NotOvertaken, Resetting, S!Capturing, S!Sessions
  <2> QED
    BY <2>2, <2>3
<1>8. ASSUME Asked, h /= "live" PROVE Asked'
  BY <1>0, <1>3, <1>8, KillAsks
<1>9. ASSUME orderly', ~overtaken', container' /= "RUNNING" PROVE Asked'
  <2>1. h /= "live"
    BY <1>0, <1>1, <1>9 DEF SniferOK, ContainerEffect
  <2>2. container /= "RUNNING" \/ h \in {"freeze", "stop"}
    BY <1>0, <1>9 DEF ContainerEffect
  <2>3. Asked
    BY <1>1, <1>9, <2>2 DEF SniferOK
  <2> QED
    BY <1>8, <2>1, <2>3
<1>10. ASSUME orderly', ~overtaken', NEW u \in Threads, todo'[u] /= <<>>,
              Head(todo'[u]) \in {"freeze", "stop"}
       PROVE  Asked'
  <2>1. Head(todo'[u]) \in Later
    BY <1>10 DEF Later
  <2>2. CASE u = t
    <3>1. todo'[t] = Tail(todo[t])
      BY <1>0, <1>10, <2>1, <2>2, Fronts
    <3>2. h = "kill"
      BY <1>0, <1>10, <2>2, <3>1, Earlier
    <3>3. pc'[t] = "idle"
      <4> SUFFICES ASSUME pc'[t] /= "idle" PROVE FALSE
        OBVIOUS
      <4>1. todo'[t] = todo[t]
        BY <1>0, <3>2 DEF SniferEffect, Lasts, Goes
      <4> QED
        BY <1>10, <2>2, <3>2, <4>1
    <3>4. CASE S!Kill(t, FALSE)
      <4>1. active /= 1 /\ loop' = loop
        <5> HIDE DEF Threads
        <5> QED
          BY <1>0, <3>3, <3>4 DEF S!Kill, S!Goto, S!IsActive, S!TypeOK
      <4>2. \A v \in Threads : pc[v] /= "activating"
        <5> SUFFICES ASSUME NEW v \in Threads, pc[v] = "activating" PROVE FALSE
          OBVIOUS
        <5>1. todo[v] /= <<>> /\ Head(todo[v]) = "live"
          BY <1>0 DEF CallsInTurn, InLive
        <5> QED
          BY <1>0, <1>1, <1>10, <3>2, <5>1, RestOfUs DEF UpSteps
      <4>3. \A i \in S!Sessions : ~Holding(i)
        BY <1>1, <1>10, <4>1, <4>2 DEF SniferOK, Held
      <4> QED
        BY <4>1, <4>3 DEF Asked, S!Capturing, Holding, S!Sessions
    <3>5. CASE S!Killed(t)
      BY <3>5 DEF S!Killed, Asked
    <3>6. CASE ~conf.snifers
      BY <1>1, <1>4, <3>6 DEF Asked, S!Sessions
    <3> QED
      BY <1>0, <3>2, <3>4, <3>5, <3>6 DEF SniferEffect
  <2>3. CASE u /= t
    <3>1. todo'[u] = todo[u]
      BY <1>0, <1>10, <2>1, <2>3, Fronts
    <3>2. Asked
      BY <1>1, <1>10, <3>1 DEF SniferOK
    <3>3. h /= "live"
      BY <1>0, <1>1, <1>10, <2>3, <3>1, RestOfUs DEF UpSteps
    <3> QED
      BY <1>8, <3>2, <3>3
  <2> QED
    BY <2>2, <2>3
<1> QED
  BY <1>2, <1>4, <1>5, <1>6, <1>7, <1>9, <1>10 DEF SniferOK, S!Sessions

LEMMA CaptureSnifer ==
  ASSUME TypeOK, SniferOK, NEW i \in S!Sessions, Capture(i)
  PROVE  SniferOK'
<1>1. S!TypeOK /\ S!LoopStep(i)
  BY DEF TypeOK, Capture
<1>2. UNCHANGED <<conf, container, todo, orderly, overtaken>>
  BY DEF Capture, history
<1>3. pc' = pc /\ mine' = mine
  BY <1>1 DEF S!LoopStep, S!Check, S!NextPacket, S!Panics, S!EOF, S!DropActive,
              S!DropKilled, S!Tail, S!TailKill
<1>4. CallsInTurn'
  BY <1>2, <1>3 DEF SniferOK, CallsInTurn, S!Sessions
<1>5. ~conf.snifers => \A j \in S!Sessions : ~S!Capturing(j)'
  BY <1>1, LoopCaptures DEF SniferOK
<1> QED
  BY <1>1, <1>2, <1>4, <1>5, LoopHolds DEF SniferOK, S!Sessions

-----------------------------------------------------------------------------
(* The dump *)

(* Somebody will tell the dump of the container's end, if it listens; and   *)
(* will then close the stream, if that has not been done.                   *)
Ending == "closed" \notin stacked \/ \E t \in Threads : "emitClosed" \in Left(t)
Shutting == "closed" \notin open \/ \E t \in Threads : "closeClosed" \in Left(t)

(* While operations follow each other nobody stops a container without an   *)
(* end of the dump, which is stacked in a running one only, and not between *)
(* the emit on closed and its close, and hears of one end after the         *)
(* container was frozen.                                                    *)
DumpOwes ==
  /\ "closed" \in stacked => "closed" \in open
  /\ \A t \in Threads : "closeClosed" \in Left(t) /\ "emitClosed" \notin Left(t)
                        => "closed" \notin stacked
  /\ "frozen" \notin open => Ending /\ Shutting
  /\ \A t \in Threads : Left(t) \cap {"stop", "stopping"} /= {} => Ending
  /\ \A t \in Threads : todo[t] /= <<>> /\ Head(todo[t]) \in {"stackFrozen", "stackClosed"}
                        => container = "RUNNING"
  /\ stacked = {"frozen", "closed"} /\ container /= "RUNNING" =>
       \E t \in Threads : Left(t) \cap {"emitFrozen", "emitClosed"} /= {}

DumpOK == orderly => DumpOwes

LEMMA ShuttingStays ==
  ASSUME TodoOK, PlansOK, NEW t \in Threads, todo[t] /= <<>>, Moves(t), DumpEffect(t), Shutting
  PROVE  Shutting'
<1>1. CASE "closed" \notin open'
  BY <1>1 DEF Shutting
<1>2. CASE "closed" \in open'
  <2>1. "closed" \in open /\ Head(todo[t]) /= "closeClosed"
    BY <1>2 DEF DumpEffect
  <2>2. PICK u \in Threads : "closeClosed" \in Left(u)
    BY <2>1 DEF Shutting
  <2>3. "closeClosed" \in Elems(todo'[u])
    BY <2>1, <2>2, Lost DEF UpSteps
  <2> QED
    BY <2>3 DEF Shutting, Left
<1> QED
  BY <1>1, <1>2

(* Whoever stacks the dump on closed does so alone, when no thread has to   *)
(* tell or to close that stream.                                            *)
LEMMA StackAlone ==
  ASSUME TodoOK, PlansOK, InTurn, orderly, NEW t \in Threads, todo[t] /= <<>>,
         Head(todo[t]) = "stackClosed", NEW u \in Threads
  PROVE  Left(u) \subseteq UpSteps \cup {"try"}
<1>1. Head(todo[t]) \in Left(t) /\ Head(todo[t]) \in UpSteps
  BY HeadIsLeft DEF UpSteps
<1>2. CASE u = t
  BY <1>1, <1>2, UpThread
<1>3. CASE u /= t
  BY <1>1, <1>3, UpAlone, HarmlessLeft
<1> QED
  BY <1>2, <1>3

LEMMA EndingStays ==
  ASSUME TodoOK, PlansOK, NEW t \in Threads, todo[t] /= <<>>, Moves(t), DumpEffect(t), Ending,
         "closed" \in stacked => "closed" \in open,
         "closed" \in stacked' => "closed" \in stacked
  PROVE  Ending'
<1>1. CASE "closed" \notin stacked'
  BY <1>1 DEF Ending
<1>2. CASE "closed" \in stacked'
  <2>1. "closed" \in stacked /\ Head(todo[t]) /= "emitClosed"
    BY <1>2 DEF DumpEffect
  <2>2. PICK u \in Threads : "emitClosed" \in Left(u)
    BY <2>1 DEF Ending
  <2>3. "emitClosed" \in Elems(todo'[u])
    BY <2>1, <2>2, Lost DEF UpSteps
  <2> QED
    BY <2>3 DEF Ending, Left
<1> QED
  BY <1>1, <1>2

LEMMA StepDump ==
  ASSUME TypeOK, PlansOK, InTurn, DumpOK, NEW t \in Threads, todo[t] /= <<>>, Moves(t), Effects(t)
  PROVE  DumpOK'
<1> DEFINE h == Head(todo[t])
<1> SUFFICES ASSUME orderly' PROVE DumpOwes'
  BY DEF DumpOK
<1>0. /\ TodoOK /\ DumpEffect(t) /\ orderly /\ DumpOwes
      /\ open \subseteq {"frozen", "closed"} /\ stacked \subseteq {"frozen", "closed"}
  BY TypeIsTodoAndData DEF TypeOK, Effects, DumpOK
(* The stream is closed after the dump was told, *)
<1>1. "closed" \in stacked' => "closed" \in open'
  <2>1. CASE h = "closeClosed"
    <3>1. Left(t) = {"closeClosed"}
      <4>1. todo[t] \in Seq(Steps) /\ Shape(todo[t])
        BY <1>0, ShapeOf DEF TodoOK
      <4>2. Elems(Tail(todo[t])) = {}
        BY <2>1, <4>1, TailShape, EmptyShape DEF Final
      <4> QED
        BY <1>0, <2>1, <4>2, TailLeft
    <3>2. "closed" \notin stacked
      BY <1>0, <3>1 DEF DumpOwes
    <3> QED
      BY <1>0, <2>1, <3>2 DEF DumpEffect
  <2>2. CASE h /= "closeClosed"
    BY <1>0, <2>2 DEF DumpOwes, DumpEffect
  <2> QED
    BY <2>1, <2>2
(* ... and the dump listens to closed anew only when it is open for good. *)
<1>2. "closed" \in stacked' /\ "closed" \notin stacked =>
        /\ h = "stackClosed" /\ "closed" \in open
        /\ \A u \in Threads : Left(u) \subseteq UpSteps \cup {"try"}
        /\ "frozen" \in open'
  <2> SUFFICES ASSUME "closed" \in stacked', "closed" \notin stacked
               PROVE  /\ h = "stackClosed" /\ "closed" \in open
                      /\ \A u \in Threads : Left(u) \subseteq UpSteps \cup {"try"}
                      /\ "frozen" \in open'
    OBVIOUS
  <2>1. h = "stackClosed" /\ "closed" \in open
    BY <1>0 DEF DumpEffect
  <2>2. \A u \in Threads : Left(u) \subseteq UpSteps \cup {"try"}
    BY <1>0, <2>1, StackAlone
  <2>3. ~Shutting
    BY <2>1, <2>2 DEF Shutting, UpSteps
  <2>4. "frozen" \in open'
    BY <1>0, <2>1, <2>3 DEF DumpOwes, DumpEffect
  <2> QED
    BY <2>1, <2>2, <2>4
<1>3. ("closed" \in stacked' => "closed" \in stacked) /\ Ending => Ending'
  BY <1>0, EndingStays DEF DumpOwes
<1>4. "frozen" \notin open' => Ending' /\ Shutting'
  <2> SUFFICES ASSUME "frozen" \notin open' PROVE Ending' /\ Shutting'
    OBVIOUS
  <2>1. Ending /\ Shutting
    <3>1. CASE h = "closeFrozen"
      <4>1. todo[t] \in Seq(Steps) /\ Shape(todo[t])
        BY <1>0, ShapeOf DEF TodoOK
      <4>2. {"emitClosed", "closeClosed"} \subseteq Elems(Tail(todo[t]))
        BY <3>1, <4>1, TailShape
      <4>3. {"emitClosed", "closeClosed"} \subseteq Left(t)
        BY <1>0, <4>2, TailLeft
      <4> QED
        BY <4>3 DEF Ending, Shutting
    <3>2. CASE h /= "closeFrozen"
      BY <1>0, <3>2 DEF DumpOwes, DumpEffect
    <3> QED
      BY <3>1, <3>2
  <2> QED
    BY <1>0, <1>2, <1>3, <2>1, ShuttingStays
<1>5. ASSUME NEW u \in Threads, NEW e \in Elems(todo'[u]), e \in {"stop", "stopping"} PROVE Ending'
  <2>1. e \notin UpSteps
    BY <1>5 DEF UpSteps
  <2>2. Ending /\ \E v \in Threads : Left(v) \cap {"stop", "stopping"} /= {}
    <3>1. CASE e \in Left(u)
      BY <1>0, <1>5, <3>1 DEF DumpOwes
    <3>2. CASE h \in HookSteps /\ e \in Elems(JobOf(h))
      <4>1. h = "stopping"
        BY <1>5, <3>2, WorkPlan DEF JobSteps
      <4>2. h \in Left(t)
        BY <1>0, HeadIsLeft
      <4> QED
        BY <1>0, <4>1, <4>2 DEF DumpOwes
    <3> QED
      BY <1>0, <2>1, <3>1, <3>2, Gained
  <2>3. "closed" \in stacked' => "closed" \in stacked
    BY <1>2, <2>2 DEF UpSteps
  <2> QED
    BY <1>3, <2>2, <2>3
<1>6. ASSUME NEW u \in Threads, "closeClosed" \in Elems(todo'[u]), "emitClosed" \notin Elems(todo'[u])
      PROVE  "closed" \notin stacked'
  <2>0. "closeClosed" \notin UpSteps /\ "emitClosed" \notin UpSteps
    BY DEF UpSteps
  <2>1. "closeClosed" \in Left(u)
    <3>1. h \in HookSteps => todo'[u] /= JobOf(h)
      BY <1>6, WorkPlan
    <3> QED
      BY <1>0, <1>6, <2>0, <3>1, Gained
  <2>2. "closed" \in stacked' => "closed" \in stacked
    BY <1>2, <2>1 DEF UpSteps
  <2>3. CASE "emitClosed" \notin Left(u)
    BY <1>0, <2>1, <2>2, <2>3 DEF DumpOwes
  <2>4. CASE "emitClosed" \in Left(u)
    <3>1. h = "emitClosed"
      BY <1>0, <1>6, <2>0, <2>4, Lost
    <3> QED
      BY <1>0, <3>1 DEF DumpOwes, DumpEffect
  <2> QED
    BY <2>3, <2>4
<1>7. ASSUME NEW u \in Threads, todo'[u] /= <<>>,
             Head(todo'[u]) \in {"stackFrozen", "stackClosed"}
      PROVE  container' = "RUNNING"
  <2>1. Head(todo'[u]) \in Later /\ Head(todo'[u]) \in UpSteps
    BY <1>7 DEF Later, UpSteps
  <2>2. CASE u = t
    <3>1. todo'[t] = Tail(todo[t])
      BY <1>0, <1>7, <2>1, <2>2, Fronts
    <3>2. h \in {"checkRunning", "stackFrozen"}
      BY <1>0, <1>7, <2>2, <3>1, Earlier
    <3>3. container = "RUNNING"
      BY <1>0, <1>7, <2>2, <3>2 DEF DumpOwes, Effects, ContainerEffect
    <3> QED
      BY <3>2, <3>3 DEF Effects, ContainerEffect
  <2>3. CASE u /= t
    <3>1. todo'[u] = todo[u]
      BY <1>0, <1>7, <2>1, <2>3, Fronts
    <3>2. container = "RUNNING"
      BY <1>0, <1>7, <3>1 DEF DumpOwes
    <3>3. h = "try"
      BY <1>0, <1>7, <2>1, <2>3, <3>1, RestOfUs
    <3> QED
      BY <3>2, <3>3 DEF Effects, ContainerEffect
  <2> QED
    BY <2>2, <2>3
<1>8. ASSUME stacked' = {"frozen", "closed"}, container' /= "RUNNING"
      PROVE  \E u \in Threads : Elems(todo'[u]) \cap {"emitFrozen", "emitClosed"} /= {}
  <2>1. h \notin {"stackFrozen", "stackClosed"}
    BY <1>0, <1>8 DEF DumpOwes, Effects, ContainerEffect
  <2>2. stacked = {"frozen", "closed"} /\ "closed" \in open
    BY <1>0, <1>8, <2>1 DEF DumpOwes, DumpEffect
  <2>3. h = "emitFrozen" => "frozen" \notin open
    BY <1>0, <1>8, <2>2 DEF DumpEffect
  <2>4. h /= "emitClosed"
    BY <1>0, <1>8, <2>2 DEF DumpEffect
  <2>5. Ending' => \E u \in Threads : "emitClosed" \in Elems(todo'[u])
    BY <1>8 DEF Ending, Left
  <2>6. CASE h \in {"emitFrozen", "stop"}
    <3>1. Ending
      BY <1>0, <2>3, <2>6, HeadIsLeft DEF DumpOwes
    <3> QED
      BY <1>3, <2>2, <2>5, <3>1
  <2>7. CASE h = "freeze"
    <3>1. todo[t] \in Seq(Steps) /\ Shape(todo[t])
      BY <1>0, ShapeOf DEF TodoOK
    <3>2. "emitFrozen" \in Elems(Tail(todo[t]))
      BY <2>7, <3>1, TailShape
    <3>3. "emitFrozen" \in Left(t)
      BY <1>0, <3>2, TailLeft
    <3>4. "emitFrozen" \in Elems(todo'[t])
      BY <1>0, <2>7, <3>3, Lost DEF UpSteps
    <3> QED
      BY <3>4
  <2>8. CASE h \notin {"emitFrozen", "stop", "freeze"}
    <3>1. container /= "RUNNING"
      BY <1>8, <2>8 DEF Effects, ContainerEffect
    <3>2. PICK u \in Threads, e \in {"emitFrozen", "emitClosed"} : e \in Left(u)
      BY <1>0, <1>8, <2>2, <3>1 DEF DumpOwes
    <3>3. e \in Elems(todo'[u])
      BY <1>0, <2>4, <2>8, <3>2, Lost DEF UpSteps
    <3> QED
      BY <3>3
  <2> QED
    BY <2>6, <2>7, <2>8
<1> QED
  BY <1>1, <1>4, <1>5, <1>6, <1>7, <1>8 DEF DumpOwes, Left

-----------------------------------------------------------------------------
(* The timers after a Drop *)

(* The thread will start the stopper.                                       *)
Arms(t) == "addStopper" \in Left(t)

(* A thread that is no job will close the timers. *)
Closing == \E t \in Threads \ Jobs : "closeTimers" \in Left(t)

(* A Drop was the last operation, and it leaves no hook to start the        *)
(* stopper.                                                                 *)
Dropped == last \in Drops /\ (last = "DropFreezed" => "Shutdown" \notin conf.hooks)

(* Only a job of DropFreezed starts the stopper behind its operation's      *)
(* back: nobody else does so meanwhile, and the stopper does not run out    *)
(* before the operation closes it.  After another Drop there is no such     *)
(* job, and once nobody has timers to close none of them counts.            *)
JobArms ==
  \A j \in Jobs : Arms(j) =>
    /\ \A t \in Threads \ {j} : ~Arms(t)
    /\ timer["stopper"] /= "counting" \/ Closing

NoHookAwaits == \A t \in Threads : "freezingAll" \in Left(t) => \A j \in Jobs : ~Arms(j)

DropCloses ==
  Dropped =>
    /\ \A t \in Threads : Left(t) \subseteq DownSteps /\ "freezingAll" \notin Left(t)
    /\ \A j \in Jobs : ~Arms(j)
    /\ \/ Closing
       \/ /\ \A x \in Timers : timer[x] /= "counting"
          /\ \A t \in Threads : ~Arms(t)

StopperOK == orderly /\ conf.freeze /\ ~crashed => JobArms /\ NoHookAwaits /\ DropCloses

(* Where the start of the stopper can come from. *)
LEMMA NewlyArmed ==
  ASSUME TodoOK, PlansOK, NEW t \in Threads, todo[t] /= <<>>, Moves(t)
  PROVE  \/ \A u \in Threads : Arms(u)' => Arms(u)
         \/ /\ Head(todo[t]) = "freezingAll"
            /\ \E j \in Jobs : Forks(t, j)
<1>1. ASSUME Head(todo[t]) /= "freezingAll", NEW u \in Threads, Arms(u)' PROVE Arms(u)
  <2>1. "addStopper" \in Elems(todo'[u]) /\ "addStopper" \notin UpSteps
    BY <1>1 DEF Arms, Left, UpSteps
  <2>2. Head(todo[t]) \in HookSteps => "addStopper" \notin Elems(JobOf(Head(todo[t])))
    BY <1>1, WorkPlan
  <2> QED
    BY <2>1, <2>2, Gained DEF Arms
<1>2. ASSUME \A j \in Jobs : ~Forks(t, j), NEW u \in Threads, Arms(u)' PROVE Arms(u)
  <2>1. Elems(Tail(todo[t])) \subseteq Left(t)
    BY TailLeft
  <2>2. "addStopper" \notin UpSteps
    BY DEF UpSteps
  <2>3. CASE Goes(t, Tail(todo[t])) \/ Goes(t, todo[t])
    BY <1>2, <2>1, <2>3 DEF Goes, Arms, Left
  <2>4. ASSUME NEW s \in Seq(Steps), Goes(t, s), Elems(s) \subseteq UpSteps PROVE Arms(u)
    BY <1>2, <2>2, <2>4 DEF Goes, Arms, Left
  <2> QED
    BY <1>2, <2>3, <2>4 DEF Moves
<1> QED
  BY <1>1, <1>2

(* The one busy thread that is no job, if it has more to do than to start   *)
(* one.                                                                     *)
LEMMA OneBusy ==
  ASSUME InTurn, orderly, NEW t \in Threads, NEW u \in Threads, t \notin Jobs, u \notin Jobs,
         NEW d \in Left(t), d /= "try", NEW e \in Left(u), e /= "try"
  PROVE  t = u
<1>1. ~Harmless(t) /\ ~Harmless(u)
  BY HarmlessLeft
<1> QED
  BY <1>1 DEF InTurn

LEMMA NotOfJobs ==
  ASSUME PlansOK, NEW t \in Threads, NEW e \in Left(t), e \in {"freezingAll", "closeTimers"}
  PROVE  t \notin Jobs
  BY DEF PlansOK, PlanFor, Left, JobSteps

(* After the last steps that concern the stopper nothing starts it. *)
LEMMA LastArming ==
  ASSUME TodoOK, PlansOK, NEW t \in Threads, todo[t] /= <<>>,
         Head(todo[t]) \in Arming \cup {"closeTimers"}
  PROVE  /\ Arming \cap Elems(Tail(todo[t])) = {}
         /\ Head(todo[t]) = "freezingAll" => "closeTimers" \in Elems(Tail(todo[t]))
<1>1. todo[t] \in Seq(Steps) /\ Shape(todo[t])
  BY ShapeOf DEF TodoOK
<1> QED
  BY <1>1, TailShape

LEMMA ClosingStays ==
  ASSUME TodoOK, PlansOK, NEW t \in Threads, todo[t] /= <<>>, Moves(t), Closing,
         Head(todo[t]) /= "closeTimers"
  PROVE  Closing'
<1>1. PICK u \in Threads \ Jobs : "closeTimers" \in Left(u)
  BY DEF Closing
<1>2. "closeTimers" \in Elems(todo'[u])
  BY <1>1, Lost DEF UpSteps
<1> QED
  BY <1>1, <1>2 DEF Closing, Left

(* When the timers have been closed they are. *)
LEMMA Closed ==
  ASSUME TodoOK, PlansOK, InTurn, orderly, conf.freeze, ~crashed',
         NEW t \in Threads, todo[t] /= <<>>,
         Moves(t), TimerEffect(t), Head(todo[t]) = "closeTimers"
  PROVE  /\ \A x \in Timers : timer'[x] /= "counting"
         /\ \A u \in Threads \ Jobs : ~Arms(u)'
<1>1. timer' = [x \in Timers |-> "off"]
  BY DEF TimerEffect
<1>2. t \notin Jobs /\ "closeTimers" \in Left(t)
  BY HeadIsLeft, NotOfJobs
<1>3. ASSUME NEW u \in Threads \ Jobs, Arms(u)' PROVE FALSE
  <2>1. Arms(u)
    BY <1>3, NewlyArmed
  <2>2. u = t
    BY <1>2, <2>1, OneBusy DEF Arms
  <2>3. todo'[t] = Tail(todo[t])
    BY DEF Moves, Goes, Forks, UpSteps, Lasting
  <2>4. "addStopper" \notin Elems(Tail(todo[t]))
    BY LastArming DEF Arming
  <2> QED
    BY <1>3, <2>2, <2>3, <2>4 DEF Arms, Left
<1> QED
  BY <1>1, <1>3

LEMMA StepStopper ==
  ASSUME TypeOK, PlansOK, InTurn, StopperOK,
         NEW t \in Threads, todo[t] /= <<>>, Moves(t), Effects(t)
  PROVE  StopperOK'
<1> DEFINE h == Head(todo[t])
<1> SUFFICES ASSUME orderly', conf'.freeze, ~crashed'
             PROVE  JobArms' /\ NoHookAwaits' /\ DropCloses'
  BY DEF StopperOK
<1>0. /\ TodoOK /\ TimerEffect(t) /\ orderly /\ conf.freeze /\ ~crashed
      /\ conf' = conf /\ last' = last /\ timer \in [Timers -> {"nil", "off", "counting"}]
      /\ JobArms /\ NoHookAwaits /\ DropCloses
  BY TypeIsTodoAndData DEF TypeOK, Effects, StopperOK
<1>1. h \in Left(t)
  BY <1>0, HeadIsLeft
<1>2. h = "freezingAll" => t \notin Jobs /\ \A j \in Jobs : ~Arms(j)
  BY <1>0, <1>1, NotOfJobs DEF NoHookAwaits
<1>3. "closeTimers" /= "try" /\ "addStopper" /= "try" /\ "freezingAll" /= "try"
  OBVIOUS
(* Nobody else starts it when a new job does, *)
<1>4. ASSUME h = "freezingAll", NEW j \in Jobs, Forks(t, j)
      PROVE  /\ \A u \in Threads \ {j} : ~Arms(u)'
             /\ Closing'
  <2>1. /\ "closeTimers" \in Elems(todo'[t]) /\ "addStopper" \notin Elems(todo'[t])
        /\ \A u \in Threads \ {t, j} : todo'[u] = todo[u]
    BY <1>0, <1>4, LastArming DEF Forks, Arming
  <2>2. ASSUME NEW u \in Threads \ {t, j}, Arms(u) PROVE FALSE
    BY <1>0, <1>1, <1>2, <1>3, <1>4, <2>2, OneBusy DEF Arms
  <2> QED
    BY <1>2, <1>4, <2>1, <2>2 DEF Arms, Closing, Left
(* ... or an old one still may. *)
<1>5. ASSUME h /= "freezingAll" \/ (\A j \in Jobs : ~Forks(t, j)), NEW j \in Jobs, Arms(j)'
      PROVE  /\ \A u \in Threads \ {j} : ~Arms(u)'
             /\ timer'["stopper"] /= "counting" \/ Closing'
  <2>1. j \in Threads /\ \A u \in Threads : Arms(u)' => Arms(u)
    BY <1>0, <1>5, NewlyArmed DEF Threads
  <2>2. /\ Arms(j) /\ \A u \in Threads \ {j} : ~Arms(u)
        /\ timer["stopper"] /= "counting" \/ Closing
    BY <1>0, <1>5, <2>1 DEF JobArms
  <2>3. h /= "addStopper"
    <3> SUFFICES ASSUME h = "addStopper" PROVE FALSE
      OBVIOUS
    <3>1. t = j
      BY <1>1, <2>2 DEF Arms
    <3>2. todo'[t] = Tail(todo[t])
      BY DEF Moves, Goes, Forks, UpSteps, Lasting
    <3>3. "addStopper" \notin Elems(Tail(todo[t]))
      BY <1>0, LastArming DEF Arming
    <3> QED
      BY <1>5, <3>1, <3>2, <3>3 DEF Arms, Left
  <2>4. h \notin UpSteps
    <3> SUFFICES ASSUME h \in UpSteps PROVE FALSE
      OBVIOUS
    <3>1. t \notin Jobs
      BY <1>1, UpThread
    <3>2. Harmless(j)
      BY <1>0, <1>1, <2>1, <3>1, UpAlone
    <3> QED
      BY <2>1, <2>2, <3>2, HarmlessLeft DEF Arms
  <2>5. CASE h = "closeTimers"
    BY <1>0, <2>1, <2>2, <2>5, Closed DEF Timers
  <2>6. CASE h /= "closeTimers"
    <3>1. timer' = timer
      BY <1>0, <2>3, <2>4, <2>6 DEF TimerEffect, UpSteps
    <3> QED
      BY <1>0, <2>1, <2>2, <2>6, <3>1, ClosingStays
  <2> QED
    BY <2>1, <2>2, <2>5, <2>6
<1>6. JobArms'
  <2>1. ASSUME h = "freezingAll", NEW k \in Jobs, Forks(t, k), NEW j \in Jobs, Arms(j)'
        PROVE  /\ \A u \in Threads \ {j} : ~Arms(u)'
               /\ timer'["stopper"] /= "counting" \/ Closing'
    <3>1. j = k
      BY <1>4, <2>1 DEF Threads
    <3> QED
      BY <1>4, <2>1, <3>1
  <2> QED
    BY <1>5, <2>1 DEF JobArms
(* A hook is awaited by the thread that has been busy with it. *)
<1>7. NoHookAwaits'
  <2> SUFFICES ASSUME NEW u \in Threads, "freezingAll" \in Left(u)', NEW j \in Jobs, Arms(j)'
               PROVE  FALSE
    BY DEF NoHookAwaits
  <2>1. "freezingAll" \in Elems(todo'[u]) /\ "freezingAll" \notin UpSteps /\ j \in Threads
    BY DEF Left, UpSteps, Threads
  <2>2. h \in HookSteps => "freezingAll" \notin Elems(JobOf(h))
    BY WorkPlan DEF JobSteps
  <2>3. "freezingAll" \in Left(u) /\ u \notin Jobs
    BY <1>0, <2>1, <2>2, Gained, NotOfJobs
  <2>4. ~Arms(j)
    BY <1>0, <2>3 DEF NoHookAwaits
  <2>5. PICK k \in Jobs : h = "freezingAll" /\ Forks(t, k)
    BY <1>0, <2>1, <2>4, NewlyArmed
  <2>6. u = t
    BY <1>0, <1>1, <1>2, <1>3, <2>3, <2>5, OneBusy
  <2>7. "freezingAll" \notin Elems(todo'[t])
    BY <1>0, <2>5, LastArming DEF Forks, Arming
  <2> QED
    BY <2>1, <2>6, <2>7
<1>8. DropCloses'
  <2> SUFFICES ASSUME Dropped
               PROVE  /\ \A u \in Threads : /\ Elems(todo'[u]) \subseteq DownSteps
                                            /\ "freezingAll" \notin Elems(todo'[u])
                      /\ \A j \in Jobs : ~Arms(j)'
                      /\ \/ Closing'
                         \/ /\ \A x \in Timers : timer'[x] /= "counting"
                            /\ \A u \in Threads : ~Arms(u)'
    BY <1>0 DEF DropCloses, Dropped, Left
  <2>1. /\ \A u \in Threads : Left(u) \subseteq DownSteps /\ "freezingAll" \notin Left(u)
        /\ \A j \in Jobs : ~Arms(j)
        /\ \/ Closing
           \/ /\ \A x \in Timers : timer[x] /= "counting"
              /\ \A u \in Threads : ~Arms(u)
    BY <1>0 DEF DropCloses
  <2>2. h \in DownSteps /\ h \notin UpSteps /\ h /= "freezingAll"
    BY <1>1, <2>1, Apart
  <2>3. \A u \in Threads : Arms(u)' => Arms(u)
    BY <1>0, <2>2, NewlyArmed
  <2>4. ASSUME NEW u \in Threads, NEW e \in Elems(todo'[u]) PROVE e \in DownSteps /\ e /= "freezingAll"
    <3>1. h \in HookSteps => Elems(JobOf(h)) \subseteq JobSteps
      BY WorkPlan
    <3>2. e \in Left(u) \/ e \in JobSteps
      BY <1>0, <2>2, <3>1, Gained
    <3>3. "freezingAll" \notin JobSteps
      BY DEF JobSteps
    <3> QED
      BY <2>1, <3>2, <3>3, Apart
  <2>5. \A j \in Jobs : ~Arms(j)'
    BY <2>1, <2>3 DEF Threads
  <2>6. CASE h = "closeTimers"
    BY <1>0, <2>4, <2>5, <2>6, Closed
  <2>7. CASE h /= "closeTimers" /\ Closing
    BY <1>0, <2>4, <2>5, <2>7, ClosingStays
  <2>8. CASE h /= "closeTimers" /\ ~Closing
    <3>1. h /= "addStopper"
      BY <1>1, <2>1, <2>8 DEF Arms
    <3>2. timer' = timer
      BY <1>0, <2>2, <2>8, <3>1 DEF TimerEffect, UpSteps
    <3> QED
      BY <2>1, <2>3, <2>4, <2>5, <2>8, <3>2
  <2> QED
    BY <2>6, <2>7, <2>8
<1> QED
  BY <1>6, <1>7, <1>8

-----------------------------------------------------------------------------
(* How operations start *)

LEMMA OperationPlan ==
  ASSUME NEW op \in Operations
  PROVE  LET s == StepsOf(op) IN
         /\ Plan(s)
         /\ Elems(s) \subseteq DownSteps \/ Elems(s) \subseteq UpSteps
         /\ op \in Drops => Elems(s) \subseteq DownSteps /\ "closeTimers" \in Elems(s)
         /\ "freezingAll" \in Elems(s) => op = "DropFreezed" /\ "Shutdown" \in conf.hooks
         /\ Elems(s) \cap {"stop", "stopping", "closeClosed"} /= {} => "emitClosed" \in Elems(s)
<1> DEFINE Claim(s) == /\ Plan(s)
                       /\ Elems(s) \subseteq DownSteps \/ Elems(s) \subseteq UpSteps
                       /\ op \in Drops => Elems(s) \subseteq DownSteps /\ "closeTimers" \in Elems(s)
                       /\ "freezingAll" \in Elems(s) => /\ op = "DropFreezed"
                                                        /\ "Shutdown" \in conf.hooks
                       /\ Elems(s) \cap {"stop", "stopping", "closeClosed"} /= {}
                            => "emitClosed" \in Elems(s)
<1>1. CASE op = "Drop"
  BY <1>1, DropPlan
<1>2. CASE op = "DropFreezed"
  BY <1>2, DropFreezedPlan
<1>3. CASE op = "DropUnfreezed"
  BY <1>3, DropUnfreezedPlan
<1>4. CASE op = "Freeze"
  BY <1>4, FreezePlan DEF Drops
<1>5. CASE op \in {"Dial", "Unfreeze", "Clock", "DumpPackets", "CommandEvery"}
  <2>1. op \notin Drops
    BY <1>5 DEF Drops
  <2>2. /\ "freezingAll" \notin UpSteps /\ "stop" \notin UpSteps /\ "stopping" \notin UpSteps
        /\ "closeClosed" \notin UpSteps
    BY DEF UpSteps
  <2> QED
    BY <1>5, <2>1, <2>2, UpPlan
<1> QED
  BY <1>1, <1>2, <1>3, <1>4, <1>5 DEF Operations, Drops

(* A caller's call, or a timer's. *)
Begins(t, op) ==
  /\ Starts(t, op)
  /\ t \notin Jobs
  /\ t = "stopper" => op = "Drop" /\ timer["stopper"] = "counting"
  /\ UNCHANGED <<conf, container, snifer, dump, crashed, overtaken>>

LEMMA BeginsGoes ==
  ASSUME TodoOK, NEW t \in Threads, NEW op \in Operations, Begins(t, op)
  PROVE  /\ todo[t] = <<>> /\ Left(t) = {}
         /\ todo'[t] = StepsOf(op)
         /\ \A u \in Threads \ {t} : todo'[u] = todo[u]
         /\ orderly' => orderly
         /\ orderly' => \A u \in Threads : Harmless(u) \/ (t = "stopper" /\ u \in Jobs)
         /\ ~crashed
<1>1. todo[t] = <<>> /\ todo' = [todo EXCEPT ![t] = StepsOf(op)] /\ ~crashed
  BY DEF Begins, Starts
<1>2. orderly' = (orderly /\ \A u \in Threads : Harmless(u) \/ (t = "stopper" /\ u \in Jobs))
  BY DEF Begins, Starts
<1> HIDE DEF Threads
<1> QED
  BY <1>1, <1>2, EmptyLeft DEF TodoOK

LEMMA BeginsPlans ==
  ASSUME TodoOK, PlansOK, NEW t \in Threads, NEW op \in Operations, Begins(t, op)
  PROVE  PlansOK'
<1>1. conf' = conf /\ t \notin Jobs
  BY DEF Begins
<1> SUFFICES ASSUME NEW u \in Threads PROVE PlanFor(u, todo'[u])
  BY <1>1 DEF PlansOK, PlanFor
<1>2. CASE u = t
  <2>1. PlanFor(t, StepsOf(op))
    BY <1>1, OperationPlan DEF PlanFor, Plan
  <2> QED
    BY <1>2, <2>1, BeginsGoes
<1>3. CASE u /= t
  BY <1>3, BeginsGoes DEF PlansOK
<1> QED
  BY <1>2, <1>3

LEMMA BeginsInTurn ==
  ASSUME TodoOK, PlansOK, NEW t \in Threads, NEW op \in Operations, Begins(t, op)
  PROVE  InTurn'
<1> SUFFICES ASSUME orderly' PROVE InTurn'
  BY DEF InTurn
<1>1. /\ \A u \in Threads \ {t} : todo'[u] = todo[u]
      /\ \A u \in Threads : Harmless(u) \/ (t = "stopper" /\ u \in Jobs)
      /\ todo'[t] = StepsOf(op)
  BY BeginsGoes
<1>2. \A u \in Threads \ Jobs : u /= t => Harmless(u)'
  BY <1>1 DEF Harmless
<1>3. ASSUME NEW u \in Threads, Elems(todo'[u]) \cap UpSteps /= {}, NEW v \in Threads \ {u}
      PROVE  Harmless(v)'
  <2>1. u = t
    <3> SUFFICES ASSUME u /= t PROVE FALSE
      OBVIOUS
    <3>1. PICK e \in Left(u) : e \in UpSteps
      BY <1>1, <1>3 DEF Left
    <3>2. ~Harmless(u)
      BY <3>1, HarmlessLeft DEF UpSteps
    <3> QED
      BY <1>1, <3>1, <3>2, UpThread
  <2>2. t /= "stopper"
    <3> SUFFICES ASSUME op = "Drop" PROVE FALSE
      BY DEF Begins
    <3>1. Elems(todo'[t]) \subseteq DownSteps
      BY <1>1, DropPlan
    <3> QED
      BY <1>3, <2>1, <3>1, Apart
  <2> QED
    BY <1>1, <2>1, <2>2 DEF Harmless
<1> QED
  BY <1>2, <1>3 DEF InTurn, Left

LEMMA BeginsSnifer ==
  ASSUME TypeOK, SniferOK, NEW t \in Threads, NEW op \in Operations, Begins(t, op)
  PROVE  SniferOK'
<1>0. TodoOK
  BY TypeIsTodoAndData
<1>1. /\ conf' = conf /\ container' = container
      /\ orderly' => orderly
      /\ overtaken' = overtaken
      /\ \A u \in Threads \ {t} : todo'[u] = todo[u]
      /\ todo[t] = <<>> /\ todo'[t] = StepsOf(op)
  BY <1>0, BeginsGoes DEF Begins
<1>2. loop' = loop /\ pc' = pc /\ mine' = mine /\ active' = active /\ killed' = killed
  BY DEF Begins, snifer
<1>3. todo'[t] /= <<>> => Head(todo'[t]) \notin Later
  BY <1>1, OperationPlan DEF Plan
<1>4. CallsInTurn'
  <2> SUFFICES ASSUME NEW u \in Threads
               PROVE  /\ pc[u] \in InLive => /\ conf.snifers /\ todo'[u] /= <<>>
                                             /\ Head(todo'[u]) = "live"
                      /\ pc[u] \in {"starting", "activating"} => mine[u] \in S!Sessions
    BY <1>1, <1>2 DEF CallsInTurn, InLive, S!Sessions
  <2> QED
    BY <1>1 DEF SniferOK, CallsInTurn
<1>5. Held => Held'
  BY <1>2 DEF Held, Holding, S!Sessions
<1>6. (NotOvertaken => NotOvertaken') /\ (Asked => Asked')
  BY <1>2 DEF NotOvertaken, Resetting, Asked, S!Capturing, S!Sessions
<1>7. \A i \in S!Sessions : S!Capturing(i)' => S!Capturing(i)
  BY <1>2 DEF S!Capturing
<1>8. \A u \in Threads : todo'[u] /= <<>> /\ Head(todo'[u]) \in {"ip", "live", "freeze", "stop"}
                         => todo'[u] = todo[u]
  BY <1>1, <1>3 DEF Later
<1>9. SniferOK
  OBVIOUS
<1> HIDE DEF Threads
<1> QED
  BY <1>1, <1>4, <1>5, <1>6, <1>7, <1>8, <1>9 DEF SniferOK, S!Sessions

LEMMA BeginsDump ==
  ASSUME TodoOK, DumpOK, NEW t \in Threads, NEW op \in Operations, Begins(t, op)
  PROVE  DumpOK'
<1> SUFFICES ASSUME orderly' PROVE DumpOwes'
  BY DEF DumpOK
<1>1. /\ open' = open /\ stacked' = stacked /\ container' = container
      /\ DumpOwes
  BY BeginsGoes DEF Begins, dump, DumpOK
<1>2. /\ \A u \in Threads : u /= t => todo'[u] = todo[u]
      /\ Left(t) = {} /\ todo'[t] = StepsOf(op)
  BY BeginsGoes
<1>3. todo'[t] /= <<>> => Head(todo'[t]) \notin Later
  BY <1>2, OperationPlan DEF Plan
<1>4. (Ending => Ending') /\ (Shutting => Shutting')
  BY <1>1, <1>2 DEF Ending, Shutting, Left
<1>5. ASSUME NEW u \in Threads, Left(u)' \cap {"stop", "stopping"} /= {} PROVE Ending'
  <2>1. CASE u = t
    <3>1. "emitClosed" \in Elems(todo'[t])
      BY <1>2, <1>5, <2>1, OperationPlan DEF Left
    <3> QED
      BY <3>1 DEF Ending, Left
  <2>2. CASE u /= t
    BY <1>1, <1>2, <1>4, <1>5, <2>2 DEF DumpOwes, Left
  <2> QED
    BY <2>1, <2>2
<1>6. ASSUME NEW u \in Threads, "closeClosed" \in Left(u)', "emitClosed" \notin Left(u)'
      PROVE  "closed" \notin stacked'
  <2>1. CASE u = t
    BY <1>2, <1>6, <2>1, OperationPlan DEF Left
  <2>2. CASE u /= t
    BY <1>1, <1>2, <1>6, <2>2 DEF DumpOwes, Left
  <2> QED
    BY <2>1, <2>2
<1>7. ASSUME NEW u \in Threads, todo'[u] /= <<>>,
             Head(todo'[u]) \in {"stackFrozen", "stackClosed"}
      PROVE  container' = "RUNNING"
  BY <1>1, <1>2, <1>3, <1>7 DEF DumpOwes, Later
<1>8. ASSUME stacked' = {"frozen", "closed"}, container' /= "RUNNING"
      PROVE  \E u \in Threads : Left(u)' \cap {"emitFrozen", "emitClosed"} /= {}
  <2>1. PICK u \in Threads : Left(u) \cap {"emitFrozen", "emitClosed"} /= {}
    BY <1>1, <1>8 DEF DumpOwes
  <2> QED
    BY <1>2, <2>1 DEF Left
<1>9. /\ "closed" \in stacked' => "closed" \in open'
      /\ "frozen" \notin open' => Ending' /\ Shutting'
  BY <1>1, <1>4 DEF DumpOwes
<1> QED
  BY <1>5, <1>6, <1>7, <1>8, <1>9 DEF DumpOwes

(* The stopper does not run out while a job may start it. *)
LEMMA BeginsStopper ==
  ASSUME TodoOK, PlansOK, StopperOK, NEW t \in Threads, NEW op \in Operations, Begins(t, op)
  PROVE  StopperOK'
<1> SUFFICES ASSUME orderly', conf'.freeze
             PROVE  JobArms' /\ NoHookAwaits' /\ DropCloses'
  BY DEF StopperOK
<1>1. /\ orderly /\ conf' = conf /\ ~crashed /\ t \notin Jobs
      /\ \A u \in Threads \ {t} : todo'[u] = todo[u]
      /\ \A u \in Threads : Harmless(u) \/ (t = "stopper" /\ u \in Jobs)
      /\ todo'[t] = StepsOf(op)
      /\ t = "stopper" => timer["stopper"] = "counting"
  BY BeginsGoes DEF Begins
<1>2. JobArms
  BY <1>1 DEF StopperOK
<1>3. ASSUME NEW j \in Jobs, Arms(j)' PROVE FALSE
  <2>1. Arms(j) /\ j \in Threads
    BY <1>1, <1>3 DEF Arms, Left, Threads
  <2>2. ~Harmless(j)
    BY <2>1, HarmlessLeft DEF Arms
  <2>3. Closing
    BY <1>1, <1>2, <2>1, <2>2 DEF JobArms
  <2>4. PICK u \in Threads \ Jobs : "closeTimers" \in Left(u)
    BY <2>3 DEF Closing
  <2>5. ~Harmless(u)
    BY <2>4, HarmlessLeft
  <2> QED
    BY <1>1, <2>4, <2>5
<1>4. DropCloses'
  <2> SUFFICES ASSUME Dropped'
               PROVE  /\ \A u \in Threads : /\ Elems(todo'[u]) \subseteq DownSteps
                                            /\ "freezingAll" \notin Elems(todo'[u])
                      /\ Closing'
    BY <1>3 DEF DropCloses, Left
  <2>1. /\ op \in Drops
        /\ op = "DropFreezed" => "Shutdown" \notin conf.hooks
    BY <1>1 DEF Dropped, Begins, Starts, Drops
  <2>2. /\ Elems(todo'[t]) \subseteq DownSteps /\ "freezingAll" \notin Elems(todo'[t])
        /\ "closeTimers" \in Elems(todo'[t])
    BY <1>1, <2>1, OperationPlan
  <2>3. ASSUME NEW u \in Threads, u /= t
        PROVE  Elems(todo'[u]) \subseteq DownSteps /\ "freezingAll" \notin Elems(todo'[u])
    <3>1. Left(u) \subseteq JobSteps
      <4>1. CASE Harmless(u)
        BY <4>1, HarmlessLeft, Apart
      <4>2. CASE u \in Jobs
        BY <4>2 DEF PlansOK, PlanFor, Left
      <4> QED
        BY <1>1, <4>1, <4>2
    <3>2. "freezingAll" \notin JobSteps
      BY DEF JobSteps
    <3> QED
      BY <1>1, <2>3, <3>1, <3>2, Apart DEF Left
  <2> QED
    BY <1>1, <2>2, <2>3 DEF Closing, Left
<1> QED
  BY <1>3, <1>4 DEF JobArms, NoHookAwaits

-----------------------------------------------------------------------------
(* The invariant *)

(* What each thread has still to do, how the threads take turns, and what   *)
(* the snifer, the dump and the timers owe to that.                         *)
ThreadsInv == PlansOK /\ InTurn /\ SniferOK /\ DumpOK /\ StopperOK

LEMMA InitThreadsInv == Init => ThreadsInv
<1> SUFFICES ASSUME Init PROVE ThreadsInv
  OBVIOUS
<1>1. \A t \in Threads : todo[t] = <<>> /\ Left(t) = {}
  BY EmptyLeft DEF Init
<1>2. PlansOK
  BY <1>1, EmptyShape DEF PlansOK, PlanFor
<1>3. InTurn
  BY <1>1 DEF InTurn, Harmless
<1>4. SniferOK
  <2>1. /\ \A i \in S!Sessions : loop[i] = "none"
        /\ \A t \in Threads : pc[t] = "idle"
    BY DEF Init, S!Init
  <2>2. CallsInTurn /\ Held /\ NotOvertaken /\ Asked
    <3> HIDE DEF Threads, S!Sessions
    <3> QED
      BY <2>1 DEF CallsInTurn, InLive, Held, Holding, NotOvertaken, Resetting, Asked, S!Capturing
  <2> QED
    BY <1>1, <2>1, <2>2 DEF SniferOK, S!Capturing
<1>5. DumpOK
  <2>1. stacked = {} /\ open = {"frozen", "closed"}
    BY DEF Init
  <2> QED
    BY <1>1, <2>1 DEF DumpOK, DumpOwes, Ending, Shutting
<1>6. StopperOK
  <2>1. ~Dropped
    BY DEF Init, Dropped, Drops
  <2>2. Jobs \subseteq Threads
    BY DEF Threads
  <2> QED
    BY <1>1, <2>1, <2>2 DEF StopperOK, JobArms, NoHookAwaits, DropCloses, Arms
<1> QED
  BY <1>2, <1>3, <1>4, <1>5, <1>6 DEF ThreadsInv

LEMMA NextThreadsInv == TypeOK /\ ThreadsInv /\ [Next]_vars => ThreadsInv'
<1> SUFFICES ASSUME TypeOK, ThreadsInv, [Next]_vars PROVE ThreadsInv'
  OBVIOUS
<1>0. /\ PlansOK /\ InTurn /\ SniferOK /\ DumpOK /\ StopperOK /\ TodoOK
  BY TypeIsTodoAndData DEF ThreadsInv
<1>1. ASSUME NEW t \in Threads, NEW op \in Operations, Begins(t, op) PROVE ThreadsInv'
  BY <1>0, <1>1, BeginsPlans, BeginsInTurn, BeginsSnifer, BeginsDump, BeginsStopper DEF ThreadsInv
<1>2. ASSUME NEW c \in Callers, NEW op \in conf.calls, Call(c, op) PROVE ThreadsInv'
  <2>1. c \in Threads /\ op \in Operations /\ c \notin Jobs /\ c /= "stopper"
    BY LxAssumption, ProfileOK DEF Threads, Timers, TypeOK
  <2>2. Begins(c, op)
    BY <1>2, <2>1 DEF Call, Begins
  <2> QED
    BY <1>1, <2>1, <2>2
<1>3. ASSUME NEW t \in Timers, Expire(t) PROVE ThreadsInv'
  <2> DEFINE op == IF t = "ticker" THEN "Freeze" ELSE "Drop"
  <2>1. t \in Threads /\ op \in Operations /\ t \notin Jobs
    BY LxAssumption DEF Threads, Operations, Drops
  <2>2. Begins(t, op)
    BY <1>3, <2>1 DEF Expire, Begins
  <2> QED
    BY <1>1, <2>1, <2>2
<1>4. ASSUME NEW t \in Threads, Step(t) PROVE ThreadsInv'
  <2>1. todo[t] /= <<>> /\ Moves(t) /\ Effects(t)
    BY <1>0, <1>4, ShapeOf, StepMoves, StepEffects DEF Step
  <2>2. PlansOK' /\ SniferOK' /\ DumpOK' /\ StopperOK'
    BY <1>0, <2>1, StepPlans, StepSnifer, StepDump, StepStopper DEF Effects
  <2>3. InTurn'
    BY <1>0, <2>1, StepInTurn DEF Effects, InTurn
  <2> QED
    BY <2>2, <2>3 DEF ThreadsInv
<1>5. ASSUME UNCHANGED <<conf, dump, todo, timer, crashed, last>>, orderly' => orderly,
             container' = container \/ ~orderly' \/ container = "STARTING"
      PROVE  /\ PlansOK' /\ InTurn' /\ DumpOK' /\ StopperOK'
             /\ UNCHANGED <<snifer, overtaken>> => SniferOK'
  <2>1. PlansOK' /\ InTurn'
    BY <1>0, <1>5 DEF PlansOK, PlanFor, InTurn, Harmless, Left
  <2>2. DumpOK'
    BY <1>0, <1>5 DEF DumpOK, DumpOwes, Ending, Shutting, Left, dump
  <2>3. StopperOK'
    BY <1>0, <1>5 DEF StopperOK, JobArms, NoHookAwaits, DropCloses, Dropped, Arms, Closing, Left
  <2>4. UNCHANGED <<snifer, overtaken>> => SniferOK'
    BY <1>0, <1>5 DEF SniferOK, snifer, CallsInTurn, Held, Holding, NotOvertaken, Resetting, Asked,
                      S!Capturing, S!Sessions
  <2> QED
    BY <2>1, <2>2, <2>3, <2>4
<1>6. CASE Boots \/ Halts \/ UNCHANGED vars
  BY <1>5, <1>6 DEF Boots, Halts, vars, history, ThreadsInv
<1>7. ASSUME NEW i \in S!Sessions, Capture(i) PROVE ThreadsInv'
  BY <1>0, <1>5, <1>7, CaptureSnifer DEF Capture, history, ThreadsInv
<1> QED
  BY <1>2, <1>3, <1>4, <1>6, <1>7 DEF Next

(* At every moment the steps that each goroutine of the controller has still *)
(* to take keep the order the operations put them in, and, while the users  *)
(* start an operation only after the last one has ended, one goroutine at   *)
(* most is busy with one and what it will yet do explains the snifer, the   *)
(* packet dump and the timers.                                              *)
THEOREM SpecThreadsInv == Spec => []ThreadsInv
  BY InitThreadsInv, SpecTypeOK, NextThreadsInv, PTL DEF Spec

(* When all is quiet nobody has anything left to do but to try a file. *)
LEMMA QuietLeft ==
  ASSUME Quiet, NEW t \in Threads
  PROVE  Left(t) \subseteq {"try"}
  BY HarmlessLeft DEF Quiet

(* With operations that follow each other no session captures in a container *)
(* that does not run without having been asked to end, unless some Live     *)
(* came between the two flags an earlier session resets: whoever freezes or *)
(* stops the container has asked it, no goroutine wipes that out any more,  *)
(* and a session starts when the address of the container was found.        *)
THEOREM SpecSniferFollowsContainer == Spec => []SniferFollowsContainer
<1>1. ThreadsInv => SniferFollowsContainer
  BY DEF ThreadsInv, SniferOK, Asked, SniferFollowsContainer
<1> QED
  BY <1>1, SpecThreadsInv, PTL

(* With operations that follow each other, once all is quiet a packet dump  *)
(* that is stacked on both streams belongs to a running container: DumpPackets *)
(* stacks it on no other, and Freeze and Stop emit the stream that ends it. *)
THEOREM SpecDumpFollowsContainer == Spec => []DumpFollowsContainer
<1>1. ThreadsInv => DumpFollowsContainer
  <2> SUFFICES ASSUME ThreadsInv, Quiet, orderly,
                      stacked = {"frozen", "closed"}, container /= "RUNNING"
               PROVE  FALSE
    BY DEF DumpFollowsContainer
  <2>1. PICK t \in Threads : Left(t) \cap {"emitFrozen", "emitClosed"} /= {}
    BY DEF ThreadsInv, DumpOK, DumpOwes
  <2> QED
    BY <2>1, QuietLeft
<1> QED
  BY <1>1, SpecThreadsInv, PTL

(* With operations that follow each other, once all is quiet after a Drop   *)
(* neither the ticker nor the stopper counts, whatever jobs ran meanwhile: no *)
(* timer freezes or drops again what has been dropped.  A DropFreezed with a *)
(* Shutdown hook is left out: its job may start the stopper later on.       *)
THEOREM SpecDropIsFinal == Spec => []DropIsFinal
<1>1. ThreadsInv => DropIsFinal
  <2> SUFFICES ASSUME ThreadsInv, Quiet, orderly, ~crashed, conf.freeze, Dropped
               PROVE  \A x \in Timers : timer[x] /= "counting"
    BY DEF DropIsFinal, Dropped
  <2>1. DropCloses
    BY DEF ThreadsInv, StopperOK
  <2>2. ~Closing
    BY QuietLeft DEF Closing
  <2> QED
    BY <2>1, <2>2 DEF DropCloses
<1> QED
  BY <1>1, SpecThreadsInv, PTL
=============================================================================
