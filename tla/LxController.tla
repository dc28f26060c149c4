---------------------------- MODULE LxController ----------------------------
(***************************************************************************)
(* lxcontroller.BaseController: one lxc container that its users dial,     *)
(* freeze, unfreeze and drop, while two timers do the same behind their    *)
(* back: when the ticker runs out the container is frozen, and when the    *)
(* stopper, which a Freeze starts, runs out it is dropped.  A hook is a    *)
(* command file that is tried in a goroutine of its own (a job) and then   *)
(* followed by the rest of the operation.  Nothing here has a lock.        *)
(*                                                                         *)
(* A thread is a caller, the goroutine of a timer's done function, or a    *)
(* job.  todo holds the steps it still has to take; a step may put others  *)
(* in front of them, and an error drops what is left.  The snifer is that  *)
(* of module Snifer, with the threads as its callers.                      *)
(***************************************************************************)
EXTENDS Integers, Sequences, FiniteSets

CONSTANTS
  Callers,          \* the goroutines that use the controller
  Jobs,             \* bound: the command files that run at once
  RetryMax,         \* how often a command file is tried
  Configs,          \* the profiles, and what is done with them, see Config
  MaxCalls,         \* bound: how many operations they start
  MaxBusy,          \* bound: no operation starts while as many threads are busy
  MaxSessions       \* bound: sources the snifer opens

Hooks == {"Boot", "Unfreeze", "Freeze", "Shutdown"}
Drops == {"Drop", "DropFreezed", "DropUnfreezed"}
Operations == Drops \cup {"Dial", "Freeze", "Unfreeze", "Clock", "DumpPackets", "CommandEvery"}

(* What a profile says, and the operations that its callers use. *)
Config ==
  [hooks : SUBSET Hooks, freeze : BOOLEAN, stop : BOOLEAN, snifers : BOOLEAN,
   calls : SUBSET Operations]

Timers == {"ticker", "stopper"}
Threads == Callers \cup Timers \cup Jobs

ASSUME LxAssumption ==
  /\ RetryMax \in Nat /\ MaxCalls \in Nat /\ MaxSessions \in Nat
  /\ Callers \cap Jobs = {} /\ Timers \cap (Callers \cup Jobs) = {}
  /\ Configs \subseteq Config

VARIABLES
  conf,             \* the profile, see Config
  container,        \* what lxc says the container is
  timer,            \* the two timers: "nil", "off" or "counting"
  active, killed, streams, opened, handle,
  psource, input, loop, pc, mine,           \* the snifer, see Snifer
  open,             \* which of the streams frozen and closed are open
  stacked,          \* those the packet dump is stacked on
  ended,            \* the dump was ended
  todo,             \* the steps each thread has to take
  tries,            \* failed tries of each job
  calls,            \* operations started by callers
  crashed,          \* a goroutine has dereferenced nil
  last, orderly,    \* history, see Starts
  overtaken         \* history, see Live

S == INSTANCE Snifer WITH Callers <- Threads

snifer == <<active, killed, streams, opened, handle, psource, input, loop, pc, mine>>
dump == <<open, stacked, ended>>
history == <<calls, last, orderly, overtaken>>
vars == <<conf, container, timer, snifer, dump, todo, tries, crashed, history>>

(* NewController: a duration of zero leaves its timer nil. *)
Init ==
  /\ conf \in Configs
  /\ container \in {"STOPPED", "RUNNING", "FROZEN"}
  /\ timer = [ticker |-> IF conf.freeze THEN "off" ELSE "nil",
              stopper |-> IF conf.stop THEN "off" ELSE "nil"]
  /\ S!Init
  /\ open = {"frozen", "closed"}
  /\ stacked = {}
  /\ ended = FALSE
  /\ todo = [t \in Threads |-> <<>>]
  /\ tries = [j \in Jobs |-> 0]
  /\ calls = 0
  /\ crashed = FALSE
  /\ last = "other"
  /\ orderly = TRUE
  /\ overtaken = FALSE

-----------------------------------------------------------------------------
(* Threads and their steps *)

At(t, step) == ~crashed /\ todo[t] /= <<>> /\ Head(todo[t]) = step

(* The step is done and others come before what was left; or an error ends  *)
(* the operation.  Nothing that a property speaks of follows a call of Dial *)
(* in its callers, so that an error ends them all.                          *)
Before(t, steps) == todo' = [todo EXCEPT ![t] = steps \o Tail(@)]
Done(t) == Before(t, <<>>)
Fails(t) == todo' = [todo EXCEPT ![t] = <<>>]

Busy == {t \in Threads : todo[t] /= <<>>}

(* A job with nothing but its command file to run changes nothing. *)
Harmless(t) == todo[t] \in {<<>>, <<"try">>}
Quiet == \A t \in Threads : Harmless(t)

(* Hooks: a profile without the command file goes on in the same thread, or *)
(* does without what only follows the file (AfterBoot).                     *)
HookOf(step) ==
  CASE step = "freezing" -> "Freeze"
    [] step \in {"stopping", "freezingAll", "leaving"} -> "Shutdown"
    [] step = "booted" -> "Boot"
    [] step = "thawed" -> "Unfreeze"

Hook(step, work) == IF HookOf(step) \in conf.hooks THEN <<step>> ELSE work

(* Faulty variant: the stopper is not started. *)
Unarmed == Hook("freezing", <<"kill", "freeze", "emitFrozen">>)
FreezeSteps == <<"addStopper">> \o Hook("freezing", <<"kill", "freeze", "emitFrozen">>)

FreezeAllSteps == <<"kill">> \o FreezeSteps \o <<"emitClosed">>

(* What follows the command file. *)
Work(step) ==
  CASE step = "freezing" -> <<"kill", "freeze", "emitFrozen">>
    [] step = "stopping" -> <<"kill", "stop">>
    [] step = "freezingAll" -> FreezeAllSteps \o <<"closeClosed">>
    [] step = "leaving" -> <<"kill", "emitClosed", "closeClosed">>
    [] step \in {"booted", "thawed", "command"} -> <<>>

(* CommandEvery and its kin: a user's command in the place of a hook's. *)
CommandSteps == <<"command">>

UnfreezeSteps == <<"closeStopper", "boot">>

(* DropFreezed and DropUnfreezed: closed.Close is deferred, to the end of   *)
(* the hook's function or, without a hook, of the operation.                *)
Leaving(step, work) ==
  IF HookOf(step) \in conf.hooks
    THEN <<step, "closeTimers", "closeSnifer">>
    ELSE work \o <<"closeTimers", "closeSnifer", "closeClosed">>

(* Faulty variant: the timers are closed before the container is frozen. *)
EarlyClose ==
  <<"closeTimers">> \o Hook("freezingAll", FreezeAllSteps) \o <<"closeSnifer", "closeClosed">>
DropFreezedSteps == Leaving("freezingAll", FreezeAllSteps)

(* Clock asks whether there is a ticker.                                    *)
StepsOf(op) ==
  CASE op = "Dial" -> <<"boot">>
    [] op = "Unfreeze" -> UnfreezeSteps
    [] op = "Freeze" -> FreezeSteps
    [] op = "CommandEvery" -> CommandSteps
    [] op = "Clock" -> IF conf.freeze THEN <<"addTicker">> ELSE <<>>
    [] op = "Drop" -> Hook("stopping", <<"kill", "stop">>) \o
                      <<"closeTimers", "closeFrozen", "emitClosed", "closeSnifer",
                        "closeClosed">>
    [] op = "DropFreezed" -> DropFreezedSteps
    [] op = "DropUnfreezed" -> Leaving("leaving", <<"kill", "emitClosed">>)
    [] op = "DumpPackets" -> <<"checkRunning", "stackFrozen", "stackClosed">>

(* History: the operation that was started last, and whether operations     *)
(* have followed each other: none has begun before the one before it and    *)
(* its jobs were through, but for the stopper's, which may find jobs, and   *)
(* lxc has done what it was asked and no container has stopped by itself.   *)
Starts(t, op) ==
  /\ ~crashed
  /\ todo[t] = <<>>
  /\ Cardinality(Busy) < MaxBusy
  /\ todo' = [todo EXCEPT ![t] = StepsOf(op)]
  /\ last' = IF op \in Drops THEN op ELSE "other"
  /\ orderly' = (orderly /\ \A x \in Threads : Harmless(x) \/ (t = "stopper" /\ x \in Jobs))

Call(c, op) ==
  /\ calls < MaxCalls
  /\ Starts(c, op)
  /\ calls' = calls + 1
  /\ UNCHANGED <<conf, container, timer, snifer, dump, tries, crashed, overtaken>>

(* A timer that has run out is off and its done function runs.  Bound: the  *)
(* one before has returned.                                                 *)
Expire(t) ==
  /\ timer[t] = "counting"
  /\ Starts(t, IF t = "ticker" THEN "Freeze" ELSE "Drop")
  /\ timer' = [timer EXCEPT ![t] = "off"]
  /\ UNCHANGED <<conf, container, snifer, dump, tries, crashed, calls, overtaken>>

-----------------------------------------------------------------------------
(* Hooks *)

HookSteps ==
  {"freezing", "stopping", "freezingAll", "leaving", "booted", "thawed", "command"}

AnyOf(js) == CHOOSE j \in js : TRUE
FreeJobs == {j \in Jobs : todo[j] = <<>>}

Hooked(t) ==
  /\ ~crashed
  /\ Head(todo[t]) \in HookSteps
  /\ FreeJobs /= {}
  /\ todo' = [todo EXCEPT ![t] = Tail(@),
                          ![AnyOf(FreeJobs)] = <<"try">> \o Work(Head(todo[t]))]
  /\ UNCHANGED <<conf, container, timer, snifer, dump, tries, crashed, history>>

(* CommandNative runs a command in a running container only. *)
CommandMayRun == container = "RUNNING"

(* CommandFileEvery: the file is tried until it runs without an error, but   *)
(* RetryMax times at most.                                                   *)
(* Faulty variant: failed tries are not counted. *)
NotCounted(j) == tries[j]
Counted(j) == tries[j] + 1

Try(j) ==
  /\ At(j, "try")
  /\ \/ /\ tries[j] >= RetryMax \/ CommandMayRun
        /\ Done(j)
        /\ tries' = [tries EXCEPT ![j] = 0]
     \/ /\ tries[j] < RetryMax
        /\ tries' = [tries EXCEPT ![j] = Counted(j)]
        /\ UNCHANGED todo
  /\ UNCHANGED <<conf, container, timer, snifer, dump, crashed, history>>

-----------------------------------------------------------------------------
(* Dial *)

Boot(t) ==
  /\ At(t, "boot")
  /\ \/ /\ container = "FROZEN"
        /\ Before(t, <<"thaw", "wait", "ip", "live">> \o Hook("thawed", <<>>) \o <<"addTicker">>)
     \/ /\ container = "STOPPED"
        /\ Before(t, <<"start", "wait", "ip", "live">> \o Hook("booted", <<>>) \o <<"addTicker">>)
     \/ container = "RUNNING" /\ Done(t)
     \/ container = "STARTING" /\ Fails(t)
  /\ UNCHANGED <<conf, container, timer, snifer, dump, tries, crashed, history>>

(* lxc does what it is asked only in the right state, and even then may fail. *)
Thaw(t) ==
  /\ At(t, "thaw")
  /\ \/ /\ container = "FROZEN"
        /\ container' = "RUNNING"
        /\ Done(t)
        /\ UNCHANGED orderly
     \/ /\ Fails(t)
        /\ orderly' = FALSE
        /\ UNCHANGED container
  /\ UNCHANGED <<conf, timer, snifer, dump, tries, crashed, calls, last, overtaken>>

Start(t) ==
  /\ At(t, "start")
  /\ \/ /\ container = "STOPPED"
        /\ container' = "STARTING"
        /\ Done(t)
     \/ Fails(t) /\ UNCHANGED container
  /\ UNCHANGED <<conf, timer, snifer, dump, tries, crashed, history>>

(* con.Wait(lxc.RUNNING, 60) *)
Wait(t) ==
  /\ At(t, "wait")
  /\ IF container = "RUNNING" THEN Done(t) ELSE Fails(t)
  /\ orderly' = (orderly /\ container /= "STARTING")
  /\ UNCHANGED <<conf, container, timer, snifer, dump, tries, crashed, calls, last, overtaken>>

(* The address is asked for until there is one, for ever if there never is. *)
IP(t) ==
  /\ At(t, "ip")
  /\ container \in {"RUNNING", "FROZEN"}
  /\ Done(t)
  /\ UNCHANGED <<conf, container, timer, snifer, dump, tries, crashed, history>>

(* A call of the snifer is a step that lasts until it has returned.         *)
Returns(t) == IF pc'[t] = "idle" THEN Done(t) ELSE UNCHANGED todo

(* turnOnSnifer, whose Live may find no source.                             *)
(* History: it has begun a session while the goroutine of an earlier one    *)
(* had yet to reset the flag killed.                                        *)
Live(t) ==
  /\ At(t, "live")
  /\ \/ ~conf.snifers /\ UNCHANGED snifer /\ Done(t)
     \/ /\ conf.snifers
        /\ S!Live(t) \/ S!Open(t) \/ S!OpenFails(t) \/ S!Go(t) \/ S!Activate(t)
        /\ Returns(t)
  /\ overtaken' = \/ overtaken
                  \/ pc'[t] = "opening" /\ \E i \in S!Sessions : loop[i] = "dropKilled"
  /\ UNCHANGED <<conf, container, timer, dump, tries, crashed, calls, last, orderly>>

(* ResetTimer.Add: a timer that is off starts to count and runs its init    *)
(* function in the caller, which for the ticker is Unfreeze; one that       *)
(* counts begins anew.  Dial does not ask whether there is a ticker.        *)
AddTicker(t) ==
  /\ At(t, "addTicker")
  /\ crashed' = (timer.ticker = "nil")
  /\ IF timer.ticker = "off"
       THEN Before(t, UnfreezeSteps) /\ timer' = [timer EXCEPT !.ticker = "counting"]
       ELSE Done(t) /\ UNCHANGED timer
  /\ UNCHANGED <<conf, container, snifer, dump, tries, history>>

CloseStopper(t) ==
  /\ At(t, "closeStopper")
  /\ Done(t)
  /\ timer' = [timer EXCEPT !.stopper = IF conf.stop THEN "off" ELSE @]
  /\ UNCHANGED <<conf, container, snifer, dump, tries, crashed, history>>

-----------------------------------------------------------------------------
(* Freeze and the Drops *)

AddStopper(t) ==
  /\ At(t, "addStopper")
  /\ Done(t)
  /\ timer' = [timer EXCEPT !.stopper = IF conf.stop THEN "counting" ELSE @]
  /\ UNCHANGED <<conf, container, snifer, dump, tries, crashed, history>>

(* turnOffSnifer, whose Kill does nothing to a snifer that is not active.   *)
(* Faulty variant: it is not called. *)
NotCalled(t) == UNCHANGED snifer
TurnOff(t) == S!Kill(t, FALSE) \/ S!Killed(t)

Kill(t) ==
  /\ At(t, "kill")
  /\ IF conf.snifers THEN TurnOff(t) ELSE UNCHANGED snifer
  /\ Returns(t)
  /\ UNCHANGED <<conf, container, timer, dump, tries, crashed, history>>

CloseSnifer(t) ==
  /\ At(t, "closeSnifer")
  /\ S!Kill(t, TRUE) \/ S!Killed(t)
  /\ Returns(t)
  /\ UNCHANGED <<conf, container, timer, dump, tries, crashed, history>>

(* Whatever error lxc returns is ignored. *)
FreezeContainer(t) ==
  /\ At(t, "freeze")
  /\ Done(t)
  /\ \/ container = "RUNNING" /\ container' = "FROZEN" /\ UNCHANGED orderly
     \/ container = "RUNNING" /\ orderly' = FALSE /\ UNCHANGED container
     \/ container /= "RUNNING" /\ UNCHANGED <<container, orderly>>
  /\ UNCHANGED <<conf, timer, snifer, dump, tries, crashed, calls, last, overtaken>>

StopContainer(t) ==
  /\ At(t, "stop")
  /\ Done(t)
  /\ \/ container' = "STOPPED" /\ UNCHANGED orderly
     \/ container /= "STOPPED" /\ orderly' = FALSE /\ UNCHANGED container
  /\ UNCHANGED <<conf, timer, snifer, dump, tries, crashed, calls, last, overtaken>>

(* A ticker means that there is a stopper, or so it is assumed. *)
CloseTimers(t) ==
  /\ At(t, "closeTimers")
  /\ Done(t)
  /\ crashed' = (conf.freeze /\ ~conf.stop)
  /\ timer' = IF conf.freeze /\ conf.stop THEN [x \in Timers |-> "off"] ELSE timer
  /\ UNCHANGED <<conf, container, snifer, dump, tries, history>>

-----------------------------------------------------------------------------
(* The streams frozen and closed, and DumpPackets on them *)

(* The file is created, and the snifer asked for its link type, which it    *)
(* knows once it has opened a source: Live has, or, in a profile without    *)
(* snifers, perhaps somebody who uses Snifer() himself.                     *)
CheckRunning(t) ==
  /\ At(t, "checkRunning")
  /\ \/ container = "RUNNING" /\ (conf.snifers => handle /= 0) /\ Done(t)
     \/ Fails(t)
  /\ UNCHANGED <<conf, container, timer, snifer, dump, tries, crashed, history>>

(* Bound: one dump.  A stream that is closed does not take it any more.     *)
Stack(t, stream) ==
  /\ At(t, IF stream = "frozen" THEN "stackFrozen" ELSE "stackClosed")
  /\ Done(t)
  /\ stacked' = stacked \cup ({stream} \cap open)
  /\ UNCHANGED <<conf, container, timer, snifer, open, ended, tries, crashed, history>>

(* Either stream tells the dump to end, and lets go of it.                  *)
(* Faulty variant: nobody is told. *)
NobodyTold(stream) == FALSE
Told(stream) == stream \in stacked \cap open

Emit(t, stream) ==
  /\ At(t, IF stream = "frozen" THEN "emitFrozen" ELSE "emitClosed")
  /\ Done(t)
  /\ IF Told(stream)
       THEN ended' = TRUE /\ stacked' = stacked \ {stream}
       ELSE UNCHANGED <<ended, stacked>>
  /\ UNCHANGED <<conf, container, timer, snifer, open, tries, crashed, history>>

CloseStream(t, stream) ==
  /\ At(t, IF stream = "frozen" THEN "closeFrozen" ELSE "closeClosed")
  /\ Done(t)
  /\ open' = open \ {stream}
  /\ UNCHANGED <<conf, container, timer, snifer, stacked, ended, tries, crashed, history>>

-----------------------------------------------------------------------------
(* What the container does by itself *)

Boots ==
  /\ container = "STARTING"
  /\ container' \in {"RUNNING", "STOPPED"}
  /\ UNCHANGED <<conf, timer, snifer, dump, todo, tries, crashed, history>>

Halts ==
  /\ container = "RUNNING"
  /\ container' = "STOPPED"
  /\ orderly' = FALSE
  /\ UNCHANGED <<conf, timer, snifer, dump, todo, tries, crashed, calls, last, overtaken>>

(* The goroutines of the snifer.  Its sources are network devices, which,   *)
(* unlike files, have no end.                                               *)
Capture(i) ==
  /\ S!LoopStep(i)
  /\ UNCHANGED <<conf, container, timer, dump, todo, tries, crashed, history>>

Step(t) ==
  /\ todo[t] /= <<>>
  /\ \/ Hooked(t) \/ Try(t)
     \/ Boot(t) \/ Thaw(t) \/ Start(t) \/ Wait(t) \/ IP(t) \/ Live(t)
     \/ AddTicker(t) \/ AddStopper(t) \/ CloseStopper(t) \/ CloseTimers(t)
     \/ Kill(t) \/ CloseSnifer(t) \/ FreezeContainer(t) \/ StopContainer(t)
     \/ CheckRunning(t)
     \/ \E stream \in {"frozen", "closed"} :
          Stack(t, stream) \/ Emit(t, stream) \/ CloseStream(t, stream)

Next ==
  \/ \E c \in Callers, op \in conf.calls : Call(c, op)
  \/ \E t \in Timers : Expire(t)
  \/ \E t \in Threads : Step(t)
  \/ \E i \in S!Sessions : Capture(i)
  \/ Boots \/ Halts

Spec == Init /\ [][Next]_vars

(* Goroutines keep running, timers run out and a boot comes to an end.  It  *)
(* is enough that some goroutine runs: no operation goes on for ever.       *)
Fairness ==
  /\ WF_vars(\E t \in Threads : Step(t))
  /\ WF_vars(\E t \in Timers : Expire(t))
  /\ WF_vars(Boots)

FairSpec == Spec /\ Fairness

-----------------------------------------------------------------------------
(* Properties *)

States == {"STOPPED", "STARTING", "RUNNING", "FROZEN"}

Steps ==
  HookSteps \cup
  {"try", "boot", "thaw", "start", "wait", "ip", "live", "addTicker", "addStopper",
   "closeStopper", "closeTimers", "closeSnifer", "closeFrozen", "closeClosed", "kill", "freeze", "stop",
   "emitFrozen", "emitClosed", "checkRunning", "stackFrozen", "stackClosed"}

TypeOK ==
  /\ conf \in Configs
  /\ container \in States
  /\ timer \in [Timers -> {"nil", "off", "counting"}]
  /\ S!TypeOK
  /\ open \subseteq {"frozen", "closed"} /\ stacked \subseteq {"frozen", "closed"}
  /\ ended \in BOOLEAN
  /\ todo \in [Threads -> Seq(Steps)]
  /\ tries \in [Jobs -> 0 .. RetryMax]
  /\ calls \in 0 .. MaxCalls
  /\ crashed \in BOOLEAN /\ orderly \in BOOLEAN /\ overtaken \in BOOLEAN

(* A hook is tried RetryMax times at most: the rest of its operation, which *)
(* freezes or stops the container, is reached also when the container never *)
(* runs, or the file is missing; in the end no job is trying any more.      *)
HookRuns == (\E j \in Jobs : At(j, "try")) ~> (\A j \in Jobs : ~At(j, "try"))

(* A container with both timers that nobody calls any more does not stay    *)
(* up: the ticker freezes it and the stopper that was started with it stops *)
(* it, also when hooks fail, and when the stopper runs out while the file   *)
(* of a hook is still being tried.                                          *)
IdleIsStopped ==
  conf.stop /\ timer.ticker = "counting" ~>
    \/ container = "STOPPED"
    \/ crashed
    \/ last \in {"DropFreezed", "DropUnfreezed"}
    \/ ~orderly

(* The steps of a sequence, and those a thread has left. *)
Elems(s) == {s[i] : i \in 1 .. Len(s)}
Left(t) == Elems(todo[t])

(* A dump that listens to both streams is ended, whatever else goes on, if  *)
(* the ticker counts or somebody has yet to emit on closed; unless it was   *)
(* stacked after a Drop had told that stream and before its deferred Close, *)
(* when only a Freeze could still end it.                                   *)
DumpEnds ==
  /\ stacked \cap open = {"frozen", "closed"}
  /\ timer.ticker = "counting" \/ \E t \in Threads : "emitClosed" \in Left(t)
  /\ \A t \in Threads : "closeClosed" \in Left(t) => "emitClosed" \in Left(t)
  ~> ended \/ crashed

(* A dump that has heard of no end runs in a running container, when the      *)
(* operations have come one after the other and are through.                *)
DumpFollowsContainer ==
  Quiet /\ orderly /\ stacked = {"frozen", "closed"} => container = "RUNNING"

(* Operations that follow each other leave no snifer capturing on the       *)
(* interface of a container that does not run without having asked it to    *)
(* stop; but a session that was begun too early may have missed the asking. *)
SniferFollowsContainer ==
  Quiet /\ orderly /\ ~overtaken /\ container /= "RUNNING" =>
    \A i \in S!Sessions : S!Capturing(i) => killed = 1

(* What was dropped is left alone: no timer is left to freeze or stop it,   *)
(* unless the Freeze of DropFreezed waits for a hook and starts the stopper *)
(* after it was closed, or there is no ticker and it is not closed at all.  *)
DropIsFinal ==
  /\ Quiet /\ orderly /\ ~crashed
  /\ conf.freeze
  /\ last \in Drops
  /\ last = "DropFreezed" => "Shutdown" \notin conf.hooks
  => \A t \in Timers : timer[t] /= "counting"
=============================================================================
