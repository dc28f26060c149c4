----------------------------- MODULE PauseGate -----------------------------
(***************************************************************************)
(* Pause, Resume and Wait of proxies.ProxyStream and proxies.Director,     *)
(* which are the same code on the same three fields:                       *)
(*                                                                         *)
(*   waiter   a sync.WaitGroup the servers wait on;                        *)
(*   halter   a *sync.Once whose function adds 1 to waiter;                *)
(*   resumer  a *sync.Once, nil until the first pause, whose function      *)
(*            takes the 1 back and installs a fresh halter.                *)
(*                                                                         *)
(* None of the fields is guarded by a lock, so one action is one access to *)
(* them.  A read of the pointer halter or resumer and the entry into the   *)
(* Once it points to are one action: the Once a call enters is decided by  *)
(* the read, and a Once that has run stays run.                            *)
(*                                                                         *)
(* The Once objects are numbered by rounds.  Round i is the halter number  *)
(* i, and resumer number i is the one made under halter i; 0 is nil.       *)
(***************************************************************************)
EXTENDS Integers

CONSTANTS
  Controllers,      \* the goroutines that call Pause and Resume
  Servers,          \* the goroutines that call Wait
  MaxRounds         \* bound: halters that may be used up

ASSUME RoundsAssumption == MaxRounds \in Nat

Rounds == 1 .. (MaxRounds + 1)
Nil == 0

VARIABLES
  count,            \* the counter of waiter
  halter,           \* which Once halter points to
  resumer,          \* which Once resumer points to, or Nil
  hOnce,            \* state of every halter
  rOnce,            \* state of every resumer
  pc,               \* where each controller is
  mine,             \* the Once it is inside of
  srv,              \* where each server is in waiter.Wait
  crash             \* the panic that ended the process, or "none"

vars == <<count, halter, resumer, hOnce, rOnce, pc, mine, srv, crash>>

OnceState == {"fresh", "running", "ran"}

Init ==
  /\ count = 0
  /\ halter = 1
  /\ resumer = Nil
  /\ hOnce = [i \in Rounds |-> "fresh"]
  /\ rOnce = [i \in Rounds |-> "fresh"]
  /\ pc = [c \in Controllers |-> "idle"]
  /\ mine = [c \in Controllers |-> Nil]
  /\ srv = [s \in Servers |-> "idle"]
  /\ crash = "none"

(* sync.Once: Do runs its function if nobody has started it before, ...     *)
(* Faulty variant: the Once forgets that it has run. *)
ForgetfulOnce(o) == o \in {"fresh", "ran"}
Runs(o) == o = "fresh"

(* ... and otherwise returns when the function has returned. *)
Skips(o) == o = "ran"

(* "if p.resumer == nil { return }"                                        *)
(* Faulty variant: the test the wrong way round. *)
ResumerSet(i) == i /= Nil
NothingToResume(i) == i = Nil

(* "p.halter = new(sync.Once)", after the halter that resumer i undid.     *)
FreshHalter(i) == i + 1

(* "p.resumer = nil", when resumer i is done with.                         *)
(* Faulty variant: the old resumer is kept. *)
KeptResumer(i) == i
NoResumer(i) == Nil

At(c, l) == crash = "none" /\ pc[c] = l
Goto(c, l) == pc' = [pc EXCEPT ![c] = l]
Die(why) == crash' = why

-----------------------------------------------------------------------------
(* Pause *)

PauseCall(c) ==
  /\ At(c, "idle")
  /\ Goto(c, "pause")
  /\ UNCHANGED <<count, halter, resumer, hOnce, rOnce, mine, srv, crash>>

(* halter.Do runs its function: this controller won the Once. *)
PauseRun(c) ==
  /\ At(c, "pause")
  /\ halter <= MaxRounds
  /\ Runs(hOnce[halter])
  /\ hOnce' = [hOnce EXCEPT ![halter] = "running"]
  /\ mine' = [mine EXCEPT ![c] = halter]
  /\ Goto(c, "adding")
  /\ UNCHANGED <<count, halter, resumer, rOnce, srv, crash>>

(* halter.Do returns without running; a Do that finds the function under   *)
(* way blocks, and is this action once the function has returned.          *)
PauseSkip(c) ==
  /\ At(c, "pause")
  /\ Skips(hOnce[halter])
  /\ Goto(c, "idle")
  /\ UNCHANGED <<count, halter, resumer, hOnce, rOnce, mine, srv, crash>>

PauseAdd(c) ==
  /\ At(c, "adding")
  /\ count' = count + 1
  /\ Goto(c, "arming")
  /\ UNCHANGED <<halter, resumer, hOnce, rOnce, mine, srv, crash>>

PauseArm(c) ==
  /\ At(c, "arming")
  /\ resumer' = mine[c]
  /\ hOnce' = [hOnce EXCEPT ![mine[c]] = "ran"]
  /\ Goto(c, "idle")
  /\ UNCHANGED <<count, halter, rOnce, mine, srv, crash>>

-----------------------------------------------------------------------------
(* Resume *)

ResumeCall(c) ==
  /\ At(c, "idle")
  /\ Goto(c, "resume")
  /\ UNCHANGED <<count, halter, resumer, hOnce, rOnce, mine, srv, crash>>

ResumeSkip(c) ==
  /\ At(c, "resume")
  /\ NothingToResume(resumer)
  /\ Goto(c, "idle")
  /\ UNCHANGED <<count, halter, resumer, hOnce, rOnce, mine, srv, crash>>

ResumeCheck(c) ==
  /\ At(c, "resume")
  /\ ~NothingToResume(resumer)
  /\ Goto(c, "resumeDo")
  /\ UNCHANGED <<count, halter, resumer, hOnce, rOnce, mine, srv, crash>>

(* p.resumer is read a second time for the Do: it may be nil by now. *)
ResumeNil(c) ==
  /\ At(c, "resumeDo")
  /\ resumer = Nil
  /\ Die("nil")
  /\ UNCHANGED <<count, halter, resumer, hOnce, rOnce, pc, mine, srv>>

ResumeRun(c) ==
  /\ At(c, "resumeDo")
  /\ resumer /= Nil
  /\ Runs(rOnce[resumer])
  /\ rOnce' = [rOnce EXCEPT ![resumer] = "running"]
  /\ mine' = [mine EXCEPT ![c] = resumer]
  /\ Goto(c, "releasing")
  /\ UNCHANGED <<count, halter, resumer, hOnce, srv, crash>>

ResumeRan(c) ==
  /\ At(c, "resumeDo")
  /\ resumer /= Nil
  /\ Skips(rOnce[resumer])
  /\ Goto(c, "clearing")
  /\ UNCHANGED <<count, halter, resumer, hOnce, rOnce, mine, srv, crash>>

(* waiter.Done: at zero everybody who waits is let go, below zero it panics. *)
ResumeRelease(c) ==
  /\ At(c, "releasing")
  /\ count' = count - 1
  /\ srv' = IF count - 1 = 0
              THEN [s \in Servers |-> IF srv[s] = "waiting" THEN "woken" ELSE srv[s]]
              ELSE srv
  /\ crash' = IF count - 1 < 0 THEN "negative" ELSE crash
  /\ Goto(c, "rearming")
  /\ UNCHANGED <<halter, resumer, hOnce, rOnce, mine>>

ResumeRearm(c) ==
  /\ At(c, "rearming")
  /\ halter' = FreshHalter(mine[c])
  /\ rOnce' = [rOnce EXCEPT ![mine[c]] = "ran"]
  /\ Goto(c, "clearing")
  /\ UNCHANGED <<count, resumer, hOnce, mine, srv, crash>>

(* The deferred "p.resumer = nil". *)
ResumeClear(c) ==
  /\ At(c, "clearing")
  /\ resumer' = NoResumer(resumer)
  /\ Goto(c, "idle")
  /\ UNCHANGED <<count, halter, hOnce, rOnce, mine, srv, crash>>

-----------------------------------------------------------------------------
(* Wait *)

(* waiter.Wait with the counter up blocks; with the counter at zero it     *)
(* returns at once and changes nothing.                                    *)
WaitBlock(s) ==
  /\ crash = "none"
  /\ srv[s] = "idle"
  /\ count > 0
  /\ srv' = [srv EXCEPT ![s] = "waiting"]
  /\ UNCHANGED <<count, halter, resumer, hOnce, rOnce, pc, mine, crash>>

(* A woken goroutine panics when it finds the WaitGroup in use again. *)
WaitReturn(s) ==
  /\ crash = "none"
  /\ srv[s] = "woken"
  /\ IF count = 0
       THEN srv' = [srv EXCEPT ![s] = "idle"] /\ UNCHANGED crash
       ELSE Die("reuse") /\ UNCHANGED srv
  /\ UNCHANGED <<count, halter, resumer, hOnce, rOnce, pc, mine>>

-----------------------------------------------------------------------------
PauseStep(c) == PauseRun(c) \/ PauseSkip(c) \/ PauseAdd(c) \/ PauseArm(c)

ResumeStep(c) ==
  \/ ResumeSkip(c) \/ ResumeCheck(c) \/ ResumeNil(c) \/ ResumeRun(c)
  \/ ResumeRan(c) \/ ResumeRelease(c) \/ ResumeRearm(c) \/ ResumeClear(c)

Next ==
  \/ \E c \in Controllers :
       PauseCall(c) \/ ResumeCall(c) \/ PauseStep(c) \/ ResumeStep(c)
  \/ \E s \in Servers : WaitBlock(s) \/ WaitReturn(s)

Spec == Init /\ [][Next]_vars

(* A goroutine inside Pause, Resume or Wait keeps running; nobody has to   *)
(* call any of them.                                                       *)
Fairness ==
  /\ \A c \in Controllers : WF_vars(PauseStep(c) \/ ResumeStep(c))
  /\ \A s \in Servers : WF_vars(WaitReturn(s))

FairSpec == Spec /\ Fairness

-----------------------------------------------------------------------------
(* Properties *)

(* Every variable keeps to its range. *)
TypeOK ==
  /\ count \in Int
  /\ halter \in Rounds
  /\ resumer \in 0 .. halter
  /\ hOnce \in [Rounds -> OnceState]
  /\ rOnce \in [Rounds -> OnceState]
  /\ pc \in [Controllers -> {"idle", "pause", "adding", "arming", "resume",
                             "resumeDo", "releasing", "rearming", "clearing"}]
  /\ mine \in [Controllers -> 0 .. halter]
  /\ srv \in [Servers -> {"idle", "waiting", "woken"}]
  /\ crash \in {"none", "nil", "negative", "reuse"}

(* However many goroutines pause and resume at once, the two Onces pair    *)
(* every Add(1) of Pause with at most one Done of Resume: the counter never *)
(* goes to two, so one Resume is enough to open the gate, and the Done of   *)
(* Resume never takes it below zero, which would panic.                     *)
AddAndDonePair == count \in 0 .. 1 /\ crash /= "negative"

Adding(c) == pc[c] \in {"adding", "arming"}
Releasing(c) == pc[c] \in {"releasing", "rearming"}

(* Rounds before the current one are used up, rounds after it untouched.    *)
RoundsInOrder ==
  /\ \A i \in Rounds : i < halter => hOnce[i] = "ran" /\ rOnce[i] = "ran"
  /\ \A i \in Rounds : i > halter => hOnce[i] = "fresh" /\ rOnce[i] = "fresh"
  /\ hOnce[halter] /= "fresh" => halter <= MaxRounds
  /\ rOnce[halter] /= "ran"
  /\ rOnce[halter] = "running" => hOnce[halter] = "ran"
  /\ resumer = halter => hOnce[halter] = "ran"

(* One goroutine at most is inside the function of a Once, and that Once is *)
(* of the current round.                                                    *)
OneInside ==
  /\ \A c \in Controllers : Adding(c) => mine[c] = halter /\ hOnce[halter] = "running"
  /\ \A c \in Controllers : Releasing(c) => mine[c] = halter /\ rOnce[halter] = "running"
  /\ \A c, d \in Controllers : (Adding(c) \/ Releasing(c)) /\ (Adding(d) \/ Releasing(d)) => c = d

(* What the counter is in each phase of a round. *)
CountOfRound ==
  /\ hOnce[halter] = "fresh" => count = 0
  /\ hOnce[halter] = "running" =>
       \E c \in Controllers : Adding(c) /\ count = IF pc[c] = "arming" THEN 1 ELSE 0
  /\ hOnce[halter] = "ran" /\ rOnce[halter] = "fresh" => count = 1
  /\ rOnce[halter] = "running" =>
       \E c \in Controllers : Releasing(c) /\ count = IF pc[c] = "releasing" THEN 1 ELSE 0

(* No server is left behind: while somebody waits, the counter is up.        *)
NobodyLeftWaiting == count = 0 => \A s \in Servers : srv[s] /= "waiting"

(* The inductive invariant behind AddAndDonePair: the Onces are used up one  *)
(* round at a time by one goroutine at a time, and the round tells what the  *)
(* counter of the WaitGroup is.                                              *)
IInv ==
  /\ TypeOK
  /\ RoundsInOrder
  /\ OneInside
  /\ CountOfRound
  /\ NobodyLeftWaiting
  /\ crash /= "negative"

Quiet == \A c \in Controllers : pc[c] = "idle"

(* Between calls the gate is shut exactly when there is a resumer to open it *)
(* with and the halter is spent: a pause can always be resumed, and an open  *)
(* gate can always be paused.                                                *)
PauseIsResumable ==
  Quiet /\ crash = "none" =>
    /\ count = 1 <=> resumer /= Nil
    /\ count = 1 <=> hOnce[halter] = "ran"

(* "Resume completes the waiter for release the waiter": between calls, a    *)
(* shut gate has a resumer, so that the next Resume opens it.                *)
ResumeCompletesWaiter ==
  Quiet /\ crash = "none" /\ count = 1 => resumer /= Nil

(* "Wait allows servers to check if the director is blocking": a Wait never  *)
(* ends in a panic of the WaitGroup.                                         *)
WaitNeverPanics == crash /= "reuse"

(* A call of Resume lets every server go that waits when it is made, unless  *)
(* the process has panicked.                                                 *)
ResumeReleases ==
  \A c \in Controllers, s \in Servers :
    (pc[c] = "resume" /\ srv[s] = "waiting") ~> (srv[s] /= "waiting" \/ crash /= "none")

(* The gate these fields implement: a call of Pause takes effect when the    *)
(* counter goes up, one of Resume when it goes down.                         *)
OpOf(l) ==
  CASE l \in {"pause", "adding"} -> "pause"
    [] l \in {"resume", "resumeDo", "releasing"} -> "resume"
    [] OTHER -> "none"

G == INSTANCE Gate WITH
       paused <- count = 1,
       held   <- {s \in Servers : srv[s] = "waiting"},
       op     <- [c \in Controllers |-> OpOf(pc[c])]

(* Pause, Resume and Wait implement the gate when one goroutine pauses and   *)
(* resumes.                                                                  *)
ImplementsGate == G!Spec
=============================================================================
