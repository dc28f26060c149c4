-------------------------- MODULE PauseGate_proofs --------------------------
(***************************************************************************)
(* Proofs about PauseGate, for any set of controllers and servers and any  *)
(* number of rounds.                                                       *)
(***************************************************************************)
EXTENDS PauseGate, TLAPS

(* The initial state satisfies the inductive invariant. *)
LEMMA InitIInv == Init => IInv
BY RoundsAssumption
DEF Init, IInv, TypeOK, RoundsInOrder, OneInside, CountOfRound, NobodyLeftWaiting,
    Rounds, Nil, OnceState, Adding, Releasing

(* A controller that moves without entering or leaving the function of a    *)
(* Once, and at most sets resumer to nil, keeps it.                         *)
LEMMA OutsideIInv ==
  ASSUME IInv,
         NEW c \in Controllers, ~Adding(c), ~Releasing(c),
         NEW l \in {"idle", "pause", "resume", "resumeDo", "clearing"}, Goto(c, l),
         resumer' \in {resumer, Nil}, crash' \in {crash, "nil"},
         UNCHANGED <<count, halter, hOnce, rOnce, mine, srv>>
  PROVE  IInv'
<1> USE DEF IInv
<1>1. \A d \in Controllers : (Adding(d)' <=> Adding(d)) /\ (Releasing(d)' <=> Releasing(d))
  BY DEF TypeOK, Goto, Adding, Releasing
<1>2. \A d \in Controllers : Adding(d) \/ Releasing(d) => pc'[d] = pc[d]
  BY DEF TypeOK, Goto, Adding, Releasing
<1>3. TypeOK'
  BY RoundsAssumption DEF TypeOK, Goto, Nil, Rounds
<1>4. RoundsInOrder'
  BY RoundsAssumption DEF TypeOK, RoundsInOrder, Nil, Rounds
<1>5. OneInside'
  BY <1>1 DEF OneInside
<1>6. CountOfRound'
  BY <1>1, <1>2 DEF CountOfRound
<1> QED
  BY <1>3, <1>4, <1>5, <1>6 DEF TypeOK, NobodyLeftWaiting

(* Every access to the fields, by whomever, keeps it. *)
LEMMA NextIInv == IInv /\ [Next]_vars => IInv'
<1> SUFFICES ASSUME IInv, [Next]_vars PROVE IInv'
  OBVIOUS
<1> USE DEF IInv
<1>1. ASSUME NEW c \in Controllers,
             PauseCall(c) \/ ResumeCall(c) \/ PauseSkip(c) \/ ResumeSkip(c) \/ ResumeCheck(c)
               \/ ResumeNil(c) \/ ResumeRan(c) \/ ResumeClear(c)
      PROVE  IInv'
  <2>1. ~Adding(c) /\ ~Releasing(c)
    BY <1>1 DEF PauseCall, ResumeCall, PauseSkip, ResumeSkip, ResumeCheck, ResumeNil,
                ResumeRan, ResumeClear, At, Adding, Releasing
  <2>2. \E l \in {"idle", "pause", "resume", "resumeDo", "clearing"} : Goto(c, l)
    BY <1>1 DEF PauseCall, ResumeCall, PauseSkip, ResumeSkip, ResumeCheck, ResumeNil,
                ResumeRan, ResumeClear, Goto, At, TypeOK
  <2>3. resumer' \in {resumer, Nil} /\ crash' \in {crash, "nil"}
    BY <1>1 DEF PauseCall, ResumeCall, PauseSkip, ResumeSkip, ResumeCheck, ResumeNil,
                ResumeRan, ResumeClear, NoResumer, Die
  <2>4. UNCHANGED <<count, halter, hOnce, rOnce, mine, srv>>
    BY <1>1 DEF PauseCall, ResumeCall, PauseSkip, ResumeSkip, ResumeCheck, ResumeNil,
                ResumeRan, ResumeClear
  <2> QED
    BY <2>1, <2>2, <2>3, <2>4, OutsideIInv
<1>2. ASSUME NEW c \in Controllers, PauseRun(c) PROVE IInv'
  <2>1. hOnce[halter] = "fresh" /\ rOnce[halter] = "fresh" /\ count = 0
    BY <1>2 DEF PauseRun, Runs, RoundsInOrder, CountOfRound, TypeOK, OnceState
  <2>2. \A d \in Controllers : ~Adding(d) /\ ~Releasing(d)
    BY <2>1 DEF OneInside
  <2>3. pc' = [pc EXCEPT ![c] = "adding"] /\ mine' = [mine EXCEPT ![c] = halter]
        /\ hOnce' = [hOnce EXCEPT ![halter] = "running"] /\ halter <= MaxRounds
        /\ UNCHANGED <<count, halter, resumer, rOnce, srv, crash>>
    BY <1>2 DEF PauseRun, Goto
  <2>4. TypeOK'
    BY <2>3, RoundsAssumption DEF TypeOK, Rounds, OnceState
  <2>5. RoundsInOrder'
    BY <2>1, <2>3, RoundsAssumption DEF TypeOK, RoundsInOrder, Rounds
  <2>6. OneInside'
    BY <2>2, <2>3 DEF TypeOK, OneInside, Adding, Releasing
  <2>7. CountOfRound'
    BY <2>1, <2>2, <2>3 DEF TypeOK, CountOfRound, Adding, Releasing
  <2> QED
    BY <2>3, <2>4, <2>5, <2>6, <2>7 DEF NobodyLeftWaiting
<1>3. ASSUME NEW c \in Controllers, PauseAdd(c) PROVE IInv'
  <2>1. pc[c] = "adding" /\ hOnce[halter] = "running" /\ mine[c] = halter
    BY <1>3 DEF PauseAdd, At, Adding, OneInside
  <2>2. \A d \in Controllers : d /= c => ~Adding(d) /\ ~Releasing(d)
    BY <2>1 DEF OneInside, Adding
  <2>3. rOnce[halter] = "fresh" /\ count = 0
    BY <2>1, <2>2 DEF TypeOK, RoundsInOrder, CountOfRound, OnceState, Adding
  <2>4. pc' = [pc EXCEPT ![c] = "arming"] /\ count' = 1
        /\ UNCHANGED <<halter, resumer, hOnce, rOnce, mine, srv, crash>>
    BY <1>3, <2>3 DEF PauseAdd, Goto
  <2>5. TypeOK'
    BY <2>4 DEF TypeOK
  <2>6. RoundsInOrder'
    BY <2>4 DEF RoundsInOrder
  <2>7. OneInside'
    BY <2>1, <2>2, <2>4 DEF TypeOK, OneInside, Adding, Releasing
  <2>8. CountOfRound'
    BY <2>1, <2>2, <2>3, <2>4 DEF TypeOK, CountOfRound, Adding, Releasing
  <2> QED
    BY <2>3, <2>4, <2>5, <2>6, <2>7, <2>8 DEF NobodyLeftWaiting
<1>4. ASSUME NEW c \in Controllers, PauseArm(c) PROVE IInv'
  <2>1. pc[c] = "arming" /\ hOnce[halter] = "running" /\ mine[c] = halter
    BY <1>4 DEF PauseArm, At, Adding, OneInside
  <2>2. \A d \in Controllers : d /= c => ~Adding(d) /\ ~Releasing(d)
    BY <2>1 DEF OneInside, Adding
  <2>3. rOnce[halter] = "fresh" /\ count = 1
    BY <2>1, <2>2 DEF TypeOK, RoundsInOrder, CountOfRound, OnceState, Adding
  <2>4. pc' = [pc EXCEPT ![c] = "idle"] /\ resumer' = halter
        /\ hOnce' = [hOnce EXCEPT ![halter] = "ran"]
        /\ UNCHANGED <<count, halter, rOnce, mine, srv, crash>>
    BY <1>4, <2>1 DEF PauseArm, Goto
  <2>5. TypeOK'
    BY <2>4, RoundsAssumption DEF TypeOK, OnceState, Rounds
  <2>6. RoundsInOrder'
    BY <2>1, <2>3, <2>4, RoundsAssumption DEF TypeOK, RoundsInOrder, Rounds
  <2>7. OneInside'
    BY <2>1, <2>2, <2>4 DEF TypeOK, OneInside, Adding, Releasing
  <2>8. CountOfRound'
    BY <2>1, <2>2, <2>3, <2>4 DEF TypeOK, CountOfRound
  <2> QED
    BY <2>3, <2>4, <2>5, <2>6, <2>7, <2>8 DEF NobodyLeftWaiting
<1>5. ASSUME NEW c \in Controllers, ResumeRun(c) PROVE IInv'
  <2>1. resumer = halter /\ hOnce[halter] = "ran" /\ rOnce[halter] = "fresh" /\ count = 1
    <3>1. resumer \in 1 .. halter /\ rOnce[resumer] = "fresh"
      BY <1>5, RoundsAssumption DEF ResumeRun, TypeOK, Runs, Nil, Rounds
    <3>2. resumer = halter
      BY <3>1, RoundsAssumption DEF TypeOK, RoundsInOrder, Rounds
    <3> QED
      BY <3>1, <3>2 DEF RoundsInOrder, CountOfRound
  <2>2. \A d \in Controllers : ~Adding(d) /\ ~Releasing(d)
    BY <2>1 DEF OneInside
  <2>3. pc' = [pc EXCEPT ![c] = "releasing"] /\ mine' = [mine EXCEPT ![c] = halter]
        /\ rOnce' = [rOnce EXCEPT ![halter] = "running"]
        /\ UNCHANGED <<count, halter, resumer, hOnce, srv, crash>>
    BY <1>5, <2>1 DEF ResumeRun, Goto
  <2>4. TypeOK'
    BY <2>3, RoundsAssumption DEF TypeOK, Rounds, OnceState
  <2>5. RoundsInOrder'
    BY <2>1, <2>3, RoundsAssumption DEF TypeOK, RoundsInOrder, Rounds
  <2>6. OneInside'
    BY <2>2, <2>3 DEF TypeOK, OneInside, Adding, Releasing
  <2>7. CountOfRound'
    BY <2>1, <2>2, <2>3 DEF TypeOK, CountOfRound, Adding, Releasing
  <2> QED
    BY <2>3, <2>4, <2>5, <2>6, <2>7 DEF NobodyLeftWaiting
<1>6. ASSUME NEW c \in Controllers, ResumeRelease(c) PROVE IInv'
  <2>1. pc[c] = "releasing" /\ rOnce[halter] = "running" /\ mine[c] = halter
    BY <1>6 DEF ResumeRelease, At, Releasing, OneInside
  <2>2. \A d \in Controllers : d /= c => ~Adding(d) /\ ~Releasing(d)
    BY <2>1 DEF OneInside, Releasing
  <2>3. hOnce[halter] = "ran" /\ count = 1
    BY <2>1, <2>2 DEF RoundsInOrder, CountOfRound
  <2>4. pc' = [pc EXCEPT ![c] = "rearming"] /\ count' = 0
        /\ UNCHANGED <<halter, resumer, hOnce, rOnce, mine, crash>>
    BY <1>6, <2>3 DEF ResumeRelease, Goto
  <2>5. srv' \in [Servers -> {"idle", "waiting", "woken"}]
    BY <1>6 DEF ResumeRelease, TypeOK
  <2>10. NobodyLeftWaiting'
    BY <1>6, <2>3 DEF ResumeRelease, NobodyLeftWaiting, TypeOK
  <2>6. TypeOK'
    BY <2>4, <2>5 DEF TypeOK
  <2>7. RoundsInOrder'
    BY <2>4 DEF RoundsInOrder
  <2>8. OneInside'
    BY <2>1, <2>2, <2>4 DEF TypeOK, OneInside, Adding, Releasing
  <2>9. CountOfRound'
    BY <2>1, <2>2, <2>3, <2>4 DEF TypeOK, CountOfRound, Adding, Releasing
  <2> QED
    BY <2>4, <2>6, <2>7, <2>8, <2>9, <2>10
<1>7. ASSUME NEW c \in Controllers, ResumeRearm(c) PROVE IInv'
  <2>1. pc[c] = "rearming" /\ rOnce[halter] = "running" /\ mine[c] = halter
    BY <1>7 DEF ResumeRearm, At, Releasing, OneInside
  <2>2. \A d \in Controllers : d /= c => ~Adding(d) /\ ~Releasing(d)
    BY <2>1 DEF OneInside, Releasing
  <2>3. hOnce[halter] = "ran" /\ count = 0 /\ halter <= MaxRounds
    BY <2>1, <2>2 DEF RoundsInOrder, CountOfRound
  <2>4. pc' = [pc EXCEPT ![c] = "clearing"] /\ halter' = halter + 1
        /\ rOnce' = [rOnce EXCEPT ![halter] = "ran"]
        /\ UNCHANGED <<count, resumer, hOnce, mine, srv, crash>>
    BY <1>7, <2>1 DEF ResumeRearm, Goto, FreshHalter
  <2>5. hOnce'[halter'] = "fresh" /\ rOnce'[halter'] = "fresh"
    BY <2>3, <2>4, RoundsAssumption DEF TypeOK, RoundsInOrder, Rounds
  <2>6. TypeOK'
    BY <2>3, <2>4, RoundsAssumption DEF TypeOK, Rounds, OnceState
  <2>7. RoundsInOrder'
    BY <2>3, <2>4, <2>5, RoundsAssumption DEF TypeOK, RoundsInOrder, Rounds
  <2>8. OneInside'
    BY <2>1, <2>2, <2>4 DEF TypeOK, OneInside, Adding, Releasing
  <2>9. CountOfRound'
    BY <2>3, <2>4, <2>5 DEF CountOfRound
  <2> QED
    BY <2>4, <2>6, <2>7, <2>8, <2>9 DEF NobodyLeftWaiting
<1>8. ASSUME NEW s \in Servers, WaitBlock(s) \/ WaitReturn(s) PROVE IInv'
  <2>1. UNCHANGED <<count, halter, resumer, hOnce, rOnce, pc, mine>> /\ crash' \in {crash, "reuse"}
    BY <1>8 DEF WaitBlock, WaitReturn, Die
  <2>2. TypeOK'
    BY <1>8, <2>1 DEF WaitBlock, WaitReturn, TypeOK, Die
  <2>3. NobodyLeftWaiting'
    BY <1>8 DEF WaitBlock, WaitReturn, NobodyLeftWaiting, TypeOK
  <2> QED
    BY <2>1, <2>2, <2>3 DEF RoundsInOrder, OneInside, CountOfRound, Adding, Releasing
<1>9. CASE UNCHANGED vars
  BY <1>9 DEF vars, TypeOK, RoundsInOrder, OneInside, CountOfRound, NobodyLeftWaiting,
              Adding, Releasing
<1> QED
  <2> HIDE DEF IInv
  <2> QED
    BY <1>1, <1>2, <1>3, <1>4, <1>5, <1>6, <1>7, <1>8, <1>9
    DEF Next, PauseStep, ResumeStep

(* The inductive invariant: the Onces are used up one round at a time.      *)
THEOREM SpecIInv == Spec => []IInv
<1>1. IInv /\ [Next]_vars => IInv'
  BY NextIInv
<1> QED
  BY InitIInv, <1>1, PTL DEF Spec

(* Every variable of Pause, Resume and Wait keeps to its range.             *)
THEOREM SpecTypeOK == Spec => []TypeOK
<1>1. IInv => TypeOK
  BY DEF IInv
<1> QED
  BY SpecIInv, <1>1, PTL

(* However many goroutines call Pause and Resume at once, the WaitGroup's   *)
(* counter stays at zero or one and no Done takes it below zero.            *)
THEOREM SpecAddAndDonePair == Spec => []AddAndDonePair
<1>1. IInv => AddAndDonePair
  BY DEF IInv, TypeOK, CountOfRound, RoundsInOrder, OnceState, AddAndDonePair
<1> QED
  BY SpecIInv, <1>1, PTL

-----------------------------------------------------------------------------
(* One controller. *)

OneController == \E c \in Controllers : Controllers = {c}

(* What else holds when only one goroutine pauses and resumes: it finds     *)
(* resumer as it left it, and between calls the counter follows it.         *)
AloneAt(c) ==
  /\ pc[c] \in {"idle", "pause", "resume"} =>
       /\ resumer \in {Nil, halter}
       /\ count = 1 <=> resumer /= Nil
       /\ count = 1 <=> hOnce[halter] = "ran"
  /\ pc[c] \in {"adding", "arming"} => resumer = Nil
  /\ pc[c] \in {"resumeDo", "releasing", "rearming"} => resumer = halter
  /\ pc[c] = "resumeDo" => count = 1 /\ rOnce[halter] = "fresh"
  /\ pc[c] = "clearing" => count = 0 /\ hOnce[halter] = "fresh"
  /\ crash /= "nil"

Alone == \A c \in Controllers : AloneAt(c)

LInv == IInv /\ Alone

LEMMA InitLInv == Init => LInv
<1> SUFFICES ASSUME Init PROVE LInv
  OBVIOUS
<1>1. IInv
  BY InitIInv
<1>2. hOnce[halter] = "fresh"
  BY RoundsAssumption DEF Init, Rounds
<1>3. ASSUME NEW c \in Controllers PROVE AloneAt(c)
  <2>1. pc[c] = "idle" /\ count = 0 /\ resumer = Nil /\ crash /= "nil"
    BY DEF Init
  <2>2. count /= 1
    BY <2>1
  <2> QED
    BY <1>2, <2>1, <2>2 DEF AloneAt
<1> QED
  BY <1>1, <1>3 DEF LInv, Alone

LEMMA NextLInv == ASSUME OneController, LInv, [Next]_vars PROVE LInv'
<1> PICK c \in Controllers : Controllers = {c}
  BY DEF OneController
<1>1. IInv'
  BY NextIInv DEF LInv
<1>2. IInv /\ AloneAt(c)
  BY DEF LInv, Alone
<1> SUFFICES AloneAt(c)'
  BY <1>1 DEF LInv, Alone
<1>3. CASE PauseCall(c) \/ ResumeCall(c) \/ PauseSkip(c) \/ ResumeSkip(c)
  <2>1. pc[c] \in {"idle", "pause", "resume"} /\ pc'[c] \in {"idle", "pause", "resume"}
        /\ UNCHANGED <<count, halter, resumer, hOnce, crash>>
    BY <1>2, <1>3 DEF PauseCall, ResumeCall, PauseSkip, ResumeSkip, At, Goto, IInv, TypeOK
  <2> QED
    BY <1>2, <2>1 DEF AloneAt
<1>4. CASE PauseRun(c)
  <2>1. hOnce[halter] /= "ran" /\ pc[c] = "pause" /\ pc'[c] = "adding"
        /\ UNCHANGED <<count, halter, resumer, crash>>
    BY <1>2, <1>4 DEF PauseRun, Runs, At, Goto, IInv, TypeOK
  <2> QED
    BY <1>2, <2>1 DEF AloneAt
<1>5. CASE PauseAdd(c)
  <2>1. pc[c] = "adding" /\ pc'[c] = "arming" /\ UNCHANGED <<halter, resumer, crash>>
    BY <1>2, <1>5 DEF PauseAdd, At, Goto, IInv, TypeOK
  <2> QED
    BY <1>2, <2>1 DEF AloneAt
<1>6. CASE PauseArm(c)
  <2>1. pc[c] = "arming" /\ pc'[c] = "idle" /\ mine[c] = halter /\ UNCHANGED <<count, halter, crash>>
    BY <1>2, <1>6 DEF PauseArm, At, Goto, IInv, TypeOK, OneInside, Adding
  <2>2. resumer' = halter' /\ hOnce'[halter'] = "ran"
    BY <1>6, <2>1, <1>2 DEF PauseArm, IInv, TypeOK
  <2>3. count' = 1
    BY <1>2, <2>1 DEF IInv, OneInside, CountOfRound, Adding
  <2>4. resumer' /= Nil
    BY <1>2, <2>1, <2>2, RoundsAssumption DEF IInv, TypeOK, Rounds, Nil
  <2> QED
    BY <1>2, <2>1, <2>2, <2>3, <2>4 DEF AloneAt
<1>7. CASE ResumeCheck(c)
  <2>1. pc[c] = "resume" /\ pc'[c] = "resumeDo" /\ resumer /= Nil
        /\ UNCHANGED <<count, halter, resumer, rOnce, crash>>
    BY <1>2, <1>7 DEF ResumeCheck, At, Goto, IInv, TypeOK, NothingToResume
  <2>2. resumer = halter /\ count = 1
    BY <1>2, <2>1 DEF AloneAt
  <2>3. rOnce[halter] = "fresh"
    BY <1>2, <2>1 DEF IInv, TypeOK, OnceState, RoundsInOrder, CountOfRound, Releasing
  <2> QED
    BY <1>2, <2>1, <2>2, <2>3 DEF AloneAt
<1>8. CASE ResumeNil(c) \/ ResumeRan(c)
  <2>1. pc[c] = "resumeDo" /\ (resumer = Nil \/ rOnce[resumer] = "ran")
    BY <1>8 DEF ResumeNil, ResumeRan, At, Skips
  <2>2. resumer = halter /\ rOnce[halter] = "fresh" /\ halter /= Nil
    BY <1>2, <2>1, RoundsAssumption DEF AloneAt, IInv, TypeOK, Rounds, Nil
  <2> QED
    BY <2>1, <2>2
<1>9. CASE ResumeRun(c) \/ ResumeRelease(c)
  <2>1. pc[c] \in {"resumeDo", "releasing"} /\ pc'[c] \in {"releasing", "rearming"}
        /\ UNCHANGED <<halter, resumer>> /\ crash' \in {crash, "negative"}
    BY <1>2, <1>9 DEF ResumeRun, ResumeRelease, At, Goto, IInv, TypeOK
  <2> QED
    BY <1>2, <2>1 DEF AloneAt
<1>10. CASE ResumeRearm(c)
  <2>1. pc[c] = "rearming" /\ pc'[c] = "clearing" /\ mine[c] = halter /\ halter' = halter + 1
        /\ UNCHANGED <<count, hOnce, crash>>
    BY <1>2, <1>10 DEF ResumeRearm, At, Goto, IInv, TypeOK, OneInside, Releasing, FreshHalter
  <2>2. count = 0
    BY <1>2, <2>1 DEF IInv, OneInside, CountOfRound, Releasing
  <2>3. hOnce[halter'] = "fresh"
    BY <1>1, <1>2, <2>1, RoundsAssumption DEF IInv, TypeOK, RoundsInOrder, Rounds
  <2> QED
    BY <1>2, <2>1, <2>2, <2>3 DEF AloneAt
<1>11. CASE ResumeClear(c)
  <2>1. pc[c] = "clearing" /\ pc'[c] = "idle" /\ resumer' = Nil
        /\ UNCHANGED <<count, halter, hOnce, crash>>
    BY <1>2, <1>11 DEF ResumeClear, At, Goto, IInv, TypeOK, NoResumer
  <2>2. count' /= 1 /\ hOnce'[halter'] /= "ran"
    BY <1>2, <2>1 DEF AloneAt
  <2> QED
    BY <1>2, <2>1, <2>2 DEF AloneAt
<1>12. CASE (\E s \in Servers : WaitBlock(s) \/ WaitReturn(s)) \/ UNCHANGED vars
  <2>1. UNCHANGED <<count, halter, resumer, hOnce, rOnce, pc>> /\ crash' \in {crash, "reuse"}
    BY <1>12 DEF WaitBlock, WaitReturn, Die, vars
  <2> QED
    BY <1>2, <2>1 DEF AloneAt
<1> QED
  BY <1>3, <1>4, <1>5, <1>6, <1>7, <1>8, <1>9, <1>10, <1>11, <1>12
  DEF Next, PauseStep, ResumeStep

LEMMA SpecLInv == ASSUME OneController PROVE Spec => []LInv
<1>1. LInv /\ [Next]_vars => LInv'
  BY NextLInv
<1> QED
  BY InitLInv, <1>1, PTL DEF Spec

(* With one goroutine pausing and resuming, a shut gate can be resumed and   *)
(* an open one paused whenever that goroutine is between calls.              *)
THEOREM OneResumable == ASSUME OneController PROVE Spec => []PauseIsResumable
<1>1. LInv => PauseIsResumable
  BY DEF LInv, Alone, AloneAt, OneController, PauseIsResumable, Quiet
<1> QED
  BY SpecLInv, <1>1, PTL

(* Every step of the code is a step of the gate or leaves the gate alone.    *)
LEMMA StepIsGateStep ==
  ASSUME OneController, LInv, LInv', [Next]_vars
  PROVE  [G!Next]_(G!vars)
<1> DEFINE held == {s \in Servers : srv[s] = "waiting"}
           op == [d \in Controllers |-> OpOf(pc[d])]
<1> PICK c \in Controllers : Controllers = {c}
  BY DEF OneController
<1>1. IInv /\ AloneAt(c) /\ IInv'
  BY DEF LInv, Alone
<1>2. count \in {0, 1} /\ count' \in {0, 1}
  BY <1>1 DEF IInv, TypeOK, CountOfRound, RoundsInOrder, OnceState
<1>3. count = 0 => held = {}
  BY <1>1 DEF IInv, NobodyLeftWaiting
<1>4. ASSUME UNCHANGED <<count = 1, held, OpOf(pc[c])>> PROVE UNCHANGED G!vars
  <2>1. UNCHANGED op
    BY <1>4
  <2> QED
    BY <1>4, <2>1 DEF G!vars
<1>5. CASE PauseCall(c) \/ ResumeCall(c)
  <2>1. PICK o \in {"pause", "resume"} : OpOf(pc[c]) = "none" /\ OpOf(pc'[c]) = o
    BY <1>1, <1>5 DEF PauseCall, ResumeCall, At, Goto, OpOf, IInv, TypeOK
  <2>2. op[c] = "none" /\ op' = [op EXCEPT ![c] = o]
    BY <2>1
  <2>3. UNCHANGED <<count = 1, held>>
    BY <1>5 DEF PauseCall, ResumeCall
  <2>4. G!Call(c, o)
    BY <2>2, <2>3 DEF G!Call
  <2> QED
    BY <2>4 DEF G!Next
<1>6. CASE PauseSkip(c) \/ PauseAdd(c)
  <2>1. OpOf(pc[c]) = "pause" /\ OpOf(pc'[c]) = "none"
    BY <1>1, <1>6 DEF PauseSkip, PauseAdd, At, Goto, OpOf, IInv, TypeOK
  <2>2. op[c] = "pause" /\ op' = [op EXCEPT ![c] = "none"]
    BY <2>1
  <2>3. count' = 1
    <3>1. CASE PauseSkip(c)
      BY <1>1, <3>1 DEF PauseSkip, Skips, At, AloneAt
    <3>2. CASE PauseAdd(c)
      BY <1>2, <3>2 DEF PauseAdd
    <3> QED
      BY <1>6, <3>1, <3>2
  <2>4. UNCHANGED held
    BY <1>6 DEF PauseSkip, PauseAdd
  <2>5. G!Pause(c)
    BY <2>2, <2>3, <2>4 DEF G!Pause
  <2> QED
    BY <2>5 DEF G!Next
<1>7. CASE ResumeSkip(c) \/ ResumeRelease(c)
  <2>1. OpOf(pc[c]) = "resume" /\ OpOf(pc'[c]) = "none"
    BY <1>1, <1>7 DEF ResumeSkip, ResumeRelease, At, Goto, OpOf, IInv, TypeOK
  <2>2. op[c] = "resume" /\ op' = [op EXCEPT ![c] = "none"]
    BY <2>1
  <2>3. count' = 0
    <3>1. CASE ResumeSkip(c)
      BY <1>1, <1>2, <3>1 DEF ResumeSkip, NothingToResume, At, AloneAt
    <3>2. CASE ResumeRelease(c)
      BY <1>2, <3>2 DEF ResumeRelease
    <3> QED
      BY <1>7, <3>1, <3>2
  <2>4. held' = {}
    BY <1>1, <2>3 DEF IInv, NobodyLeftWaiting
  <2>5. G!Resume(c)
    BY <2>2, <2>3, <2>4 DEF G!Resume
  <2> QED
    BY <2>5 DEF G!Next
<1>8. CASE PauseRun(c) \/ PauseArm(c) \/ ResumeCheck(c) \/ ResumeRun(c) \/ ResumeRearm(c) \/ ResumeClear(c)
  <2>1. OpOf(pc'[c]) = OpOf(pc[c])
    BY <1>1, <1>8 DEF PauseRun, PauseArm, ResumeCheck, ResumeRun, ResumeRearm, ResumeClear,
                      At, Goto, OpOf, IInv, TypeOK
  <2>2. UNCHANGED <<count = 1, held>>
    BY <1>8 DEF PauseRun, PauseArm, ResumeCheck, ResumeRun, ResumeRearm, ResumeClear
  <2> QED
    BY <1>4, <2>1, <2>2
<1>9. CASE ResumeNil(c) \/ ResumeRan(c)
  <2>1. pc[c] = "resumeDo" /\ (resumer = Nil \/ rOnce[resumer] = "ran")
    BY <1>9 DEF ResumeNil, ResumeRan, At, Skips
  <2>2. resumer = halter /\ rOnce[halter] = "fresh" /\ halter /= Nil
    BY <1>1, <2>1, RoundsAssumption DEF AloneAt, IInv, TypeOK, Rounds, Nil
  <2> QED
    BY <2>1, <2>2
<1>10. ASSUME NEW s \in Servers, WaitBlock(s) PROVE G!Next
  <2>1. UNCHANGED <<count = 1, op>>
    BY <1>10 DEF WaitBlock
  <2>2. count = 1 /\ s \notin held
    BY <1>2, <1>10 DEF WaitBlock
  <2>3. held' = held \cup {s}
    BY <1>1, <1>10 DEF WaitBlock, IInv, TypeOK
  <2>4. G!Arrive(s)
    BY <2>1, <2>2, <2>3 DEF G!Arrive
  <2> QED
    BY <2>4 DEF G!Next
<1>11. ASSUME NEW s \in Servers, WaitReturn(s) PROVE UNCHANGED G!vars
  <2>1. UNCHANGED <<count = 1, OpOf(pc[c])>>
    BY <1>11 DEF WaitReturn
  <2>2. UNCHANGED held
    BY <1>1, <1>11 DEF WaitReturn, IInv, TypeOK
  <2> QED
    BY <1>4, <2>1, <2>2
<1>12. CASE UNCHANGED vars
  BY <1>4, <1>12 DEF vars
<1> QED
  BY <1>5, <1>6, <1>7, <1>8, <1>9, <1>10, <1>11, <1>12
  DEF Next, PauseStep, ResumeStep

(* With one goroutine pausing and resuming, Pause, Resume and Wait implement *)
(* the gate.                                                                 *)
THEOREM OneImplementsGate == ASSUME OneController PROVE Spec => ImplementsGate
<1>1. Init => G!Init
  BY DEF Init, G!Init, OpOf
<1>2. LInv /\ LInv' /\ [Next]_vars => [G!Next]_(G!vars)
  BY StepIsGateStep
<1> QED
  BY <1>1, <1>2, SpecLInv, PTL DEF Spec, ImplementsGate, G!Spec
=============================================================================
