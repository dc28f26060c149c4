------------------------- MODULE ProxyStream_proofs -------------------------
(***************************************************************************)
(* Proofs about ProxyStream, for any finite number of AddWorker and        *)
(* RemoveWorker calls and any sets of jobs, closers and controllers.       *)
(***************************************************************************)
EXTENDS ProxyStream, FiniteSetTheorems, TLAPS

LEMMA InitTypeOK == Init => TypeOK
<1> SUFFICES ASSUME Init PROVE TypeOK
  OBVIOUS
<1>1. closed \in BOOLEAN /\ do \in BOOLEAN /\ crash \in BOOLEAN /\ paused \in BOOLEAN
  BY DEF Init, Gate!Init
<1>2. held \subseteq Jobs /\ op \in [Controllers -> {"none", "pause", "resume"}]
  BY DEF Init, Gate!Init
<1> QED
  BY <1>1, <1>2 DEF Init, TypeOK, Gate!TypeOK

LEMMA NextTypeOK == TypeOK /\ [Next]_vars => TypeOK'
<1> SUFFICES ASSUME TypeOK, [Next]_vars PROVE TypeOK'
  OBVIOUS
<1> USE DEF TypeOK, pool, work, final, gate, Step
<1>1. ASSUME NEW w \in Workers, AddWorker(w) \/ HandleStreams(w) \/ WorkerClosed(w)
      PROVE  TypeOK'
  BY <1>1 DEF AddWorker, HandleStreams, WorkerClosed, Gate!TypeOK
<1>2. ASSUME NEW r \in Removers, RemoveWorker(r) \/ RemoveWorkerDone(r)
      PROVE  TypeOK'
  BY <1>2 DEF RemoveWorker, RemoveWorkerDone, CountedOff, Gate!TypeOK
<1>3. ASSUME NEW w \in Workers, NEW r \in Removers, EndWorker(w, r)
      PROVE  TypeOK'
  BY <1>3 DEF EndWorker, Gate!TypeOK
<1>4. ASSUME NEW j \in Jobs, NEW complete \in BOOLEAN, Stream(j, complete)
      PROVE  TypeOK'
  BY <1>4 DEF Stream, Gate!TypeOK
<1>5. ASSUME NEW j \in Jobs,
             Wait(j) \/ Process(j) \/ \E w \in Workers : TakeWork(w, j)
      PROVE  TypeOK'
  BY <1>5 DEF Wait, Process, TakeWork, Gate!TypeOK, Gate!Arrive
<1>6. ASSUME NEW j \in Jobs, NEW failed \in BOOLEAN, Processed(j, failed)
      PROVE  TypeOK'
  BY <1>6 DEF Processed, Gate!TypeOK
<1>7. ASSUME NEW j \in Jobs, QueueError(j) \/ ReceiveError(j)
      PROVE  TypeOK'
  BY <1>7 DEF QueueError, ReceiveError, Room, Gate!TypeOK
<1>8. CASE ErrorHandled \/ ManagementClosed
  BY <1>8 DEF ErrorHandled, ManagementClosed, AfterError, Gate!TypeOK
<1>9. ASSUME NEW k \in Closers, Close(k) \/ Closed(k)
      PROVE  TypeOK'
  BY <1>9 DEF Close, Closed, Gate!TypeOK
<1>10. ASSUME NEW c \in Controllers, PauseOrResume(c)
       PROVE  TypeOK'
  <2>1. CASE \E o \in {"pause", "resume"} : Gate!Call(c, o)
    BY <1>10, <2>1 DEF PauseOrResume, Gate!TypeOK, Gate!Call
  <2>2. CASE Gate!Pause(c) \/ Gate!Resume(c)
    <3>1. paused' \in BOOLEAN
      BY <2>2 DEF Gate!Pause, Gate!Resume
    <3>2. held' \subseteq Jobs /\ op' \in [Controllers -> {"none", "pause", "resume"}]
      BY <2>2 DEF Gate!Pause, Gate!Resume, Gate!TypeOK
    <3>3. UNCHANGED <<pool, work, final>>
      BY <1>10 DEF PauseOrResume
    <3> QED
      BY <3>1, <3>2, <3>3 DEF Gate!TypeOK
  <2> QED
    BY <1>10, <2>1, <2>2 DEF PauseOrResume
<1>11. CASE UNCHANGED vars
  BY <1>11 DEF vars, Gate!TypeOK
<1> HIDE DEF TypeOK
<1> QED
  BY <1>1, <1>2, <1>3, <1>4, <1>5, <1>6, <1>7, <1>8, <1>9, <1>10, <1>11 DEF Next

(* Every variable of the stream keeps to its range; the channel errors     *)
(* holds one error at most.                                                *)
THEOREM SpecTypeOK == Spec => []TypeOK
<1>1. TypeOK /\ [Next]_vars => TypeOK'
  BY NextTypeOK
<1> QED
  BY InitTypeOK, <1>1, PTL DEF Spec

-----------------------------------------------------------------------------
(* The counter. *)

Called  == {w \in Workers : worker[w] /= "none"}
Gone    == {w \in Workers : worker[w] = "gone"}
Used    == {r \in Removers : remover[r] \in {"sent", "done"}}
Removed == {r \in Removers : remover[r] = "done"}

(* The counter is the calls of AddWorker less the calls of RemoveWorker    *)
(* that have returned, and each worker that is gone has cost a token.      *)
CInv ==
  /\ TypeOK
  /\ workers = Cardinality(Called) - Cardinality(Removed)
  /\ ~closed => Cardinality(Gone) <= Cardinality(Used)

LEMMA Finite ==
  /\ IsFiniteSet(Called) /\ IsFiniteSet(Gone) /\ IsFiniteSet(Used) /\ IsFiniteSet(Removed)
  /\ IsFiniteSet(Serving) /\ IsFiniteSet(Leaving)
  /\ Cardinality(Called) \in Nat /\ Cardinality(Gone) \in Nat
  /\ Cardinality(Used) \in Nat /\ Cardinality(Removed) \in Nat
  /\ Cardinality(Serving) \in Nat /\ Cardinality(Leaving) \in Nat
<1>1. IsFiniteSet(Called) /\ IsFiniteSet(Gone) /\ IsFiniteSet(Serving)
  BY WorkersAssumption, FS_Subset DEF Called, Gone, Serving
<1>2. IsFiniteSet(Used) /\ IsFiniteSet(Removed) /\ IsFiniteSet(Leaving)
  BY WorkersAssumption, FS_Subset DEF Used, Removed, Leaving
<1> QED
  BY <1>1, <1>2, FS_CardinalityType

LEMMA InitCInv == Init => CInv
<1> SUFFICES ASSUME Init PROVE CInv
  OBVIOUS
<1>1. Called = {Boot} /\ Gone = {} /\ Used = {} /\ Removed = {} /\ workers = 1
  BY WorkersAssumption DEF Init, Called, Gone, Used, Removed
<1>2. Cardinality({}) = 0 /\ Cardinality({Boot}) = 1
  BY FS_EmptySet, FS_Singleton
<1> QED
  BY <1>1, <1>2, InitTypeOK DEF CInv

LEMMA NextCInv == CInv /\ [Next]_vars => CInv'
<1> SUFFICES ASSUME CInv, [Next]_vars PROVE CInv'
  OBVIOUS
<1>1. TypeOK /\ TypeOK'
  BY NextTypeOK DEF CInv
<1>2. ASSUME NEW w \in Workers, AddWorker(w) PROVE CInv'
  <2>1. Called' = Called \cup {w} /\ w \notin Called
    BY <1>1, <1>2 DEF AddWorker, Called, TypeOK
  <2>2. Gone' = Gone
    BY <1>1, <1>2 DEF AddWorker, Gone, TypeOK
  <2>3. UNCHANGED <<Used, Removed, closed>> /\ workers' = workers + 1
    BY <1>2 DEF AddWorker, Used, Removed, final
  <2>4. Cardinality(Called') = Cardinality(Called) + 1
    BY <2>1, Finite, FS_AddElement
  <2> QED
    BY <1>1, <2>2, <2>3, <2>4, Finite DEF CInv
<1>3. ASSUME NEW w \in Workers, HandleStreams(w) PROVE CInv'
  <2>1. UNCHANGED <<Called, Gone>>
    BY <1>1, <1>3 DEF HandleStreams, Called, Gone, TypeOK
  <2>2. UNCHANGED <<Used, Removed, closed, workers>>
    BY <1>3 DEF HandleStreams, Used, Removed, final
  <2> QED
    BY <1>1, <2>1, <2>2 DEF CInv
<1>4. ASSUME NEW w \in Workers, WorkerClosed(w) PROVE CInv'
  <2>1. UNCHANGED Called
    BY <1>1, <1>4 DEF WorkerClosed, Called, TypeOK
  <2>2. UNCHANGED <<Removed, workers>> /\ closed'
    BY <1>4 DEF WorkerClosed, StopSeen, Removed, final
  <2> QED
    BY <1>1, <2>1, <2>2 DEF CInv
<1>5. ASSUME NEW r \in Removers, RemoveWorker(r) PROVE CInv'
  <2>1. UNCHANGED <<Used, Removed>>
    BY <1>1, <1>5 DEF RemoveWorker, Used, Removed, TypeOK
  <2>2. UNCHANGED <<Called, Gone, closed, workers>>
    BY <1>5 DEF RemoveWorker, Called, Gone, final
  <2> QED
    BY <1>1, <2>1, <2>2 DEF CInv
<1>6. ASSUME NEW w \in Workers, NEW r \in Removers, EndWorker(w, r) PROVE CInv'
  <2>1. Used' = Used \cup {r} /\ r \notin Used /\ UNCHANGED <<Called, Removed>>
    BY <1>1, <1>6 DEF EndWorker, Used, Called, Removed, TypeOK
  <2>2. Gone' = Gone \/ Gone' = Gone \cup {w}
    BY <1>1, <1>6 DEF EndWorker, Gone, TypeOK
  <2>3. UNCHANGED <<closed, workers>>
    BY <1>6 DEF EndWorker, final
  <2>4. Cardinality(Used') = Cardinality(Used) + 1
    BY <2>1, Finite, FS_AddElement
  <2>5. Cardinality(Gone \cup {w}) \in {Cardinality(Gone), Cardinality(Gone) + 1}
    BY Finite, FS_AddElement
  <2>6. Cardinality(Gone') \in {Cardinality(Gone), Cardinality(Gone) + 1}
    BY <2>2, <2>5
  <2> QED
    BY <1>1, <2>1, <2>3, <2>4, <2>6, Finite DEF CInv
<1>7. ASSUME NEW r \in Removers, RemoveWorkerDone(r) PROVE CInv'
  <2>1. Removed' = Removed \cup {r} /\ r \notin Removed /\ UNCHANGED Used
    BY <1>1, <1>7 DEF RemoveWorkerDone, Removed, Used, TypeOK
  <2>2. UNCHANGED <<Called, Gone, closed>> /\ workers' = workers - 1
    BY <1>7 DEF RemoveWorkerDone, CountedOff, Called, Gone, final
  <2>3. Cardinality(Removed') = Cardinality(Removed) + 1
    BY <2>1, Finite, FS_AddElement
  <2> QED
    BY <1>1, <2>1, <2>2, <2>3, Finite DEF CInv
<1>8. ASSUME UNCHANGED pool, closed' \/ UNCHANGED closed PROVE CInv'
  <2>1. UNCHANGED <<Called, Gone, Used, Removed, workers>>
    BY <1>8 DEF pool, Called, Gone, Used, Removed
  <2> QED
    BY <1>1, <1>8, <2>1 DEF CInv
<1>9. CASE \E k \in Closers : Close(k) \/ Closed(k)
  BY <1>8, <1>9 DEF Close, Closed
<1>10. CASE ErrorHandled \/ ManagementClosed \/ \E j \in Jobs : QueueError(j) \/ ReceiveError(j)
  BY <1>8, <1>10 DEF ErrorHandled, ManagementClosed, QueueError, ReceiveError, final
<1>11. CASE \E j \in Jobs, b \in BOOLEAN : Stream(j, b) \/ Processed(j, b)
  BY <1>8, <1>11 DEF Stream, Processed, final
<1>12. CASE \E j \in Jobs : Wait(j) \/ Process(j) \/ \E w \in Workers : TakeWork(w, j)
  BY <1>8, <1>12 DEF Wait, Process, TakeWork, final
<1>13. CASE \E c \in Controllers : PauseOrResume(c)
  BY <1>8, <1>13 DEF PauseOrResume, final
<1>14. CASE UNCHANGED vars
  BY <1>8, <1>14 DEF vars, final
<1> QED
  BY <1>2, <1>3, <1>4, <1>5, <1>6, <1>7, <1>9, <1>10, <1>11, <1>12, <1>13, <1>14
  DEF Next, Step

(* What the counter and the workers that are gone have to do with the      *)
(* workers that serve.                                                     *)
LEMMA CInvNotOverstated == CInv => WorkersNotOverstated
<1> SUFFICES ASSUME CInv, ~closed
             PROVE  workers <= Cardinality(Serving) + Cardinality(Leaving)
  BY DEF WorkersNotOverstated
<1>1. Called = Serving \cup Gone /\ Serving \cap Gone = {}
  BY DEF CInv, TypeOK, Called, Serving, Gone
<1>2. Used = Leaving \cup Removed /\ Leaving \cap Removed = {}
  BY DEF Used, Leaving, Removed
<1>0. Cardinality({}) = 0
  BY FS_EmptySet
<1>3. Cardinality(Called) = Cardinality(Serving) + Cardinality(Gone)
  <2>1. Cardinality(Serving \cup Gone)
          = Cardinality(Serving) + Cardinality(Gone) - Cardinality(Serving \cap Gone)
    BY Finite, FS_Union
  <2> QED
    BY <1>0, <1>1, <2>1, Finite
<1>4. Cardinality(Used) = Cardinality(Leaving) + Cardinality(Removed)
  <2>1. Cardinality(Leaving \cup Removed)
          = Cardinality(Leaving) + Cardinality(Removed) - Cardinality(Leaving \cap Removed)
    BY Finite, FS_Union
  <2> QED
    BY <1>0, <1>2, <2>1, Finite
<1> QED
  BY <1>3, <1>4, Finite DEF CInv

(* While the stream is open its counter never claims more workers than     *)
(* serve or are about to be counted off.                                   *)
THEOREM SpecWorkersNotOverstated == Spec => []WorkersNotOverstated
<1>1. CInv /\ [Next]_vars => CInv'
  BY NextCInv
<1> QED
  BY InitCInv, <1>1, CInvNotOverstated, PTL DEF Spec
=============================================================================
