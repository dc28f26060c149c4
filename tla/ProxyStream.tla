---------------------------- MODULE ProxyStream ----------------------------
(***************************************************************************)
(* proxies.ProxyStream: a pool of worker goroutines that take connection   *)
(* pairs ("jobs") off the unbuffered channel work and start the processor  *)
(* on each in a goroutine of its own.  A management goroutine starts the   *)
(* workers and hands reported errors to the error handler.  AddWorker and  *)
(* RemoveWorker change the size of the pool while it runs, Pause and       *)
(* Resume hold the processors back (module Gate), Close stops everything.  *)
(*                                                                         *)
(* A channel operation on an unbuffered channel is one action of sender    *)
(* and receiver.  A select with several ready cases takes any of them.     *)
(***************************************************************************)
EXTENDS Integers, FiniteSets

CONSTANTS
  Workers,          \* the calls of AddWorker, each with the worker it starts
  Boot,             \* the one NewProxyStream makes
  Removers,         \* the calls of RemoveWorker
  Jobs,             \* the calls of Stream
  Closers,          \* the calls of Close
  Controllers       \* the goroutines that pause and resume

ASSUME WorkersAssumption ==
  /\ IsFiniteSet(Workers) /\ Boot \in Workers
  /\ IsFiniteSet(Removers)

VARIABLES
  workers,          \* p.workers, the atomic counter
  worker,           \* where each AddWorker call and its worker is
  id,               \* the id each worker was given
  remover,          \* where each RemoveWorker call is
  token,            \* the id it has read
  job,              \* where each job is
  report,           \* where the error a job's processor reported is
  errors,           \* the jobs whose error is in the channel errors
  management,       \* what the management goroutine does
  closer,           \* where each Close call is
  closed,           \* p.closer is closed
  do,               \* p.do is not nil yet
  crash,            \* a nil pointer was dereferenced
  paused, held, op  \* the gate

pool  == <<workers, worker, id, remover, token>>
work  == <<job, report, errors, management>>
final == <<closer, closed, do, crash>>
gate  == <<paused, held, op>>
vars  == <<pool, work, final, gate>>

Gate == INSTANCE Gate WITH Servers <- Jobs

(* NewProxyStream returns when management has started the first worker. *)
Init ==
  /\ workers = 1
  /\ worker = [w \in Workers |-> IF w = Boot THEN "live" ELSE "none"]
  /\ id = [w \in Workers |-> IF w = Boot THEN 1 ELSE 0]
  /\ remover = [r \in Removers |-> "none"]
  /\ token = [r \in Removers |-> 0]
  /\ job = [j \in Jobs |-> "new"]
  /\ report = [j \in Jobs |-> "none"]
  /\ errors = {}
  /\ management = "select"
  /\ closer = [k \in Closers |-> "none"]
  /\ closed = FALSE
  /\ do = TRUE
  /\ crash = FALSE
  /\ Gate!Init

-----------------------------------------------------------------------------
(* The pool *)

(* AddWorker counts the worker first and then offers its id to management. *)
AddWorker(w) ==
  /\ worker[w] = "none"
  /\ workers' = workers + 1
  /\ id' = [id EXCEPT ![w] = workers + 1]
  /\ worker' = [worker EXCEPT ![w] = "adding"]
  /\ UNCHANGED <<remover, token, work, final, gate>>

(* management receives the id and starts the worker. *)
HandleStreams(w) ==
  /\ worker[w] = "adding"
  /\ management = "select"
  /\ worker' = [worker EXCEPT ![w] = "live"]
  /\ UNCHANGED <<workers, id, remover, token, work, final, gate>>

RemoveWorker(r) ==
  /\ remover[r] = "none"
  /\ token' = [token EXCEPT ![r] = workers]
  /\ remover' = [remover EXCEPT ![r] = "sending"]
  /\ UNCHANGED <<workers, worker, id, work, final, gate>>

(* "if id == k { break hloop }"                                            *)
OwnToken(i, k) == i = k

(* Whichever worker receives a token ends if the token is its own id;      *)
(* otherwise the token is used up and nothing ends.                        *)
EndWorker(w, r) ==
  /\ worker[w] = "live"
  /\ remover[r] = "sending"
  /\ worker' = IF OwnToken(id[w], token[r]) THEN [worker EXCEPT ![w] = "gone"] ELSE worker
  /\ remover' = [remover EXCEPT ![r] = "sent"]
  /\ UNCHANGED <<workers, id, token, work, final, gate>>

(* "atomic.AddInt64(&p.workers, -1)"                                       *)
(* Faulty variant: nothing is counted off. *)
NotCountedOff(n) == n
CountedOff(n) == n - 1

RemoveWorkerDone(r) ==
  /\ remover[r] = "sent"
  /\ workers' = CountedOff(workers)
  /\ remover' = [remover EXCEPT ![r] = "done"]
  /\ UNCHANGED <<worker, id, token, work, final, gate>>

(* "case <-p.closer": a closed channel is ready for everybody.              *)
(* Faulty variant: a value sent instead, which one receiver gets. *)
SentToBoot(w) == closed /\ w = Boot
StopSeen(w) == closed

WorkerClosed(w) ==
  /\ worker[w] = "live"
  /\ StopSeen(w)
  /\ worker' = [worker EXCEPT ![w] = "gone"]
  /\ UNCHANGED <<workers, id, remover, token, work, final, gate>>

-----------------------------------------------------------------------------
(* Jobs *)

(* Stream refuses a job when Close has returned or an end is missing;      *)
(* otherwise a goroutine offers the job to the workers.                    *)
Stream(j, complete) ==
  /\ job[j] = "new"
  /\ job' = [job EXCEPT ![j] = IF do /\ complete THEN "offered" ELSE "refused"]
  /\ UNCHANGED <<pool, report, errors, management, final, gate>>

(* A worker takes the job and starts a goroutine for it, so that it is      *)
(* free for the next one at once.                                           *)
(* Faulty variant: a worker takes no job while another one is running. *)
WorkerBusy(w) == worker[w] = "live" /\ \A j \in Jobs : job[j] \notin {"held", "running"}
WorkerFree(w) == worker[w] = "live"

TakeWork(w, j) ==
  /\ WorkerFree(w)
  /\ job[j] = "offered"
  /\ job' = [job EXCEPT ![j] = "started"]
  /\ UNCHANGED <<pool, report, errors, management, final, gate>>

(* That goroutine's p.Wait(): it is held at a shut gate ...                *)
Wait(j) ==
  /\ job[j] = "started"
  /\ Gate!Arrive(j)
  /\ job' = [job EXCEPT ![j] = "held"]
  /\ UNCHANGED <<pool, report, errors, management, final>>

(* ... and passes an open one, or when Resume has let it go.               *)
(* Faulty variant: only an open gate is passed, and who is held stays. *)
NeverWoken(j) == ~paused /\ job[j] = "started"
LetGo(j) ==
  \/ job[j] = "started" /\ ~paused
  \/ job[j] = "held" /\ j \notin held

Process(j) ==
  /\ LetGo(j)
  /\ job' = [job EXCEPT ![j] = "running"]
  /\ UNCHANGED <<pool, report, errors, management, final, gate>>

(* The processor (any ConnectionProcess) returns; it may have left a       *)
(* goroutine behind that sends an error.                                   *)
Processed(j, failed) ==
  /\ job[j] = "running"
  /\ job' = [job EXCEPT ![j] = "done"]
  /\ report' = [report EXCEPT ![j] = IF failed THEN "sending" ELSE "none"]
  /\ UNCHANGED <<pool, errors, management, final, gate>>

(* The channel errors holds one error; a second sender blocks.             *)
Room(e) == e = {}

QueueError(j) ==
  /\ report[j] = "sending"
  /\ Room(errors)
  /\ errors' = errors \cup {j}
  /\ report' = [report EXCEPT ![j] = "queued"]
  /\ UNCHANGED <<pool, job, management, final, gate>>

(* management calls the error handler, and selects again afterwards. *)
ReceiveError(j) ==
  /\ management = "select"
  /\ j \in errors
  /\ errors' = errors \ {j}
  /\ report' = [report EXCEPT ![j] = "handled"]
  /\ management' = "handling"
  /\ UNCHANGED <<pool, job, final, gate>>

(* Faulty variant: management ends after an error. *)
OnlyOneError == "gone"
AfterError == "select"

ErrorHandled ==
  /\ management = "handling"
  /\ management' = AfterError
  /\ UNCHANGED <<pool, job, report, errors, final, gate>>

-----------------------------------------------------------------------------
(* Close *)

ManagementClosed ==
  /\ management = "select"
  /\ closed
  /\ management' = "gone"
  /\ UNCHANGED <<pool, job, report, errors, final, gate>>

(* p.do.Do closes the channel once; p.do is nil if a Close has returned. *)
Close(k) ==
  /\ closer[k] = "none"
  /\ IF do
       THEN /\ closed' = TRUE
            /\ closer' = [closer EXCEPT ![k] = "closing"]
            /\ UNCHANGED crash
       ELSE /\ crash' = TRUE
            /\ UNCHANGED <<closed, closer>>
  /\ UNCHANGED <<pool, work, do, gate>>

(* The deferred "p.do = nil". *)
Closed(k) ==
  /\ closer[k] = "closing"
  /\ do' = FALSE
  /\ closer' = [closer EXCEPT ![k] = "done"]
  /\ UNCHANGED <<pool, work, closed, crash, gate>>

-----------------------------------------------------------------------------
(* Pause and Resume *)

PauseOrResume(c) ==
  /\ \/ \E o \in {"pause", "resume"} : Gate!Call(c, o)
     \/ Gate!Pause(c)
     \/ Gate!Resume(c)
  /\ UNCHANGED <<pool, work, final>>

Step(A) == ~crash /\ A

Next ==
  \/ \E w \in Workers : Step(AddWorker(w))
  \/ \E w \in Workers : Step(HandleStreams(w))
  \/ \E w \in Workers : Step(WorkerClosed(w))
  \/ \E r \in Removers : Step(RemoveWorker(r))
  \/ \E r \in Removers : Step(RemoveWorkerDone(r))
  \/ \E w \in Workers, r \in Removers : Step(EndWorker(w, r))
  \/ \E j \in Jobs, complete \in BOOLEAN : Step(Stream(j, complete))
  \/ \E w \in Workers, j \in Jobs : Step(TakeWork(w, j))
  \/ \E j \in Jobs : Step(Wait(j))
  \/ \E j \in Jobs : Step(Process(j))
  \/ \E j \in Jobs, failed \in BOOLEAN : Step(Processed(j, failed))
  \/ \E j \in Jobs : Step(QueueError(j))
  \/ \E j \in Jobs : Step(ReceiveError(j))
  \/ Step(ErrorHandled)
  \/ Step(ManagementClosed)
  \/ \E k \in Closers : Step(Close(k))
  \/ \E k \in Closers : Step(Closed(k))
  \/ \E c \in Controllers : Step(PauseOrResume(c))

Spec == Init /\ [][Next]_vars

(* The goroutines keep running: management and the workers select again    *)
(* and again and take each ready case in time, and so do the goroutines of  *)
(* the jobs.  The processors are foreign code and may run for ever; nobody  *)
(* has to call anything, or to get anything out of RemoveWorker.            *)
Fairness ==
  /\ \A w \in Workers : WF_vars(Step(HandleStreams(w) \/ WorkerClosed(w)))
  /\ \A j \in Jobs : WF_vars(\E w \in Workers : Step(TakeWork(w, j)))
  /\ \A j \in Jobs : WF_vars(Step(Wait(j) \/ Process(j)))
  /\ \A j \in Jobs : WF_vars(Step(QueueError(j) \/ ReceiveError(j)))
  /\ WF_vars(Step(ErrorHandled \/ ManagementClosed))

FairSpec == Spec /\ Fairness

-----------------------------------------------------------------------------
(* Properties *)

TypeOK ==
  /\ workers \in Int
  /\ worker \in [Workers -> {"none", "adding", "live", "gone"}]
  /\ id \in [Workers -> Int]
  /\ remover \in [Removers -> {"none", "sending", "sent", "done"}]
  /\ token \in [Removers -> Int]
  /\ job \in [Jobs -> {"new", "refused", "offered", "started", "held", "running", "done"}]
  /\ report \in [Jobs -> {"none", "sending", "queued", "handled"}]
  /\ errors \subseteq Jobs /\ \A i, j \in errors : i = j
  /\ management \in {"select", "handling", "gone"}
  /\ closer \in [Closers -> {"none", "closing", "done"}]
  /\ closed \in BOOLEAN /\ do \in BOOLEAN /\ crash \in BOOLEAN
  /\ Gate!TypeOK

Live == {w \in Workers : worker[w] = "live"}
Serving == {w \in Workers : worker[w] \in {"adding", "live"}}
Leaving == {r \in Removers : remover[r] = "sent"}

(* The counter never claims more workers than there are: as long as the     *)
(* stream is open, p.workers exceeds the workers that run or are being      *)
(* started by no more than the removals that have yet to count down.  So a  *)
(* RemoveWorker costs the pool one worker at most, whichever worker gets    *)
(* its token and however ids have been reused.                              *)
WorkersNotOverstated ==
  ~closed => workers <= Cardinality(Serving) + Cardinality(Leaving)

(* A job Stream has accepted is taken by a worker, however many processors  *)
(* are running or held, unless no worker is left or the stream is closed.   *)
AcceptedIsTaken ==
  \A j \in Jobs :
    job[j] = "offered" ~> (job[j] /= "offered" \/ closed \/ Live = {})

(* If the gate does not stay shut for ever, every job that was taken is     *)
(* processed: no pattern of Pause, Resume and Close strands its goroutine.  *)
TakenIsProcessed ==
  []<>(~paused) =>
    \A j \in Jobs : job[j] \in {"started", "held"} ~> (job[j] \in {"running", "done"} \/ crash)

(* Close reaches everybody: all workers, those still being started too, and *)
(* management end.                                                          *)
CloseStopsEverybody ==
  closed ~> ((Live = {} /\ management = "gone") \/ crash)

(* An error a processor reports reaches the error handler, and a worker     *)
(* that is added is started, as long as the stream is open: management is   *)
(* never lost to either of its two duties.                                  *)
ManagementServes ==
  /\ \A j \in Jobs : report[j] = "sending" ~> (report[j] = "handled" \/ closed)
  /\ \A w \in Workers \ {Boot} : worker[w] = "adding" ~> (worker[w] = "live" \/ closed)
=============================================================================
