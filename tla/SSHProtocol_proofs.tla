------------------------ MODULE SSHProtocol_proofs ------------------------
(***************************************************************************)
(* Proofs about PayloadRack, for any number of loads and releases, and     *)
(* about SSHProtocol, which extends it.  A protocol uses its racks as      *)
(* PayloadRack says, so that what is proved of a rack holds in a protocol; *)
(* and a request has one reply at most, for any set of behaviours.         *)
(***************************************************************************)
EXTENDS SSHProtocol, TLAPS

-----------------------------------------------------------------------------
(* PayloadRack *)

LEMMA InitIInv == Init => IInv
BY RackAssumption DEF Init, IInv, TypeOK, OneLoad, OnePlace, Loaded, Gone, Resolved

(* Load. *)
LEMMA LoadIInv == ASSUME IInv, NEW l \in Loads, Load(l) PROVE IInv'
<1> USE DEF IInv, Load, FirstLoad
<1>1. CASE ~once
  <2>1. /\ once' = TRUE
        /\ sender' = [sender EXCEPT ![l] = "sending"]
        /\ helper' = [helper EXCEPT ![l] = IF immediate THEN "receiving" ELSE "sleeping"]
    BY <1>1
  <2>2. TypeOK'
    BY <2>1 DEF TypeOK
  <2>3. \A m \in Loads : ~Loaded(m) /\ helper[m] = "none"
    BY <1>1 DEF OneLoad
  <2>4. \A m \in Loads : Loaded(m)' <=> m = l
    BY <2>1, <2>3 DEF Loaded, TypeOK
  <2>5. OneLoad'
    BY <2>1, <2>3, <2>4 DEF OneLoad, TypeOK
  <2>6. OnePlace'
    BY <2>1, <2>3 DEF OnePlace, Gone, Loaded, Resolved, TypeOK
  <2> QED
    BY <2>2, <2>5, <2>6
<1>2. CASE once
  <2>1. sender' = [sender EXCEPT ![l] = "ignored"] /\ UNCHANGED <<once, helper>>
    BY <1>2
  <2>2. TypeOK'
    BY <2>1 DEF TypeOK
  <2>3. \A m \in Loads : (Loaded(m)' <=> Loaded(m)) /\ (Gone(m)' <=> Gone(m))
    BY <2>1 DEF Loaded, Gone, TypeOK
  <2>4. OneLoad'
    BY <1>2, <2>1, <2>3 DEF OneLoad
  <2>5. OnePlace'
    BY <2>1, <2>3 DEF OnePlace, Resolved
  <2> QED
    BY <2>2, <2>4, <2>5
<1> QED
  BY <1>1, <1>2 DEF TypeOK

(* The steps of a helper and of the goroutine that sends. *)
LEMMA HelperIInv ==
  ASSUME IInv, NEW l \in Loads, CloseChannel(l) \/ HelperStep(l) PROVE IInv'
<1> USE DEF IInv, Loaded, Gone, Resolved
<1>1. CASE CloseChannel(l)
  BY <1>1 DEF CloseChannel, AfterSending, TypeOK, OneLoad, OnePlace
<1>2. CASE TimeOver(l)
  BY <1>2 DEF TimeOver, TypeOK, OneLoad, OnePlace
<1>3. CASE HelperReceives(l)
  <2>1. \A r \in Releases : release[r] /= "holding"
    BY <1>3 DEF HelperReceives, OneLoad, OnePlace
  <2>2. ~Resolved
    BY <1>3 DEF HelperReceives, OneLoad, OnePlace
  <2>3. TypeOK'
    BY <1>3 DEF HelperReceives, Sent, TypeOK
  <2>4. OneLoad'
    BY <1>3 DEF HelperReceives, Sent, TypeOK, OneLoad
  <2>5. OnePlace'
    BY <1>3, <2>1, <2>2 DEF HelperReceives, Sent, TypeOK, OnePlace
  <2> QED
    BY <2>3, <2>4, <2>5
<1>4. CASE HelperIsLate(l)
  BY <1>4 DEF HelperIsLate, TypeOK, OneLoad, OnePlace
<1>5. CASE HelperResolves(l)
  <2>1. Gone(l) /\ ~Resolved
    BY <1>5 DEF HelperResolves, OnePlace
  <2>2. \A r \in Releases : release[r] /= "holding"
    BY <1>5, <2>1 DEF HelperResolves, OneLoad, OnePlace
  <2>3. \A m \in Loads : helper[m] = "holding" => m = l
    BY <2>1 DEF OneLoad, OnePlace
  <2>4. TypeOK'
    BY <1>5 DEF HelperResolves, TypeOK
  <2>5. OneLoad'
    BY <1>5 DEF HelperResolves, TypeOK, OneLoad
  <2>6. \A m \in Loads : helper'[m] /= "holding"
    BY <1>5, <2>3 DEF HelperResolves, TypeOK
  <2>7. OnePlace'
    BY <1>5, <2>1, <2>2, <2>6 DEF HelperResolves, TypeOK, OnePlace
  <2> QED
    BY <2>4, <2>5, <2>7
<1> QED
  BY <1>1, <1>2, <1>3, <1>4, <1>5 DEF HelperStep

(* The steps of a Release. *)
LEMMA ReleaseIInv ==
  ASSUME IInv, NEW r \in Releases, Release(r) \/ ReleaseStep(r) PROVE IInv'
<1> USE DEF IInv, Loaded, Gone, Resolved
<1>1. CASE Release(r)
  BY <1>1 DEF Release, TypeOK, OneLoad, OnePlace
<1>2. ASSUME NEW l \in Loads, ReleaseReceives(r, l) PROVE IInv'
  <2>1. \A s \in Releases : release[s] /= "holding"
    BY <1>2 DEF ReleaseReceives, OneLoad, OnePlace
  <2>2. ~Resolved /\ \A m \in Loads : helper[m] /= "holding"
    BY <1>2 DEF ReleaseReceives, OneLoad, OnePlace
  <2>3. TypeOK'
    BY <1>2 DEF ReleaseReceives, Sent, TypeOK
  <2>4. OneLoad'
    BY <1>2 DEF ReleaseReceives, Sent, TypeOK, OneLoad
  <2>5. OnePlace'
    BY <1>2, <2>1, <2>2 DEF ReleaseReceives, Sent, TypeOK, OnePlace
  <2> QED
    BY <2>3, <2>4, <2>5
<1>3. CASE ReleaseIsLate(r)
  BY <1>3 DEF ReleaseIsLate, TypeOK, OneLoad, OnePlace
<1>4. CASE ReleaseResolves(r)
  <2>1. taken[r] \in Loads /\ Gone(taken[r]) /\ ~Resolved
    BY <1>4 DEF ReleaseResolves, OnePlace
  <2>2. \A m \in Loads : helper[m] /= "holding"
    BY <1>4, <2>1 DEF ReleaseResolves, OneLoad, OnePlace
  <2>3. \A s \in Releases : release'[s] /= "holding"
    BY <1>4 DEF ReleaseResolves, TypeOK, OnePlace
  <2>4. TypeOK'
    BY <1>4, <2>1 DEF ReleaseResolves, FulfilledBy, TypeOK
  <2>5. OneLoad'
    BY <1>4 DEF ReleaseResolves, OneLoad
  <2>6. OnePlace'
    BY <1>4, <2>1, <2>2, <2>3 DEF ReleaseResolves, FulfilledBy, OnePlace
  <2> QED
    BY <2>4, <2>5, <2>6
<1> QED
  BY <1>1, <1>2, <1>3, <1>4 DEF ReleaseStep

LEMMA NextIInv == IInv /\ [Next]_vars => IInv'
<1> SUFFICES ASSUME IInv, [Next]_vars PROVE IInv'
  OBVIOUS
<1>1. CASE UNCHANGED vars
  BY <1>1 DEF vars, IInv, TypeOK, OneLoad, OnePlace, Loaded, Gone, Resolved
<1> QED
  BY <1>1, LoadIInv, HelperIInv, ReleaseIInv DEF Next

(* The payload is always in one place: on offer, held by the helper or by   *)
(* one Release, or given to one of the two actions.                         *)
THEOREM SpecIInv == Spec => []IInv
<1> QED
  BY InitIInv, NextIInv, PTL DEF Spec

(* The variables of a rack keep to their ranges: in particular, what its   *)
(* actions are fulfilled with was loaded.                                  *)
THEOREM SpecTypeOK == Spec => []TypeOK
<1>1. IInv => TypeOK
  BY DEF IInv
<1> QED
  BY <1>1, SpecIInv, PTL

-----------------------------------------------------------------------------
(* The refinement *)

LEMMA ValueIs ==
  ASSUME IInv PROVE /\ \A l \in Loads : Loaded(l) => Value = l
                    /\ (\A l \in Loads : ~Loaded(l)) => Value = None
BY DEF IInv, OneLoad, Value

(* If nothing changes about who is loaded, the value is the same. *)
LEMMA ValueStays ==
  ASSUME IInv, IInv', \A l \in Loads : Loaded(l)' <=> Loaded(l)
  PROVE Value' = Value
<1>1. CASE \E l \in Loads : Loaded(l)
  <2>1. PICK l \in Loads : Loaded(l)
    BY <1>1
  <2>2. Value = l
    BY <2>1, ValueIs
  <2>3. Value' = l
    <3>1. Loaded(l)'
      BY <2>1
    <3>2. \A m \in Loads : Loaded(m)' => m = l
      BY <3>1 DEF IInv, OneLoad
    <3> QED
      BY <3>1, <3>2 DEF Value
  <2> QED
    BY <2>2, <2>3
<1>2. CASE \A l \in Loads : ~Loaded(l)
  BY <1>2 DEF Value
<1> QED
  BY <1>1, <1>2

LEMMA StepIsFutureStep ==
  ASSUME IInv, IInv', [Next]_vars PROVE [F!Next]_(F!vars)
<1> USE DEF F!vars, F!Next, F!Load, F!Succeed, F!Expire, F!Open
<1>1. ASSUME NEW l \in Loads, Load(l) PROVE [F!Next]_(F!vars)
  <2>1. CASE ~once
    <3>1. \A m \in Loads : ~Loaded(m)
      BY <2>1 DEF IInv, OneLoad
    <3>2. Value = None
      BY <3>1, ValueIs
    <3>3. Loaded(l)'
      BY <1>1, <2>1 DEF Load, FirstLoad, Loaded, IInv, TypeOK
    <3>4. Value' = l
      <4>1. \A m \in Loads : Loaded(m)' => m = l
        BY <3>3 DEF IInv, OneLoad
      <4> QED
        BY <3>3, <4>1 DEF Value
    <3>5. UNCHANGED <<immediate, done, fail>>
      BY <1>1 DEF Load
    <3> QED
      BY <3>2, <3>4, <3>5
  <2>2. CASE once
    <3>1. sender' = [sender EXCEPT ![l] = "ignored"] /\ sender[l] = "none"
      BY <1>1, <2>2 DEF Load, FirstLoad
    <3>2. \A m \in Loads : Loaded(m)' <=> Loaded(m)
      BY <3>1 DEF Loaded, IInv, TypeOK
    <3> QED
      BY <1>1, <3>2, ValueStays DEF Load
  <2> QED
    BY <2>1, <2>2 DEF IInv, TypeOK
<1>2. ASSUME NEW l \in Loads, HelperResolves(l) PROVE [F!Next]_(F!vars)
  <2>1. Loaded(l) /\ ~Resolved
    BY <1>2 DEF HelperResolves, IInv, OneLoad, OnePlace
  <2>2. Value = l /\ Value /= None
    BY <2>1, ValueIs, RackAssumption
  <2>3. Value' = Value
    BY <1>2, ValueStays DEF HelperResolves, Loaded
  <2> QED
    BY <1>2, <2>1, <2>2, <2>3 DEF HelperResolves, Resolved
<1>3. ASSUME NEW r \in Releases, ReleaseResolves(r) PROVE [F!Next]_(F!vars)
  <2>1. taken[r] \in Loads /\ Loaded(taken[r]) /\ ~Resolved
    BY <1>3 DEF ReleaseResolves, IInv, OnePlace, Gone, Loaded
  <2>2. Value = taken[r] /\ Value /= None
    BY <2>1, ValueIs, RackAssumption
  <2>3. Value' = Value
    BY <1>3, ValueStays DEF ReleaseResolves, Loaded
  <2> QED
    BY <1>3, <2>1, <2>2, <2>3 DEF ReleaseResolves, FulfilledBy, Resolved
<1>4. ASSUME UNCHANGED <<immediate, done, fail>>,
             \A l \in Loads : Loaded(l)' <=> Loaded(l)
      PROVE [F!Next]_(F!vars)
  BY <1>4, ValueStays
<1>5. ASSUME NEW l \in Loads,
             CloseChannel(l) \/ TimeOver(l) \/ HelperReceives(l) \/ HelperIsLate(l)
      PROVE [F!Next]_(F!vars)
  <2>1. \A m \in Loads : Loaded(m)' <=> Loaded(m)
    BY <1>5 DEF CloseChannel, AfterSending, TimeOver, HelperReceives, HelperIsLate, Sent,
                Loaded, IInv, TypeOK
  <2> QED
    BY <1>4, <1>5, <2>1 DEF CloseChannel, TimeOver, HelperReceives, HelperIsLate
<1>6. ASSUME NEW r \in Releases, NEW l \in Loads, ReleaseReceives(r, l)
      PROVE [F!Next]_(F!vars)
  <2>1. \A m \in Loads : Loaded(m)' <=> Loaded(m)
    BY <1>6 DEF ReleaseReceives, Sent, Loaded, IInv, TypeOK
  <2> QED
    BY <1>4, <1>6, <2>1 DEF ReleaseReceives
<1>7. ASSUME NEW r \in Releases, Release(r) \/ ReleaseIsLate(r) PROVE [F!Next]_(F!vars)
  BY <1>4, <1>7 DEF Release, ReleaseIsLate, Loaded
<1>8. CASE UNCHANGED vars
  BY <1>4, <1>8 DEF vars, Loaded
<1> QED
  BY <1>1, <1>2, <1>3, <1>5, <1>6, <1>7, <1>8 DEF Next, HelperStep, ReleaseStep

(* PayloadRack implements Future. *)
THEOREM SpecImplementsFuture == Spec => ImplementsFuture
<1>1. Init => F!Init
  BY DEF Init, F!Init, Value, Loaded
<1> QED
  BY <1>1, SpecIInv, StepIsFutureStep, PTL DEF Spec, ImplementsFuture, F!Spec

-----------------------------------------------------------------------------
(* SSHProtocol *)

LEMMA StepIsRackStep == SSHNext => [Next]_vars
<1> SUFFICES ASSUME SSHNext PROVE [Next]_vars
  OBVIOUS
<1>1. CASE Accept \/ Drop  BY <1>1 DEF Accept, Drop
<1>2. CASE Peers
  BY <1>2 DEF Peers, Leave, OpenChannel, CloseChan, CloseRemote, Ask, EndOfFile
<1>3. CASE Manager \/ OpenRemote \/ FailRemote
  BY <1>3 DEF Manager, ManagerStops, FailChannel, TakeChannel, ProxyReturns, OpenRemote, FailRemote
<1>4. CASE Loop \/ Forwarded
  BY <1>4, SSHAssumption DEF Loop, ExitStatus, RequestsEnd, Forward, LoopEnds, ServeRequest, Forwarded, Next
<1>5. ASSUME NEW l \in Loads, ServeHTTP(l) PROVE [Next]_vars
  BY <1>5 DEF ServeHTTP, Next
<1>6. ASSUME NEW r \in Releases, Behaviour(r) \/ CommandEnds(r) \/ Redirected(r)
      PROVE  [Next]_vars
  BY <1>6 DEF Behaviour, Behave, Refuse, Answer, Answered, Redirect, CommandEnds, Redirected, Next
<1>7. ASSUME NEW d \in Directions, CopierFails(d) \/ CopierDone(d) PROVE [Next]_vars
  BY <1>7 DEF CopierFails, CopierDone, CopierEnds
<1>8. CASE Teardown  BY <1>8 DEF Teardown
<1>9. CASE Rack  BY <1>9 DEF Rack, Next
<1> QED
  BY <1>1, <1>2, <1>3, <1>4, <1>5, <1>6, <1>7, <1>8, <1>9 DEF SSHNext

(* Connections, channels and behaviours come and go around a rack, and it  *)
(* is loaded and released only as PayloadRack allows.                      *)
THEOREM SSHSpecRack == SSHSpec => Spec
<1>1. SSHInit => Init
  BY DEF SSHInit
<1>2. [SSHNext]_sshVars => [Next]_vars
  BY StepIsRackStep DEF sshVars, vars
<1> QED
  BY <1>1, <1>2, PTL DEF SSHSpec, Spec

(* Whatever the behaviours of a route do, and the user and the server: the *)
(* payload of a request is given once, to done or to fail.                 *)
THEOREM SSHSpecFuture == SSHSpec => ImplementsFuture
<1> QED
  BY SSHSpecRack, SpecImplementsFuture, PTL

-----------------------------------------------------------------------------
(* One reply *)

Requests == {i \in DOMAIN queue : queue[i] = "request"}

ReplyType ==
  /\ queue \in Seq({"request", "exit-status"})
  /\ callback \in [Releases -> {"none", "asking", "running", "answered", "done"}]
  /\ replied \in BOOLEAN
  /\ replies \in Nat

(* Whoever may still reply holds the once: an answer that runs, or a proxy's *)
(* loop, which has one request at a time; otherwise the once has not run.   *)
Behaviours ==
  /\ \A r \in Releases : callback[r] = "asking" => kind = "standard"
  /\ \A r \in Releases : callback[r] = "running" =>
       r = "answer" /\ kind = "standard" /\ replied /\ replies = 0

Forwarding ==
  /\ loop = "forwarding" => kind = "proxy" /\ ~replied
  /\ kind = "proxy" /\ Requests /= {} => ~replied /\ loop /= "forwarding"
  /\ \A i, j \in Requests : i = j

ReplyInv ==
  /\ ReplyType
  /\ ~replied => replies = 0
  /\ OneReply
  /\ Behaviours
  /\ Forwarding

LEMMA InitReplyInv == SSHInit => ReplyInv
<1> SUFFICES ASSUME SSHInit PROVE ReplyInv
  OBVIOUS
<1>1. queue = <<>> /\ replied = FALSE /\ replies = 0 /\ loop = "none"
  BY DEF SSHInit
<1>2. callback = [r \in Releases |-> "none"]
  BY DEF SSHInit
<1>3. ReplyType
  <2>1. replied \in BOOLEAN
    BY <1>1, Zenon
  <2>2. \A S : <<>> \in Seq(S)
    OBVIOUS
  <2>3. queue \in Seq({"request", "exit-status"})
    BY <1>1, <2>2
  <2>4. callback \in [Releases -> {"none", "asking", "running", "answered", "done"}]
    BY <1>2
  <2> QED
    BY <1>1, <2>1, <2>3, <2>4 DEF ReplyType
<1>4. Requests = {}
  BY <1>1 DEF Requests
<1> QED
  BY <1>1, <1>2, <1>3, <1>4 DEF ReplyInv, OneReply, Behaviours, Forwarding

(* A request is added only when there is none. *)
LEMMA AskReplyInv ==
  ASSUME ReplyInv, NEW r \in {"request", "exit-status"}, Ask(r) PROVE ReplyInv'
<1> USE DEF ReplyInv, Ask
<1> DEFINE n == Len(queue) + 1
<1>1. queue' \in Seq({"request", "exit-status"}) /\ Len(queue') = n /\ n \in Nat
  BY DEF ReplyType
<1>2. \A i \in DOMAIN queue' : queue'[i] = IF i = n THEN r ELSE queue[i]
  BY DEF ReplyType
<1>3. \A i \in DOMAIN queue' : i /= n => i \in DOMAIN queue
  BY <1>1 DEF ReplyType
<1>4. ReplyType'
  BY <1>1 DEF reply, ReplyType
<1>5. UNCHANGED <<kind, loop, callback, replied, replies>>
  BY DEF config, reply
<1>6. Behaviours'
  BY <1>5 DEF Behaviours
<1>7. CASE r = "request"
  <2>1. Requests = {}
    BY <1>7 DEF Requests
  <2>2. \A i \in Requests' : i = n
    BY <1>2, <1>3, <2>1 DEF Requests
  <2>3. ~replied /\ loop /= "forwarding"
    BY <1>7
  <2> QED
    BY <1>4, <1>5, <1>6, <2>2, <2>3 DEF OneReply, Forwarding
<1>8. CASE r /= "request"
  <2>1. Requests' \subseteq Requests
    BY <1>2, <1>3, <1>8 DEF Requests
  <2> QED
    BY <1>4, <1>5, <1>6, <2>1 DEF OneReply, Forwarding
<1> QED
  BY <1>7, <1>8

(* What is left of a queue has the requests that the queue had, each one   *)
(* place nearer; none if its head was the request.                         *)
LEMMA TailRequests ==
  ASSUME ReplyInv, queue /= <<>>, queue' = Tail(queue)
  PROVE  /\ queue' \in Seq({"request", "exit-status"})
         /\ \A i \in Requests' : i + 1 \in Requests
         /\ Head(queue) = "request" => Requests' = {}
<1>1. queue \in Seq({"request", "exit-status"}) /\ \A i, j \in Requests : i = j
  BY DEF ReplyInv, ReplyType, Forwarding
<1>2. queue' \in Seq({"request", "exit-status"})
  BY <1>1
<1>3. \A i \in DOMAIN queue' : i \in Nat /\ i + 1 \in DOMAIN queue /\ queue'[i] = queue[i + 1]
  BY <1>1
<1>4. \A i \in Requests' : i + 1 \in Requests
  BY <1>3 DEF Requests
<1>5. ASSUME Head(queue) = "request" PROVE Requests' = {}
  <2>1. 1 \in Requests
    BY <1>1, <1>5 DEF Requests
  <2>2. \A i \in Requests' : i \in Nat /\ i > 0
    BY <1>2 DEF Requests
  <2> QED
    BY <1>1, <1>4, <2>1, <2>2
<1> QED
  BY <1>2, <1>4, <1>5

(* The loops that take requests from the queue. *)
LEMMA LoopReplyInv == ASSUME ReplyInv, Loop \/ Forwarded PROVE ReplyInv'
<1> USE DEF ReplyInv
<1>1. ASSUME queue /= <<>>, queue' = Tail(queue), UNCHANGED <<config, reply>>,
             \/ loop' \in {loop, "gone"}
             \/ loop' = "forwarding" /\ kind = "proxy" /\ Head(queue) = "request"
      PROVE  ReplyInv'
  <2>1. UNCHANGED <<kind, callback, replied, replies>>
    BY <1>1 DEF config, reply
  <2>2. queue' \in Seq({"request", "exit-status"}) /\ \A i \in Requests' : i + 1 \in Requests
    BY <1>1, TailRequests
  <2>3. ReplyType' /\ OneReply' /\ Behaviours'
    BY <2>1, <2>2 DEF ReplyType, OneReply, Behaviours
  <2>4. \A i \in Requests' : i \in Nat
    BY <2>2 DEF Requests
  <2>5. \A i, j \in Requests' : i = j
    BY <2>2, <2>4 DEF Forwarding
  <2>6. CASE loop' \in {loop, "gone"}
    BY <2>1, <2>2, <2>3, <2>5, <2>6 DEF Forwarding
  <2>7. CASE loop' = "forwarding" /\ kind = "proxy" /\ Head(queue) = "request"
    <3>1. 1 \in Requests
      BY <1>1, <2>7 DEF Requests, ReplyType
    <3>2. ~replied
      BY <2>7, <3>1 DEF Forwarding
    <3>3. Requests' = {}
      BY <1>1, <2>7, TailRequests
    <3> QED
      BY <2>1, <2>3, <2>7, <3>2, <3>3 DEF Forwarding
  <2> QED
    BY <1>1, <2>6, <2>7
<1>2. CASE ExitStatus  BY <1>1, <1>2 DEF ExitStatus
<1>3. CASE RequestsEnd
  BY <1>3 DEF RequestsEnd, config, reply, ReplyType, OneReply, Behaviours, Forwarding, Requests
<1>4. CASE Forward
  <2>1. queue /= <<>> /\ queue' = Tail(queue) /\ UNCHANGED <<config, reply>> /\ Head(queue) = "request"
    BY <1>4 DEF Forward
  <2>2. loop' = loop \/ (loop' = "forwarding" /\ kind = "proxy")
    BY <1>4 DEF Forward
  <2> QED
    BY <1>1, <2>1, <2>2
<1>5. CASE LoopEnds
  BY <1>5 DEF LoopEnds, config, reply, ReplyType, OneReply, Behaviours, Forwarding, Requests
<1>6. CASE ServeRequest
  BY <1>1, <1>6 DEF ServeRequest
<1>7. CASE Forwarded
  <2>1. kind = "proxy" /\ ~replied /\ replies = 0 /\ Requests = {}
    BY <1>7 DEF Forwarded, Forwarding
  <2>2. replied' = TRUE /\ replies' \in {0, 1} /\ loop' = "reading"
    BY <1>7, <2>1 DEF Forwarded, Reply
  <2>3. UNCHANGED <<kind, queue, callback>>
    BY <1>7 DEF Forwarded, config
  <2>4. \A r \in Releases : callback[r] /= "running"
    BY <2>1 DEF Behaviours
  <2>5. Requests' = {}
    BY <2>1, <2>3 DEF Requests
  <2>6. ReplyType' /\ OneReply'
    BY <2>2, <2>3 DEF ReplyType, OneReply
  <2>7. Behaviours'
    BY <2>3, <2>4 DEF Behaviours
  <2> QED
    BY <2>2, <2>5, <2>6, <2>7 DEF Forwarding
<1> QED
  BY <1>2, <1>3, <1>4, <1>5, <1>6, <1>7 DEF Loop

(* The behaviours. *)
LEMMA BehaviourReplyInv ==
  ASSUME ReplyInv, NEW r \in Releases, Behaviour(r) \/ CommandEnds(r) \/ Redirected(r)
  PROVE  ReplyInv'
<1> USE DEF ReplyInv
<1>1. ASSUME UNCHANGED <<kind, queue, loop>>, kind = "standard",
             NEW c \in {"asking", "answered", "done"},
             callback' = [callback EXCEPT ![r] = c],
             \/ UNCHANGED <<replied, replies>>
             \/ replied' = TRUE /\ IF replied THEN UNCHANGED replies ELSE replies' \in {0, 1}
      PROVE  ReplyInv'
  <2>1. replied' \in BOOLEAN
    BY <1>1, Zenon DEF ReplyType
  <2>2. replies' \in Nat /\ OneReply' /\ (~replied' => replies' = 0)
    BY <1>1 DEF ReplyType, OneReply
  <2>3. ReplyType'
    BY <1>1, <2>1, <2>2 DEF ReplyType
  <2>4. \A s \in Releases : callback'[s] = "running" => s /= r /\ callback[s] = "running"
    BY <1>1 DEF ReplyType
  <2>5. Behaviours'
    BY <1>1, <2>4 DEF Behaviours
  <2>6. Forwarding'
    BY <1>1 DEF Forwarding, Requests
  <2> QED
    BY <2>2, <2>3, <2>5, <2>6
<1>2. CASE Behave(r)
  BY <1>2 DEF Behave, config, channel, reply, ReplyType, OneReply, Behaviours, Forwarding, Requests
<1>3. DoReply => replied' = TRUE /\ IF replied THEN UNCHANGED replies ELSE replies' \in {0, 1}
  BY DEF DoReply, FirstOne, Reply
<1>4. CASE Refuse(r)
  BY <1>1, <1>3, <1>4 DEF Refuse, Called, config, channel
<1>5. CASE Answer(r)
  <2>1. r = "answer" /\ kind = "standard" /\ replied' = TRUE /\ UNCHANGED <<kind, queue, loop, replies>>
    BY <1>5 DEF Answer, Called, config, channel
  <2>2. callback' = [callback EXCEPT ![r] = IF ~replied THEN "running" ELSE "done"]
    BY <1>5 DEF Answer, FirstOne
  <2>3. CASE replied
    BY <1>1, <2>1, <2>2, <2>3
  <2>4. CASE ~replied
    <3>1. replies' = 0 /\ ReplyType' /\ OneReply'
      BY <2>1, <2>2, <2>4 DEF ReplyType, OneReply
    <3>2. \A s \in Releases : callback'[s] = IF s = r THEN "running" ELSE callback[s]
      BY <2>2, <2>4 DEF ReplyType
    <3>3. Behaviours'
      BY <2>1, <2>4, <3>1, <3>2 DEF Behaviours
    <3>4. Forwarding'
      BY <2>1 DEF Forwarding, Requests
    <3> QED
      BY <2>1, <3>1, <3>3, <3>4
  <2> QED
    BY <2>3, <2>4
<1>6. CASE Answered(r)
  <2>1. r = "answer" /\ kind = "standard" /\ replied /\ replies = 0
    BY <1>6 DEF Answered, Behaviours
  <2>2. replies' \in {0, 1} /\ UNCHANGED <<kind, queue, loop, replied>>
    BY <1>6, <2>1 DEF Answered, Reply, config, channel
  <2>3. callback' = [callback EXCEPT ![r] = "answered"]
    BY <1>6 DEF Answered
  <2>4. ReplyType' /\ OneReply'
    BY <2>2, <2>3 DEF ReplyType, OneReply
  <2>5. \A s \in Releases : callback'[s] = IF s = r THEN "answered" ELSE callback[s]
    BY <2>3 DEF ReplyType
  <2>6. \A s \in Releases : callback'[s] /= "running"
    BY <2>1, <2>5 DEF Behaviours
  <2>7. Behaviours'
    BY <2>1, <2>2, <2>6 DEF Behaviours
  <2>8. Forwarding'
    BY <2>2 DEF Forwarding, Requests
  <2> QED
    BY <2>1, <2>2, <2>4, <2>7, <2>8
<1>7. CASE CommandEnds(r)
  BY <1>7 DEF CommandEnds, config, reply, ReplyType, OneReply, Behaviours, Forwarding, Requests
<1>8. CASE Redirect(r)
  BY <1>1, <1>8 DEF Redirect, Called, config, channel
<1>9. CASE Redirected(r)
  <2>1. kind = "standard"
    BY <1>9 DEF Redirected, Behaviours
  <2> QED
    BY <1>1, <1>3, <1>9, <2>1 DEF Redirected, config, channel
<1> QED
  BY <1>2, <1>4, <1>5, <1>6, <1>7, <1>8, <1>9 DEF Behaviour

(* No other step touches a queue or a reply, and a loop only starts. *)
LEMMA OtherReplyInv ==
  ASSUME ReplyInv, UNCHANGED <<config, queue, reply>>, loop' \in {loop, "reading"}
  PROVE  ReplyInv'
<1>1. UNCHANGED <<kind, queue, callback, replied, replies>>
  BY DEF config, reply
<1> QED
  BY <1>1 DEF ReplyInv, ReplyType, OneReply, Behaviours, Forwarding, Requests

LEMMA NextReplyInv == ReplyInv /\ [SSHNext]_sshVars => ReplyInv'
<1> SUFFICES ASSUME ReplyInv, [SSHNext]_sshVars PROVE ReplyInv'
  OBVIOUS
<1> DEFINE Others == UNCHANGED <<config, queue, reply>> /\ loop' \in {loop, "reading"}
<1>1. CASE Accept \/ Drop  BY <1>1, OtherReplyInv DEF Accept, Drop, channel
<1>2. CASE Peers
  <2>1. ASSUME NEW r \in {"request", "exit-status"}, Ask(r) PROVE ReplyInv'
    BY <2>1, AskReplyInv
  <2>2. CASE Leave \/ OpenChannel \/ CloseChan \/ CloseRemote \/ \E d \in Directions : EndOfFile(d)
    <3>1. Others
      BY <2>2 DEF Leave, OpenChannel, CloseChan, CloseRemote, EndOfFile, channel
    <3> QED
      BY <3>1, OtherReplyInv
  <2> QED
    BY <1>2, <2>1, <2>2 DEF Peers
<1>3. CASE Manager \/ OpenRemote \/ FailRemote
  <2>1. Others
    BY <1>3 DEF Manager, ManagerStops, FailChannel, TakeChannel, ProxyReturns, OpenRemote,
                FailRemote, channel
  <2> QED
    BY <2>1, OtherReplyInv
<1>4. CASE Loop \/ Forwarded  BY <1>4, LoopReplyInv
<1>5. ASSUME NEW l \in Loads, ServeHTTP(l) PROVE ReplyInv'
  BY <1>5, OtherReplyInv DEF ServeHTTP, channel
<1>6. ASSUME NEW r \in Releases, Behaviour(r) \/ CommandEnds(r) \/ Redirected(r) PROVE ReplyInv'
  BY <1>6, BehaviourReplyInv
<1>7. ASSUME NEW d \in Directions, CopierFails(d) \/ CopierDone(d) PROVE ReplyInv'
  BY <1>7, OtherReplyInv DEF CopierFails, CopierDone, CopierEnds, channel
<1>8. CASE Teardown  BY <1>8, OtherReplyInv DEF Teardown, channel
<1>9. CASE Rack  BY <1>9, OtherReplyInv DEF Rack, channel
<1>10. CASE UNCHANGED sshVars  BY <1>10, OtherReplyInv DEF sshVars, channel
<1> QED
  BY <1>1, <1>2, <1>3, <1>4, <1>5, <1>6, <1>7, <1>8, <1>9, <1>10 DEF SSHNext

(* However many behaviours release a request, a request has one reply.     *)
THEOREM SSHSpecOneReply == SSHSpec => []OneReply
<1>1. ReplyInv => OneReply
  BY DEF ReplyInv
<1> QED
  BY <1>1, InitReplyInv, NextReplyInv, PTL DEF SSHSpec

-----------------------------------------------------------------------------
(* Types *)

ConnType ==
  /\ kind \in Kinds /\ subs \subseteq Releases /\ want \in BOOLEAN
  /\ dropped \in BOOLEAN
  /\ conn \in {"none", "open", "closed", "left"}
  /\ manager \in {"none", "select", "opening", "returning", "gone"}
  /\ chan \in {"none", "offered", "open", "closed"}
  /\ loop \in {"none", "reading", "forwarding", "gone"}
  /\ remote \in {"none", "open", "closed"}
  /\ eof \subseteq Directions
  /\ copier \in [Directions -> {"none", "copying", "gone"}]
  /\ copied \in BOOLEAN
  /\ ended \in Nat

LEMMA InitConnType == SSHInit => ConnType
<1> SUFFICES ASSUME SSHInit PROVE ConnType
  OBVIOUS
<1>1. subs \subseteq Releases
  BY DEF SSHInit
<1>2. want \in BOOLEAN
  BY DEF SSHInit
<1> QED
  BY <1>1, <1>2 DEF SSHInit, ConnType

LEMMA NextConnType == ConnType /\ [SSHNext]_sshVars => ConnType'
<1> SUFFICES ASSUME ConnType, [SSHNext]_sshVars PROVE ConnType'
  OBVIOUS
<1> USE DEF ConnType, config, server, channel, proxy
<1>1. CASE Accept \/ Drop  BY <1>1 DEF Accept, Drop
<1>2. CASE Peers
  BY <1>2 DEF Peers, Leave, OpenChannel, CloseChan, CloseRemote, Ask, EndOfFile
<1>3. CASE Manager
  BY <1>3 DEF Manager, ManagerStops, FailChannel, TakeChannel, ProxyReturns, ManagerEnds, ClosedConn
<1>4. CASE OpenRemote \/ FailRemote
  BY <1>4 DEF OpenRemote, FailRemote
<1>5. CASE Loop \/ Forwarded
  BY <1>5 DEF Loop, ExitStatus, RequestsEnd, Forward, LoopEnds, ServeRequest, Forwarded
<1>6. ASSUME NEW l \in Loads, ServeHTTP(l) PROVE ConnType'
  BY <1>6 DEF ServeHTTP
<1>7. ASSUME NEW r \in Releases, Behaviour(r) \/ CommandEnds(r) \/ Redirected(r) PROVE ConnType'
  BY <1>7 DEF Behaviour, Behave, Refuse, Answer, Answered, Redirect, CommandEnds, Redirected
<1>8. ASSUME NEW d \in Directions, CopierFails(d) \/ CopierDone(d) PROVE ConnType'
  BY <1>8 DEF CopierFails, CopierDone, CopierEnds, CopyState
<1>9. CASE Teardown  BY <1>9 DEF Teardown
<1>10. CASE Rack  BY <1>10 DEF Rack
<1>11. CASE UNCHANGED sshVars  BY <1>11 DEF sshVars
<1> HIDE DEF ConnType
<1> QED
  BY <1>1, <1>2, <1>3, <1>4, <1>5, <1>6, <1>7, <1>8, <1>9, <1>10, <1>11 DEF SSHNext

(* Every variable of a protocol and of its rack keeps to its range.         *)
THEOREM SSHSpecTypeOK == SSHSpec => []SSHTypeOK
<1>1. TypeOK /\ ConnType /\ ReplyInv => SSHTypeOK
  BY DEF SSHTypeOK, ConnType, ReplyInv, ReplyType
<1>2. SSHSpec => []ConnType
  BY InitConnType, NextConnType, PTL DEF SSHSpec
<1>3. SSHSpec => []ReplyInv
  BY InitReplyInv, NextReplyInv, PTL DEF SSHSpec
<1> QED
  BY <1>1, <1>2, <1>3, SSHSpecRack, SpecTypeOK, PTL
=============================================================================
