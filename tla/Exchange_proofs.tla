--------------------------- MODULE Exchange_proofs ---------------------------
(***************************************************************************)
(* An exchange, of any kind and length, closes its source under nobody,    *)
(* loses nothing in silence, and shows its listeners what it moves.        *)
(***************************************************************************)
EXTENDS Exchange, TLAPS

Working(d) == IF Copying(d) THEN 1 ELSE 0

(* Only a TCP exchange copies, and its WaitGroup counts the copiers at work. *)
Shape ==
  /\ stage \in {"dial", "refused"} =>
       \A d \in Directions : copier[d] = "none" /\ moved[d] = 0 /\ seen[d] = 0
  /\ stage = "do" => ~DestIsConn
  /\ mode /= "TCP" => stage /= "copying" /\ \A d \in Directions : copier[d] = "none"
  /\ mode = "TCP" => stage \in {"dial", "refused", "copying", "closed"}
  /\ mode = "TCP" /\ stage \in {"copying", "closed"} =>
       /\ \A d \in Directions : copier[d] /= "none"
       /\ ws = Working("up") + Working("down")
  /\ stage /= "closed" => src = "open" /\ events = 0

(* How far a copier is, and why it has returned. *)
Progress(d) ==
  /\ copier[d] = "writing" => moved[d] < sent[d]
  /\ copier[d] = "emitting" => moved[d] <= sent[d] /\ moved[d] = seen[d] + 1
  /\ copier[d] = "reading" => moved[d] <= sent[d]
  /\ copier[d] = "ended" => d \in errs \/ (end[d] = "eof" /\ moved[d] = sent[d])
  /\ mode \in {"TCP", "HTTPConns", "Net2HTTP"} /\ copier[d] /= "emitting" => moved[d] = seen[d]

(* What a handler on its way to the response has behind it: the request     *)
(* went out whole, or one of the peers has ended.                           *)
Requested ==
  mode \in {"HTTPConns", "HTTP2Net"} =>
    /\ stage = "do" => seen["up"] + 1 = size["up"] \/ Ended("up")
    /\ stage \in {"response", "answer"} => Whole("up") \/ Ended("up") \/ Ended("down")
    /\ stage = "answer" => sent["down"] > 0

(* A handler that is through has moved both, reported, or lost a peer. *)
Accounted ==
  stage \in {"closing", "closed"} /\ mode \in {"HTTPConns", "HTTP2Net"} =>
    \/ errs /= {}
    \/ Whole("up") /\ Whole("down")
    \/ Ended("up")
    \/ Ended("down") /\ sent["down"] > 0

(* A closed TCP exchange has no copier at work. *)
ClosedIsQuiet == mode = "TCP" /\ stage = "closed" => \A d \in Directions : copier[d] = "ended"

Handled == Requested /\ Accounted /\ ClosedIsQuiet

XInv == TypeOK /\ Shape /\ (\A d \in Directions : Progress(d)) /\ Handled

LEMMA InitXInv == Init => XInv
<1> SUFFICES ASSUME Init PROVE XInv
  OBVIOUS
<1> USE DEF Directions
<1>1. TypeOK
  <2>1. sent \in [Directions -> 0 .. MaxChunks]
    BY ExchangeAssumption DEF Init
  <2> QED  BY <2>1 DEF Init, TypeOK
<1>2. Shape  BY DEF Init, Shape
<1>3. \A d \in Directions : Progress(d)  BY DEF Init, Progress
<1>4. Handled  BY DEF Init, Handled, Requested, Accounted, ClosedIsQuiet
<1> QED  BY <1>1, <1>2, <1>3, <1>4 DEF XInv

(* What the peers and the caller do touches neither the copiers nor what    *)
(* they have moved.                                                         *)
LEMMA PeersXInv ==
  ASSUME XInv, NEW d \in Directions,
         Send(d) \/ (\E how \in {"eof", "error"} : Finish(d, how)) \/ CallerReturns
  PROVE  XInv'
<1> USE DEF XInv, Directions
<1>1. CASE Send(d)
  <2>1. TypeOK'  BY <1>1, ExchangeAssumption DEF Send, TypeOK, Reachable
  <2>2. Shape'  BY <1>1 DEF Send, Shape, Working, Copying, DestIsConn, traffic
  <2>3. \A e \in Directions : Progress(e)'  BY <1>1 DEF Send, Progress, TypeOK
  <2>4. Handled'
    BY <1>1 DEF Send, Handled, Requested, Accounted, ClosedIsQuiet, Ended, Whole, TypeOK
  <2> QED  BY <2>1, <2>2, <2>3, <2>4
<1>2. ASSUME NEW how \in {"eof", "error"}, Finish(d, how) PROVE XInv'
  <2>1. TypeOK'  BY <1>2 DEF Finish, TypeOK
  <2>2. Shape'  BY <1>2 DEF Finish, Shape, Working, Copying, DestIsConn, traffic
  <2>3. \A e \in Directions : Progress(e)'  BY <1>2 DEF Finish, Progress, TypeOK
  <2>4. Handled'
    BY <1>2 DEF Finish, Handled, Requested, Accounted, ClosedIsQuiet, Ended, Whole, TypeOK
  <2> QED  BY <2>1, <2>2, <2>3, <2>4
<1>3. CASE CallerReturns
  <2>1. TypeOK'  BY <1>3 DEF CallerReturns, TypeOK, traffic
  <2>2. Shape'  BY <1>3 DEF CallerReturns, Shape, Working, Copying, DestIsConn, traffic
  <2>3. \A e \in Directions : Progress(e)'  BY <1>3 DEF CallerReturns, Progress, traffic
  <2>4. Handled'
    BY <1>3 DEF CallerReturns, Handled, Requested, Accounted, ClosedIsQuiet, Ended, Whole, traffic
  <2> QED  BY <2>1, <2>2, <2>3, <2>4
<1> QED  BY <1>1, <1>2, <1>3

LEMMA StartXInv ==
  ASSUME XInv, Start \/ (\E reached \in BOOLEAN : Refused(reached))
  PROVE  XInv'
<1> USE DEF XInv, Directions
<1>1. CASE Start
  <2>1. TypeOK'  BY <1>1 DEF Start, TypeOK, BothCopiers, traffic
  <2>2. Shape'
    BY <1>1, ExchangeAssumption
    DEF Start, Shape, TypeOK, DestIsConn, traffic, Working, Copying, BothCopiers, SrcIsConn
  <2>3. \A e \in Directions : Progress(e)'
    BY <1>1 DEF Start, Progress, Shape, TypeOK, traffic
  <2>4. Handled'
    BY <1>1 DEF Start, Handled, Requested, Accounted, ClosedIsQuiet, SrcIsConn
  <2> QED  BY <2>1, <2>2, <2>3, <2>4
<1>2. ASSUME NEW reached \in BOOLEAN, Refused(reached) PROVE XInv'
  <2>1. TypeOK'  BY <1>2 DEF Refused, TypeOK, traffic
  <2>2. Shape'  BY <1>2 DEF Refused, Shape, Working, Copying, DestIsConn, traffic
  <2>3. \A e \in Directions : Progress(e)'  BY <1>2 DEF Refused, Progress, traffic
  <2>4. Handled'
    BY <1>2 DEF Refused, Handled, Requested, Accounted, ClosedIsQuiet
  <2> QED  BY <2>1, <2>2, <2>3, <2>4
<1> QED  BY <1>1, <1>2

(* A copier at work means a TCP exchange that is copying, and that the      *)
(* WaitGroup is not yet at zero.                                            *)
LEMMA AtWork ==
  ASSUME XInv, NEW d \in Directions, Copying(d)
  PROVE  mode = "TCP" /\ stage \in {"copying", "closed"} /\ ws >= 1 /\ stage /= "closed"
  BY DEF XInv, Handled, Shape, ClosedIsQuiet, Copying, Working, Directions

LEMMA CopyXInv ==
  ASSUME XInv, NEW d \in Directions, CopyStep(d)
  PROVE  XInv'
<1> USE DEF Directions
<1>0. Copying(d)
  BY DEF CopyStep, CopyRead, CopyWrite, CopyEmit, CopyReadEnds, CopyWriteFails, Copying
<1>w. mode = "TCP" /\ stage = "copying" /\ ws >= 1
  BY <1>0, AtWork
<1>1. CASE CopyRead(d)
  <2>1. TypeOK'  BY <1>1 DEF XInv, CopyRead, TypeOK, After, traffic
  <2>2. Shape'
    BY <1>1, <1>w DEF XInv, CopyRead, Shape, TypeOK, DestIsConn, traffic, Working, Copying, After
  <2>3. \A e \in Directions : Progress(e)'
    BY <1>1 DEF XInv, CopyRead, Progress, TypeOK, After, traffic
  <2>4. Handled'
    BY <1>1, <1>w DEF CopyRead, Handled, Requested, Accounted, ClosedIsQuiet
  <2> QED  BY <2>1, <2>2, <2>3, <2>4 DEF XInv
<1>2. CASE CopyWrite(d)
  <2>1. TypeOK'  BY <1>2 DEF XInv, CopyWrite, TypeOK, After
  <2>2. Shape'
    BY <1>2, <1>w DEF XInv, CopyWrite, Shape, TypeOK, DestIsConn, traffic, Working, Copying, After
  <2>3. \A e \in Directions : Progress(e)'
    BY <1>2, <1>w DEF XInv, CopyWrite, Progress, TypeOK, After
  <2>4. Handled'
    BY <1>2, <1>w DEF CopyWrite, Handled, Requested, Accounted, ClosedIsQuiet
  <2> QED  BY <2>1, <2>2, <2>3, <2>4 DEF XInv
<1>3. CASE CopyEmit(d)
  <2>1. TypeOK'  BY <1>3 DEF XInv, CopyEmit, TypeOK, After
  <2>2. Shape'
    BY <1>3, <1>w DEF XInv, CopyEmit, Shape, TypeOK, DestIsConn, traffic, Working, Copying, After
  <2>3. \A e \in Directions : Progress(e)'
    BY <1>3, <1>w DEF XInv, CopyEmit, Progress, TypeOK, After
  <2>4. Handled'
    BY <1>3, <1>w DEF CopyEmit, Handled, Requested, Accounted, ClosedIsQuiet
  <2> QED  BY <2>1, <2>2, <2>3, <2>4 DEF XInv
<1>4. ASSUME NEW failed \in BOOLEAN, CopyEnds(d, failed), copier[d] \in {"reading", "writing"},
             failed \/ (end[d] = "eof" /\ moved[d] = sent[d])
      PROVE  XInv'
  <2>1. TypeOK'
    BY <1>4, <1>w DEF XInv, CopyEnds, TypeOK, Done, traffic
  <2>2. Shape'
    BY <1>4, <1>w, <1>0 DEF XInv, CopyEnds, Shape, TypeOK, DestIsConn, traffic, Working, Copying, Done
  <2>3. \A e \in Directions : Progress(e)'
    BY <1>4 DEF XInv, CopyEnds, Progress, TypeOK, traffic
  <2>4. Handled'
    BY <1>4, <1>w DEF CopyEnds, Handled, Requested, Accounted, ClosedIsQuiet
  <2> QED  BY <2>1, <2>2, <2>3, <2>4 DEF XInv
<1>5. CASE CopyReadEnds(d)
  BY <1>5, <1>4 DEF CopyReadEnds, IsError, Ended, XInv, TypeOK
<1>6. CASE CopyWriteFails(d)
  BY <1>6, <1>4 DEF CopyWriteFails
<1> QED  BY <1>1, <1>2, <1>3, <1>5, <1>6 DEF CopyStep

(* A handler that goes on, and has moved d or nothing. *)
LEMMA GotoXInv ==
  ASSUME XInv, NEW l \in {"forward", "response", "do", "answer", "closing"}, Goto(l),
         stage \in {"request", "forward", "response", "do", "answer"}, l = "do" => ~DestIsConn,
         moved' \in [Directions -> Nat], seen' \in [Directions -> Nat],
         DestIsConn => UNCHANGED <<moved, seen>>,
         Handled'
  PROVE  XInv'
<1> USE DEF Directions
<1>0. mode /= "TCP" /\ \A d \in Directions : copier[d] = "none"
  BY DEF XInv, Shape
<1>1. TypeOK'  BY DEF XInv, Goto, TypeOK
<1>2. Shape'  BY <1>0 DEF XInv, Goto, Shape, Working, Copying, DestIsConn, traffic
<1>3. \A e \in Directions : Progress(e)'
  BY <1>0 DEF XInv, Goto, Progress, DestIsConn
<1> QED  BY <1>1, <1>2, <1>3 DEF XInv

LEMMA HandlerXInv ==
  ASSUME XInv, HandlerStep
  PROVE  XInv'
<1> USE DEF Directions
<1>0. /\ stage \in {"request", "forward", "response", "do", "answer"} => mode /= "TCP"
      /\ mode /= "TCP" => \A d \in Directions : copier[d] = "none"
  BY DEF XInv, Shape
<1>t. TypeOK
  BY DEF XInv
<1>h. Handled
  BY DEF XInv
<1>1. ASSUME NEW d \in Directions, HandlerFails(d), stage \in {"request", "response", "do"}
      PROVE  XInv'
  <2>1. TypeOK'  BY <1>1 DEF XInv, HandlerFails, TypeOK, traffic
  <2>2. Shape'  BY <1>1, <1>0 DEF XInv, HandlerFails, Shape, Working, Copying, DestIsConn, traffic
  <2>3. \A e \in Directions : Progress(e)'
    BY <1>1 DEF XInv, HandlerFails, Progress, traffic
  <2>4. Handled'
    BY <1>1 DEF HandlerFails, Handled, Requested, Accounted, ClosedIsQuiet
  <2> QED  BY <2>1, <2>2, <2>3, <2>4 DEF XInv
<1>2. ASSUME NEW d \in Directions, MoveChunk(d), stage \in {"forward", "answer"}, Handled'
      PROVE  XInv'
  <2>1. TypeOK'  BY <1>2 DEF XInv, MoveChunk, TypeOK
  <2>2. Shape'  BY <1>2, <1>0 DEF XInv, MoveChunk, Shape, Working, Copying, DestIsConn
  <2>3. \A e \in Directions : Progress(e)'
    BY <1>2, <1>0, <1>t DEF XInv, MoveChunk, Progress, TypeOK
  <2> QED  BY <1>2, <2>1, <2>2, <2>3 DEF XInv
<1>3. CASE ReadRequest
  <2>1. Handled'  BY <1>3 DEF ReadRequest, Goto, Handled, Requested, Accounted, ClosedIsQuiet
  <2> QED  BY <1>3, <1>t, <2>1, GotoXInv DEF ReadRequest, TypeOK
<1>4. CASE ReadRequestFails
  BY <1>4, <1>1 DEF ReadRequestFails
<1>5. CASE ReadResponse
  <2>1. Handled'
    BY <1>5, <1>h DEF ReadResponse, Goto, Handled, Requested, Accounted, ClosedIsQuiet, Whole, Ended
  <2> QED  BY <1>5, <1>t, <2>1, GotoXInv DEF ReadResponse, TypeOK
<1>6. CASE ReadResponseFails \/ DoFails
  BY <1>6, <1>1 DEF ReadResponseFails, DoFails
<1>7. CASE Forward
  <2>1. Handled'
    BY <1>7 DEF Forward, MoveChunk, Handled, Requested, Accounted, ClosedIsQuiet
  <2> QED  BY <1>7, <2>1, <1>2 DEF Forward
<1>8. CASE Forwarded
  <2>1. mode \in {"HTTPConns", "HTTP2Net"} => Whole("up") \/ Ended("up") \/ Ended("down")
    BY <1>8 DEF Forwarded, Through, Whole, SrcWorks, SrcIsConn
  <2>2. Handled'
    BY <1>8, <2>1 DEF Forwarded, Goto, Handled, Requested, Accounted, ClosedIsQuiet, Whole, Ended
  <2> QED  BY <1>8, <1>t, <2>2, GotoXInv DEF Forwarded, TypeOK
<1>9. ASSUME NEW n \in 1 .. MaxChunks, EmitBody(n) PROVE XInv'
  <2>1. seen' = [seen EXCEPT !["up"] = n - 1] /\ n - 1 \in Nat
    BY <1>9, ExchangeAssumption DEF EmitBody
  <2>2. seen' \in [Directions -> Nat] /\ seen'["up"] = n - 1
    BY <1>t, <2>1 DEF TypeOK
  <2>3. mode \in {"HTTPConns", "HTTP2Net"} => n = size["up"] \/ Ended("up")
    BY <1>9 DEF EmitBody, Through, SrcWorks, SrcIsConn
  <2>4. Handled'
    <3>1. seen'["up"] + 1 = n
      BY <2>2, ExchangeAssumption
    <3> QED
      BY <1>9, <2>3, <3>1 DEF EmitBody, Goto, Handled, Requested, Accounted, ClosedIsQuiet, Ended
  <2> QED  BY <1>9, <1>t, <2>2, <2>4, GotoXInv DEF EmitBody, TypeOK
<1>10. CASE Do
  <2>1. moved' \in [Directions -> Nat] /\ moved'["up"] = seen["up"] + 1
    BY <1>10, <1>t DEF Do, TypeOK
  <2>2. ~DestIsConn
    BY <1>10 DEF Do, XInv, Shape
  <2>3. Handled'
    BY <1>10, <1>h, <2>1 DEF Do, Goto, Handled, Requested, Accounted, ClosedIsQuiet, Whole, Ended
  <2> QED  BY <1>10, <1>t, <2>1, <2>2, <2>3, GotoXInv DEF Do, TypeOK
<1>11. CASE Answer
  <2>1. Handled'
    BY <1>11, <1>h, <1>t
    DEF Answer, MoveChunk, Handled, Requested, Accounted, ClosedIsQuiet, Whole, Ended, TypeOK
  <2> QED  BY <1>11, <2>1, <1>2 DEF Answer
<1>12. CASE Answered
  <2>1. mode \in {"HTTPConns", "HTTP2Net"} => Whole("down") \/ Ended("up") \/ Ended("down")
    BY <1>12 DEF Answered, Through, Whole, SrcWorks, SrcIsConn
  <2>2. Handled'
    BY <1>12, <1>h, <2>1
    DEF Answered, Goto, Handled, Requested, Accounted, ClosedIsQuiet, Whole, Ended
  <2> QED  BY <1>12, <1>t, <2>2, GotoXInv DEF Answered, TypeOK
<1> QED
  BY <1>3, <1>4, <1>5, <1>6, <1>7, <1>8, <1>9, <1>10, <1>11, <1>12 DEF HandlerStep

LEMMA CloseXInv ==
  ASSUME XInv, CloseInsight
  PROVE  XInv'
<1> USE DEF Directions
<1>1. mode = "TCP" => stage = "copying" /\ ws = 0
  BY DEF CloseInsight, XInv, Shape
<1>2. mode = "TCP" => \A d \in Directions : copier[d] = "ended"
  BY <1>1 DEF XInv, Shape, TypeOK, DestIsConn, traffic, Working, Copying
<1>3. TypeOK'
  <2>1. events = 0  BY DEF CloseInsight, XInv, Shape
  <2> QED  BY <2>1 DEF CloseInsight, XInv, TypeOK, traffic
<1>4. Shape'
  BY <1>1 DEF CloseInsight, XInv, Shape, Working, Copying, DestIsConn, traffic
<1>5. \A e \in Directions : Progress(e)'
  BY DEF CloseInsight, XInv, Progress, traffic
<1>6. Requested' /\ Accounted'
  <2>1. mode /= "TCP" => stage = "closing"
    BY DEF CloseInsight, XInv, Shape
  <2> QED
    BY <1>1, <2>1 DEF CloseInsight, XInv, Handled, Requested, Accounted, Ended, Whole, traffic
<1>7. ClosedIsQuiet'
  BY <1>2 DEF CloseInsight, ClosedIsQuiet
<1> QED  BY <1>3, <1>4, <1>5, <1>6, <1>7 DEF XInv, Handled

LEMMA NextXInv == XInv /\ [Next]_vars => XInv'
<1> SUFFICES ASSUME XInv, [Next]_vars PROVE XInv'
  OBVIOUS
<1>1. CASE UNCHANGED vars
  BY <1>1 DEF XInv, TypeOK, Shape, Progress, Handled, Requested, Accounted, ClosedIsQuiet,
              Working, Copying, Ended, Whole, DestIsConn, vars, traffic
<1>2. CASE Next
  BY <1>2, PeersXInv, StartXInv, CopyXInv, HandlerXInv, CloseXInv DEF Next, Directions
<1> QED  BY <1>1, <1>2

LEMMA SpecXInv == Spec => []XInv
  BY InitXInv, NextXInv, PTL DEF Spec

(* Every variable of an exchange keeps to its range: the WaitGroup, too,    *)
(* which would panic below zero.                                            *)
THEOREM SpecTypeOK == Spec => []TypeOK
<1>1. XInv => TypeOK  BY DEF XInv
<1> QED  BY <1>1, SpecXInv, PTL

(* The insight is closed under no copier.                                   *)
THEOREM SpecSourceOutlivesCopiers == Spec => []SourceOutlivesCopiers
<1>1. XInv => SourceOutlivesCopiers
  <2> SUFFICES ASSUME XInv, NEW d \in Directions, Copying(d) PROVE src = "open" /\ events = 0
    BY DEF SourceOutlivesCopiers
  <2>1. stage /= "closed"  BY AtWork
  <2> QED  BY <2>1 DEF XInv, Shape
<1> QED  BY <1>1, SpecXInv, PTL

(* What a closed exchange has not moved, it has reported.                   *)
THEOREM SpecLostIsReported == Spec => []LostIsReported
<1>1. XInv => LostIsReported
  BY DEF XInv, LostIsReported, Progress, Handled, Accounted, ClosedIsQuiet
<1> QED  BY <1>1, SpecXInv, PTL

(* Listeners see what is moved, up to the chunk under way.                  *)
THEOREM SpecListenersFollow == Spec => []ListenersFollow
<1>1. XInv => ListenersFollow
  <2> SUFFICES ASSUME XInv, mode \in {"TCP", "HTTPConns", "Net2HTTP"}, NEW d \in Directions
               PROVE  moved[d] - seen[d] \in 0 .. 1
    BY DEF ListenersFollow
  <2>1. moved[d] \in Nat /\ seen[d] \in Nat  BY DEF XInv, TypeOK
  <2>2. CASE copier[d] = "emitting"  BY <2>1, <2>2 DEF XInv, Progress
  <2>3. CASE copier[d] /= "emitting"  BY <2>1, <2>3 DEF XInv, Progress
  <2> QED  BY <2>2, <2>3
<1> QED  BY <1>1, SpecXInv, PTL
=============================================================================
