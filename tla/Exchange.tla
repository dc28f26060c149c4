------------------------------ MODULE Exchange ------------------------------
(***************************************************************************)
(* One proxied exchange: a Stream function of proxies.TCP or proxies.HTTP  *)
(* wraps the client's end as src, makes the destination's end dest, and    *)
(* hands the pair (a ConnInsight) to its ProxyStream, whose processor      *)
(* moves the traffic.  TCP has two copiers, one per direction, and a       *)
(* goroutine that closes the insight when both have returned; HTTP runs    *)
(* one of four handlers that moves one request up and one response down.   *)
(*                                                                         *)
(* An end is a StreamConn over a net.Conn, or a ReqResConn over an         *)
(* http.Request.  A chunk is what one Read returns; the first one of a     *)
(* request or response is its head.  The peers are arbitrary: they send,   *)
(* end and reset at will, also in the middle of a message.                 *)
(***************************************************************************)
EXTENDS Integers

CONSTANTS
  Modes,            \* the kinds of exchange, each named for its processor
  MaxChunks         \* bound: chunks each peer has to send

ASSUME ExchangeAssumption ==
  /\ Modes \subseteq {"TCP", "HTTPConns", "Net2HTTP", "HTTP2Net", "HTTPReqRes"}
  /\ MaxChunks \in Nat \ {0}

VARIABLES
  mode,             \* the kind of exchange
  stage,            \* how far it is
  src, dest,        \* the two ends
  size,             \* chunks the sender of each direction has to send
  sent,             \* those it has sent
  end,              \* how it has ended its direction
  moved,            \* chunks written to the receiver
  seen,             \* chunks emitted to those who listen in
  copier,           \* the copiers of a TCP exchange
  ws,               \* the WaitGroup their closer waits on
  errs,             \* the directions whose error was given to a reporter
  caller,           \* the net/http handler a ReqResConn came from
  events            \* closing events emitted

traffic == <<size, sent, end, moved, seen>>
vars == <<mode, stage, src, dest, traffic, copier, ws, errs, caller, events>>

Directions == {"up", "down"}      \* from the client, from the destination
Back(d) == IF d = "up" THEN "down" ELSE "up"

SrcIsConn == mode \in {"TCP", "HTTPConns", "HTTP2Net"}
DestIsConn == mode \in {"TCP", "HTTPConns", "Net2HTTP"}

Ended(d) == end[d] /= "open"

(* A request or response was moved to its end.                              *)
Whole(d) == moved[d] = size[d]

(* The request and the ResponseWriter of a ReqResConn are of use until the  *)
(* net/http handler has returned.                                           *)
SrcWorks == SrcIsConn \/ caller = "running"

Init ==
  /\ mode \in Modes
  /\ stage = "dial"
  /\ src = "open"
  /\ dest = "none"
  /\ size \in [Directions -> 1 .. MaxChunks]
  /\ sent = [d \in Directions |-> IF d = "down" \/ SrcIsConn THEN 0 ELSE 1]
  /\ end = [d \in Directions |-> "open"]
  /\ moved = [d \in Directions |-> 0]
  /\ seen = [d \in Directions |-> 0]
  /\ copier = [d \in Directions |-> "none"]
  /\ ws = 0
  /\ errs = {}
  /\ caller = "running"
  /\ events = 0

-----------------------------------------------------------------------------
(* The peers *)

Reachable(d) ==
  IF d = "up" THEN src = "open" ELSE dest = "open" \/ stage \in {"do", "answer"}

Send(d) ==
  /\ Reachable(d)
  /\ end[d] = "open"
  /\ sent[d] < size[d]
  /\ sent' = [sent EXCEPT ![d] = @ + 1]
  /\ UNCHANGED <<mode, stage, src, dest, size, end, moved, seen, copier, ws, errs, caller, events>>

Finish(d, how) ==
  /\ Reachable(d)
  /\ end[d] = "open"
  /\ end' = [end EXCEPT ![d] = how]
  /\ UNCHANGED <<mode, stage, src, dest, size, sent, moved, seen, copier, ws, errs, caller, events>>

(* The handler of ServeHTTPWith has started a goroutine for the exchange    *)
(* and returns; net/http then completes the response.                       *)
CallerReturns ==
  /\ ~SrcIsConn
  /\ caller = "running"
  /\ caller' = "returned"
  /\ UNCHANGED <<mode, stage, src, dest, traffic, copier, ws, errs, events>>

-----------------------------------------------------------------------------
(* Starting *)

(* "ws.Add(2)"                                                              *)
(* Faulty variant: only one copier is waited for. *)
OneCopier == 1
BothCopiers == 2

(* The destination cannot be reached, or the stream is closed by the time   *)
(* the connection to it stands: the call fails and leaves both as they are. *)
Refused(reached) ==
  /\ stage = "dial"
  /\ stage' = "refused"
  /\ dest' = IF reached /\ DestIsConn THEN "open" ELSE dest
  /\ UNCHANGED <<mode, src, traffic, copier, ws, errs, caller, events>>

(* The processor of the stream starts on the pair. *)
Start ==
  /\ stage = "dial"
  /\ dest' = IF DestIsConn THEN "open" ELSE dest
  /\ IF mode = "TCP"
       THEN /\ stage' = "copying"
            /\ ws' = BothCopiers
            /\ copier' = [d \in Directions |-> "reading"]
       ELSE /\ stage' = IF SrcIsConn THEN "request" ELSE "forward"
            /\ UNCHANGED <<ws, copier>>
  /\ UNCHANGED <<mode, src, traffic, errs, caller, events>>

-----------------------------------------------------------------------------
(* TCP: io.Copy from one end to a MultiWriter of the other end and the      *)
(* insight's stream for the direction                                       *)

(* Faulty variant: the listeners come first in the MultiWriter. *)
ListenersFirst(l) ==
  CASE l = "reading" -> "emitting" [] l = "emitting" -> "writing" [] l = "writing" -> "reading"
After(l) ==
  CASE l = "reading" -> "writing" [] l = "writing" -> "emitting" [] l = "emitting" -> "reading"

CopyRead(d) ==
  /\ copier[d] = "reading"
  /\ moved[d] < sent[d]
  /\ copier' = [copier EXCEPT ![d] = After("reading")]
  /\ UNCHANGED <<mode, stage, src, dest, traffic, ws, errs, caller, events>>

CopyWrite(d) ==
  /\ copier[d] = "writing"
  /\ moved' = [moved EXCEPT ![d] = @ + 1]
  /\ copier' = [copier EXCEPT ![d] = After("writing")]
  /\ UNCHANGED <<mode, stage, src, dest, size, sent, end, seen, ws, errs, caller, events>>

CopyEmit(d) ==
  /\ copier[d] = "emitting"
  /\ seen' = [seen EXCEPT ![d] = @ + 1]
  /\ copier' = [copier EXCEPT ![d] = After("emitting")]
  /\ UNCHANGED <<mode, stage, src, dest, size, sent, end, moved, ws, errs, caller, events>>

(* io.Copy does not take the end of the input for an error.                 *)
(* Faulty variant: nor a reset. *)
NeverAnError(how) == FALSE
IsError(how) == how = "error"

(* "ws.Done()", with or without an error.                                   *)
(* Faulty variant: not after an error. *)
DoneUnlessError(failed) == IF failed THEN ws ELSE ws - 1
Done(failed) == ws - 1

CopyEnds(d, failed) ==
  /\ errs' = IF failed THEN errs \cup {d} ELSE errs
  /\ copier' = [copier EXCEPT ![d] = "ended"]
  /\ ws' = Done(failed)
  /\ UNCHANGED <<mode, stage, src, dest, traffic, caller, events>>

(* A reset also discards what was sent before it and not read yet. *)
CopyReadEnds(d) ==
  /\ copier[d] = "reading"
  /\ Ended(d)
  /\ end[d] = "eof" => moved[d] = sent[d]
  /\ CopyEnds(d, IsError(end[d]))

CopyWriteFails(d) ==
  /\ copier[d] = "writing"
  /\ Ended(Back(d))
  /\ CopyEnds(d, TRUE)

CopyStep(d) ==
  CopyRead(d) \/ CopyWrite(d) \/ CopyEmit(d) \/ CopyReadEnds(d) \/ CopyWriteFails(d)

-----------------------------------------------------------------------------
(* HTTP: one request up, one response down *)

HandlerFails(d) ==
  /\ errs' = errs \cup {d}
  /\ stage' = "closing"
  /\ UNCHANGED <<mode, src, dest, traffic, copier, ws, caller, events>>

Goto(l) ==
  /\ stage' = l
  /\ UNCHANGED <<mode, src, dest, size, sent, end, copier, ws, errs, caller, events>>

(* http.ReadRequest from the client's connection. *)
ReadRequest ==
  /\ stage = "request"
  /\ sent["up"] > 0
  /\ Goto("forward")
  /\ UNCHANGED <<moved, seen>>

ReadRequestFails ==
  /\ stage = "request"
  /\ sent["up"] > 0 \/ Ended("up")
  /\ HandlerFails("up")

(* One side of a message has come to its end: all of it was moved, or its   *)
(* sender has ended before; a reset discards what was not read yet.         *)
Through(d, n) == n = size[d] \/ (Ended(d) /\ (end[d] = "eof" => n = sent[d]))

(* A chunk is written to the receiver and emitted.                          *)
MoveChunk(d) ==
  /\ moved[d] < sent[d]
  /\ moved' = [moved EXCEPT ![d] = @ + 1]
  /\ seen' = [seen EXCEPT ![d] = @ + 1]
  /\ UNCHANGED <<mode, stage, src, dest, size, sent, end, copier, ws, errs, caller, events>>

(* "req.Write(destwriter)" reads the body of the request from the client    *)
(* while it writes; its error is dropped.                                   *)
Forward ==
  /\ stage = "forward"
  /\ DestIsConn
  /\ SrcWorks \/ moved["up"] = 0
  /\ MoveChunk("up")

Forwarded ==
  /\ stage = "forward"
  /\ DestIsConn
  /\ Through("up", moved["up"]) \/ Ended("down") \/ ~SrcWorks
  /\ Goto("response")
  /\ UNCHANGED <<moved, seen>>

ReadResponse ==
  /\ stage = "response"
  /\ sent["down"] > 0
  /\ Goto("answer")
  /\ UNCHANGED <<moved, seen>>

ReadResponseFails ==
  /\ stage = "response"
  /\ sent["down"] > 0 \/ Ended("down")
  /\ HandlerFails("down")

(* A destination that is no connection: as much of the request as comes is  *)
(* buffered, the error of that dropped, its body emitted at once; then it   *)
(* goes out with httpclient.Do, which returns when the response has begun.  *)
EmitBody(n) ==
  /\ stage = "forward"
  /\ ~DestIsConn
  /\ n <= sent["up"]
  /\ Through("up", n) \/ ~SrcWorks
  /\ Goto("do")
  /\ seen' = [seen EXCEPT !["up"] = n - 1]
  /\ UNCHANGED moved

Do ==
  /\ stage = "do"
  /\ sent["down"] > 0
  /\ Goto("answer")
  /\ moved' = [moved EXCEPT !["up"] = seen["up"] + 1]
  /\ UNCHANGED seen

DoFails ==
  /\ stage = "do"
  /\ HandlerFails("down")

(* "res.Write(srcwriter)" reads the body of the response from the           *)
(* destination while it writes, and either may fail: its error is dropped,  *)
(* as is what goes to a ResponseWriter whose handler has returned.          *)
Answer ==
  /\ stage = "answer"
  /\ SrcWorks
  /\ MoveChunk("down")

Answered ==
  /\ stage = "answer"
  /\ Through("down", moved["down"]) \/ Ended("up") \/ ~SrcWorks
  /\ Goto("closing")
  /\ UNCHANGED <<moved, seen>>

HandlerStep ==
  \/ ReadRequest \/ ReadRequestFails \/ ReadResponse \/ ReadResponseFails
  \/ Forward \/ Forwarded \/ Answer \/ Answered
  \/ \E n \in 1 .. MaxChunks : EmitBody(n)
  \/ Do \/ DoFails

-----------------------------------------------------------------------------
(* ConnInsight.Close: src is closed, twice, and the event emitted.  Closing *)
(* a ReqResConn does nothing.                                               *)
CloseInsight ==
  /\ \/ stage = "copying" /\ ws = 0
     \/ stage = "closing"
  /\ stage' = "closed"
  /\ src' = IF SrcIsConn THEN "closed" ELSE src
  /\ events' = events + 1
  /\ UNCHANGED <<mode, dest, traffic, copier, ws, errs, caller>>

Next ==
  \/ \E d \in Directions : Send(d) \/ CopyStep(d)
  \/ \E d \in Directions, how \in {"eof", "error"} : Finish(d, how)
  \/ CallerReturns
  \/ Start
  \/ \E reached \in BOOLEAN : Refused(reached)
  \/ HandlerStep
  \/ CloseInsight

Spec == Init /\ [][Next]_vars

(* The exchange's goroutines keep running.  An HTTP request to a            *)
(* destination that is no connection is answered or fails at last; a peer   *)
(* need not send, nor end.                                                  *)
Fairness ==
  /\ WF_vars(HandlerStep)
  /\ \A d \in Directions : WF_vars(CopyStep(d))
  /\ WF_vars(CloseInsight)

FairSpec == Spec /\ Fairness

-----------------------------------------------------------------------------
(* Properties *)

TypeOK ==
  /\ mode \in Modes
  /\ stage \in {"dial", "refused", "copying", "request", "forward", "response", "do",
                "answer", "closing", "closed"}
  /\ src \in {"open", "closed"} /\ dest \in {"none", "open"}
  /\ size \in [Directions -> 1 .. MaxChunks]
  /\ sent \in [Directions -> 0 .. MaxChunks]
  /\ end \in [Directions -> {"open", "eof", "error"}]
  /\ moved \in [Directions -> Nat]
  /\ seen \in [Directions -> Nat]
  /\ copier \in [Directions -> {"none", "reading", "writing", "emitting", "ended"}]
  /\ ws \in 0 .. 2
  /\ errs \subseteq Directions
  /\ caller \in {"running", "returned"}
  /\ events \in 0 .. 1

Copying(d) == copier[d] \in {"reading", "writing", "emitting"}

(* ws counts the copiers that have yet to return, so that the insight is    *)
(* closed under neither of them: while a copier moves chunks, the source    *)
(* it reads or writes is open and nobody has been told of a closing.        *)
SourceOutlivesCopiers ==
  \A d \in Directions : Copying(d) => src = "open" /\ events = 0

(* What is lost in silence.  When a TCP exchange is closed, each direction  *)
(* has moved all its sender sent before ending, or its error was reported.  *)
(* When an HTTP exchange of a client's connection is closed, request and    *)
(* response have been moved whole, or an error was reported, or the client  *)
(* has ended, or the destination has in the middle of its response: that    *)
(* the client got half of it is told to nobody.                             *)
LostIsReported ==
  stage = "closed" =>
    /\ mode = "TCP" =>
         \A d \in Directions : d \in errs \/ (end[d] = "eof" /\ moved[d] = sent[d])
    /\ mode \in {"HTTPConns", "HTTP2Net"} =>
         \/ errs /= {}
         \/ Whole("up") /\ Whole("down")
         \/ Ended("up")
         \/ Ended("down") /\ sent["down"] > 0

(* Those who listen in on an exchange between two ends that are written     *)
(* through see what was moved, no more, and never lag by more than the one  *)
(* chunk under way.                                                         *)
ListenersFollow ==
  mode \in {"TCP", "HTTPConns", "Net2HTTP"} =>
    \A d \in Directions : moved[d] - seen[d] \in 0 .. 1

(* When both peers have ended, the client's end is released and the         *)
(* closing announced, whichever way they ended and whatever failed.         *)
EndedIsReleased ==
  (Ended("up") /\ Ended("down") /\ stage \notin {"dial", "refused"})
    ~> (stage = "closed" /\ events = 1)
=============================================================================
