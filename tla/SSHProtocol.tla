---------------------------- MODULE SSHProtocol ----------------------------
(***************************************************************************)
(* A connection to a protocol of servedrop: an SSHProtocol that answers    *)
(* requests itself (standard), an SSHProxyProtocol, which copies a channel *)
(* to the client of the user's session (proxy), or an HTTPProtocol, of     *)
(* which only its requests are here (http).  Dial accepts the connection   *)
(* and starts its manager, which takes the channels that the user opens.   *)
(* A request is served as a PayloadRack; each behaviour on its route       *)
(* releases the rack, and answers the request when it is done.             *)
(*                                                                         *)
(* The rack is the module PayloadRack; its releases are the behaviours.    *)
(* flux calls the subscribers of a socket, and the functions given to an   *)
(* action, one by one or side by side: here they come in any order, and    *)
(* one that waits may hold up the others.  The peer of an ssh channel that *)
(* is closed closes it, too.                                               *)
(***************************************************************************)
EXTENDS PayloadRack, Integers, Sequences

CONSTANT Kinds

ASSUME SSHAssumption ==
  /\ Kinds \subseteq {"standard", "proxy", "http"}
  /\ Releases \subseteq {"refuse", "redirect", "answer"}
  /\ "request" \in Loads

VARIABLES
  kind,
  subs, want,       \* the behaviours on the route, whether a reply is wanted
  dropped,          \* ProtocolClosed is closed
  conn,             \* the connection: open, closed by the server, or left
  manager,          \* the goroutine that takes the channels
  chan,             \* the user's channel
  queue,            \* the requests sent on it and not read yet
  loop,             \* the goroutine that reads them
  callback,         \* where each behaviour is
  replied,          \* cpay.Do has run, or a proxy has replied
  replies,          \* the replies sent
  remote,           \* rcChannel, the channel to the destination
  eof,              \* the directions in which no more data will come
  copier,           \* the goroutine that copies each direction
  copied,           \* copyState is closed
  ended             \* NetworkClose events

config == <<kind, subs, want>>
server == <<dropped, conn, manager>>
channel == <<chan, queue, loop>>
reply == <<callback, replied, replies>>
proxy == <<remote, eof, copier, copied, ended>>
sshVars == <<vars, config, server, channel, reply, proxy>>

Directions == {"up", "down"}      \* from the user, from the destination

SSHInit ==
  /\ Init
  /\ kind \in Kinds
  /\ kind /= "http" => immediate
  /\ subs \in IF kind = "proxy" THEN {{}} ELSE SUBSET Releases
  /\ want \in IF kind = "http" THEN {FALSE} ELSE BOOLEAN
  /\ dropped = FALSE
  /\ conn = "none"
  /\ manager = "none"
  /\ chan = "none" /\ queue = <<>> /\ loop = "none"
  /\ callback = [r \in Releases |-> "none"]
  /\ replied = FALSE /\ replies = 0
  /\ remote = "none" /\ eof = {}
  /\ copier = [d \in Directions |-> "none"]
  /\ copied = FALSE
  /\ ended = 0

ChanOpen == chan = "open" /\ conn = "open"

-----------------------------------------------------------------------------
(* Dial and Drop *)

(* Bound: one connection.  Its handshake is part of the step.  The listener *)
(* is closed some time after Drop and until then accepts; later, Accept     *)
(* fails and Dial retries it for ever.                                      *)
Accept ==
  /\ kind /= "http"
  /\ conn = "none"
  /\ conn' = "open"
  /\ manager' = "select"
  /\ UNCHANGED <<vars, config, dropped, channel, reply, proxy>>

(* Bound: once.  A second Drop closes a closed channel and panics. *)
Drop ==
  /\ kind /= "http"
  /\ ~dropped
  /\ dropped' = TRUE
  /\ UNCHANGED <<vars, config, conn, manager, channel, reply, proxy>>

-----------------------------------------------------------------------------
(* The user and the destination *)

Leave ==
  /\ conn = "open"
  /\ conn' = "left"
  /\ UNCHANGED <<vars, config, dropped, manager, channel, reply, proxy>>

(* Bound: one channel, and on it one request before one exit-status, which  *)
(* the destination may send, too.  A user of a standard protocol closes it  *)
(* only by exit-status or by leaving.                                       *)
OpenChannel ==
  /\ conn = "open" /\ chan = "none"
  /\ chan' = "offered"
  /\ UNCHANGED <<vars, config, server, queue, loop, reply, proxy>>

Ask(r) ==
  /\ ChanOpen \/ (r = "exit-status" /\ remote = "open")
  /\ {r, "exit-status"} \cap {queue[i] : i \in DOMAIN queue} = {}
  /\ r = "request" => ~once /\ ~replied /\ loop /= "forwarding"
  /\ queue' = Append(queue, r)
  /\ UNCHANGED <<vars, config, server, chan, loop, reply, proxy>>

EndOfFile(d) ==
  /\ kind = "proxy" /\ d \notin eof
  /\ IF d = "up" THEN ChanOpen ELSE remote = "open"
  /\ eof' = eof \cup {d}
  /\ UNCHANGED <<vars, config, server, channel, reply, remote, copier, copied, ended>>

CloseChan ==
  /\ kind = "proxy"
  /\ ChanOpen
  /\ chan' = "closed"
  /\ UNCHANGED <<vars, config, server, queue, loop, reply, proxy>>

CloseRemote ==
  /\ remote = "open"
  /\ remote' = "closed"
  /\ UNCHANGED <<vars, config, server, channel, reply, eof, copier, copied, ended>>

-----------------------------------------------------------------------------
(* The manager of the channels *)

(* It ends, and its deferred calls close closer and the connection.        *)
(* Faulty variant: the connection is left open. *)
LeftOpenConn == conn
ClosedConn == IF conn = "open" THEN "closed" ELSE conn

ManagerEnds ==
  /\ manager' = "gone"
  /\ conn' = ClosedConn

(* It is polling, and sees ProtocolClosed.  A connection that is closed     *)
(* only hands it nil channels, which it passes over.                        *)
ManagerStops ==
  /\ manager = "select"
  /\ dropped
  /\ ManagerEnds
  /\ UNCHANGED <<vars, config, dropped, channel, reply, proxy>>

(* A channel whose type has no route is rejected; one that cannot be        *)
(* accepted is lost; one that gets no pty stays open with nobody to read    *)
(* its requests.  A proxy's manager is through with any of them: it returns *)
(* after its first channel.                                                 *)
FailChannel ==
  /\ manager = "select"
  /\ chan = "offered" /\ conn = "open"
  /\ chan' \in {"closed"} \cup (IF kind = "standard" THEN {"open"} ELSE {})
  /\ manager' = IF kind = "proxy" THEN "returning" ELSE manager
  /\ UNCHANGED <<vars, config, dropped, conn, queue, loop, reply, proxy>>

TakeChannel ==
  /\ manager = "select"
  /\ chan = "offered" /\ conn = "open"
  /\ chan' = "open"
  /\ IF kind = "proxy"
       THEN manager' = "opening" /\ UNCHANGED loop
       ELSE loop' = "reading" /\ UNCHANGED manager
  /\ UNCHANGED <<vars, config, dropped, conn, queue, reply, proxy>>

(* The subscriber of a proxy's NetworkOpen asks the client of the session   *)
(* for a channel and waits for the destination's answer, ...                *)
OpenRemote ==
  /\ manager = "opening"
  /\ manager' = "returning"
  /\ remote' = "open"
  /\ loop' = "reading"
  /\ copier' = [d \in Directions |-> "copying"]
  /\ UNCHANGED <<vars, config, dropped, conn, chan, queue, reply, eof, copied, ended>>

(* ... or finds no session for the address, or gets no channel. *)
FailRemote ==
  /\ manager = "opening"
  /\ manager' = "returning"
  /\ UNCHANGED <<vars, config, dropped, conn, channel, reply, proxy>>

ProxyReturns ==
  /\ manager = "returning"
  /\ ManagerEnds
  /\ UNCHANGED <<vars, config, dropped, channel, reply, proxy>>

-----------------------------------------------------------------------------
(* Standard: the requests of a channel *)

(* The route was made with a Failure: one without makes no rack, and no     *)
(* behaviour then takes the request.                                        *)
ServeRequest ==
  /\ kind = "standard"
  /\ loop = "reading"
  /\ queue /= <<>> /\ Head(queue) = "request"
  /\ queue' = Tail(queue)
  /\ Load("request")
  /\ UNCHANGED <<config, server, chan, loop, reply, proxy>>

ExitStatus ==
  /\ kind = "standard"
  /\ loop = "reading"
  /\ queue /= <<>> /\ Head(queue) = "exit-status"
  /\ queue' = Tail(queue)
  /\ chan' = "closed"
  /\ loop' = "gone"
  /\ UNCHANGED <<vars, config, server, reply, proxy>>

RequestsEnd ==
  /\ kind = "standard"
  /\ loop = "reading"
  /\ queue = <<>> /\ ~ChanOpen
  /\ loop' = "gone"
  /\ UNCHANGED <<vars, config, server, chan, queue, reply, proxy>>

(* ProcessRequests; a handler that has the rack may load it again. *)
ServeHTTP(l) ==
  /\ kind = "http"
  /\ Load(l)
  /\ UNCHANGED <<config, server, channel, reply, proxy>>

-----------------------------------------------------------------------------
(* The behaviours *)

Behave(r) ==
  /\ r \in subs /\ once
  /\ Release(r)
  /\ UNCHANGED <<config, server, channel, reply, proxy>>

(* The function given to When, for the payload of an ssh channel. *)
Called(r) ==
  /\ kind = "standard"
  /\ r \in subs
  /\ release[r] = "returned"
  /\ done /= None

(* cpay.Do runs for the first behaviour only.                              *)
(* Faulty variant: every behaviour has a once of its own. *)
EveryOne == TRUE
FirstOne == ~replied

(* Req.Reply does nothing for a request that wants none, and fails on a     *)
(* closed channel.                                                          *)
Reply == replies' = IF want /\ ChanOpen THEN replies + 1 ELSE replies

DoReply ==
  /\ replied' = TRUE
  /\ IF FirstOne THEN Reply ELSE UNCHANGED replies

Refuse(r) ==
  /\ r = "refuse"
  /\ Called(r)
  /\ callback[r] = "none"
  /\ callback' = [callback EXCEPT ![r] = "done"]
  /\ DoReply
  /\ UNCHANGED <<vars, config, server, channel, proxy>>

(* It changes the window or starts a command, beside which it replies.  The *)
(* payload is taken to be as long as its first bytes say.                   *)
Answer(r) ==
  /\ r = "answer"
  /\ Called(r)
  /\ callback[r] = "none"
  /\ callback' = [callback EXCEPT ![r] = IF FirstOne THEN "running" ELSE "done"]
  /\ replied' = TRUE
  /\ UNCHANGED <<vars, config, server, channel, replies, proxy>>

Answered(r) ==
  /\ callback[r] = "running"
  /\ callback' = [callback EXCEPT ![r] = "answered"]
  /\ Reply
  /\ UNCHANGED <<vars, config, server, channel, replied, proxy>>

(* A command closes the channel when it ends, be its start answered or not. *)
CommandEnds(r) ==
  /\ callback[r] \in {"running", "answered"}
  /\ chan = "open"
  /\ chan' = "closed"
  /\ UNCHANGED <<vars, config, server, queue, loop, reply, proxy>>

(* A request is sent back on the channel it came on; if a reply is wanted,  *)
(* its answer is the reply.                                                 *)
Redirect(r) ==
  /\ r = "redirect"
  /\ Called(r)
  /\ callback[r] = "none"
  /\ callback' = [callback EXCEPT ![r] = IF want THEN "asking" ELSE "done"]
  /\ UNCHANGED <<vars, config, server, channel, replied, replies, proxy>>

Redirected(r) ==
  /\ callback[r] = "asking"
  /\ callback' = [callback EXCEPT ![r] = "done"]
  /\ DoReply
  /\ UNCHANGED <<vars, config, server, channel, proxy>>

-----------------------------------------------------------------------------
(* Proxy: the loop that forwards requests, two copiers and the teardown *)

Forward ==
  /\ kind = "proxy"
  /\ loop = "reading"
  /\ queue /= <<>> /\ Head(queue) = "request"
  /\ queue' = Tail(queue)
  /\ loop' = IF want THEN "forwarding" ELSE loop
  /\ UNCHANGED <<vars, config, server, chan, reply, proxy>>

(* SendRequest returns with the destination's answer, or because the        *)
(* channel to it is closed.                                                 *)
Forwarded ==
  /\ loop = "forwarding"
  /\ loop' = "reading"
  /\ replied' = TRUE
  /\ Reply
  /\ UNCHANGED <<vars, config, server, chan, queue, callback, proxy>>

LoopIsOver ==
  \/ manager = "gone"
  \/ dropped
  \/ ~ChanOpen
  \/ remote = "closed"
  \/ queue /= <<>> /\ Head(queue) = "exit-status"

LoopEnds ==
  /\ kind = "proxy"
  /\ loop = "reading"
  /\ LoopIsOver
  /\ loop' = "gone"
  /\ chan' = "closed"
  /\ remote' = "closed"
  /\ UNCHANGED <<vars, config, server, queue, reply, eof, copier, copied, ended>>

(* io.Copy returns when its source has ended, ... *)
SourceEnded(d) ==
  \/ d \in eof
  \/ IF d = "up" THEN ~ChanOpen ELSE remote = "closed"

(* copyCloser.Do.  Faulty variant: nobody closes copyState. *)
NotClosed == copied
CopyState == TRUE

CopierEnds(d) ==
  /\ copier[d] = "copying"
  /\ copier' = [copier EXCEPT ![d] = "gone"]
  /\ copied' = CopyState
  /\ UNCHANGED <<vars, config, server, channel, reply, remote, eof, ended>>

(* ... or a write fails, to the channel or to the session's own writer.    *)
CopierFails(d) == ~SourceEnded(d) /\ CopierEnds(d)
CopierDone(d) == SourceEnded(d) /\ CopierEnds(d)

(* Both channels and the connection of the session. *)
Teardown ==
  /\ copied
  /\ ended = 0
  /\ chan' = "closed"
  /\ remote' = "closed"
  /\ ended' = ended + 1
  /\ UNCHANGED <<vars, config, server, queue, loop, reply, eof, copier, copied>>

-----------------------------------------------------------------------------
Peers ==
  \/ Leave \/ OpenChannel \/ CloseChan \/ CloseRemote
  \/ \E r \in {"request", "exit-status"} : Ask(r)
  \/ \E d \in Directions : EndOfFile(d)

Manager == ManagerStops \/ FailChannel \/ TakeChannel \/ ProxyReturns

Loop ==
  \/ ServeRequest \/ ExitStatus \/ RequestsEnd
  \/ Forward \/ LoopEnds

(* The function of a redirection waits for the user's answer (SendRequest). *)
Asking == \E r \in Releases : callback[r] = "asking"

Behaviour(r) == Behave(r) \/ Refuse(r) \/ Answer(r) \/ Answered(r) \/ Redirect(r)

Rack ==
  /\ \/ \E l \in Loads : CloseChannel(l) \/ HelperStep(l)
     \/ \E r \in Releases : ReleaseStep(r)
  /\ UNCHANGED <<config, server, channel, reply, proxy>>

SSHNext ==
  \/ Accept \/ Drop
  \/ Peers
  \/ Manager
  \/ OpenRemote \/ FailRemote
  \/ Loop
  \/ Forwarded
  \/ \E l \in Loads : ServeHTTP(l)
  \/ \E r \in Releases : Behaviour(r) \/ CommandEnds(r) \/ Redirected(r)
  \/ \E d \in Directions : CopierFails(d) \/ CopierDone(d)
  \/ Teardown
  \/ Rack

SSHSpec == SSHInit /\ [][SSHNext]_sshVars

(* The goroutines of the server keep running.  A poll that stays possible   *)
(* is made: select chooses at random.  Users, destinations and commands     *)
(* need never do anything, but what waits for them returns when the channel *)
(* is closed.  While a redirection waits no other behaviour need go on: the *)
(* same goroutine may have to call them.                                    *)
SSHFairness ==
  /\ Fairness
  /\ WF_sshVars(ManagerStops) /\ WF_sshVars(ProxyReturns)
  /\ WF_sshVars(FailChannel \/ TakeChannel)
  /\ WF_sshVars(Loop) /\ WF_sshVars(remote = "closed" /\ Forwarded)
  /\ \A r \in Releases :
       WF_sshVars(~Asking /\ Behaviour(r)) /\ WF_sshVars(~ChanOpen /\ Redirected(r))
  /\ \A d \in Directions : WF_sshVars(CopierDone(d))
  /\ WF_sshVars(Teardown)

SSHFairSpec == SSHSpec /\ SSHFairness

-----------------------------------------------------------------------------
(* Properties *)

SSHTypeOK ==
  /\ TypeOK
  /\ kind \in Kinds
  /\ subs \subseteq Releases
  /\ want \in BOOLEAN
  /\ dropped \in BOOLEAN
  /\ conn \in {"none", "open", "closed", "left"}
  /\ manager \in {"none", "select", "opening", "returning", "gone"}
  /\ chan \in {"none", "offered", "open", "closed"}
  /\ queue \in Seq({"request", "exit-status"})
  /\ loop \in {"none", "reading", "forwarding", "gone"}
  /\ callback \in [Releases -> {"none", "asking", "running", "answered", "done"}]
  /\ replied \in BOOLEAN
  /\ replies \in Nat
  /\ remote \in {"none", "open", "closed"}
  /\ eof \subseteq Directions
  /\ copier \in [Directions -> {"none", "copying", "gone"}]
  /\ copied \in BOOLEAN
  /\ ended \in Nat

(* However many behaviours a route has, in whatever order they get the      *)
(* request and however long a redirection takes: it has one reply at most   *)
(* (cpay.Do).                                                               *)
OneReply == replies <= 1

(* A request that wants a reply and is for a route with a behaviour that    *)
(* gives one is answered, unless its channel is closed before, or a         *)
(* redirection waits for a user who does not answer: no behaviour takes the *)
(* payload from the others.                                                 *)
WantedIsAnswered ==
  (kind = "standard" /\ once /\ want /\ subs \cap {"refuse", "answer"} /= {})
    ~> (replies = 1 \/ ~ChanOpen \/ Asking)

(* "Drop ends the connection used by this service": the connection, the     *)
(* goroutine that reads requests and, if there is a destination, both       *)
(* copiers and the session, whoever waits for whom, except that a manager   *)
(* may wait for the destination to open a channel.                          *)
Ended ==
  /\ conn /= "open"
  /\ loop \in {"none", "gone"}
  /\ \A d \in Directions : copier[d] /= "copying"
  /\ remote /= "none" => ended = 1

DropEndsConnection == (dropped /\ conn /= "none") ~> (Ended \/ manager = "opening")

(* A session is torn down, once, as soon as one direction of its channel    *)
(* has ended, be it by the user, the destination or the server.             *)
ProxyTearsDown ==
  (\E d \in Directions : copier[d] /= "none" /\ SourceEnded(d)) ~> (Ended /\ ended = 1)

(* "SSHProxyProtocol handles the sshprotcol created and proxies all its     *)
(* connection": the server does not end a connection that it proxies before *)
(* it is dropped.  It does; see the run ssh_proxy.                          *)
ProxyLasts == conn = "closed" /\ remote /= "none" => dropped
=============================================================================
