------------------------------ MODULE Director ------------------------------
(***************************************************************************)
(* proxies.Director and the servers it connects: a ConnServe accepts       *)
(* connections in its own loop, an HTTPServe leaves that to the loop of    *)
(* http.Server and only waits to be stopped.  Every accepted connection    *)
(* gets a goroutine that waits at the Director's gate (module Gate) and    *)
(* then runs the server's target, which hands the connection over to one   *)
(* of the Director's two ProxyStreams.  The Director's own loop sends      *)
(* health signals and takes errors.                                        *)
(*                                                                         *)
(* connectors is a Go map without a lock, so one goroutine serves and      *)
(* closes connectors; any goroutine may call Close.                        *)
(*                                                                         *)
(* The idle time a server compares with MaxAge on a health signal is the   *)
(* epoch second of its last connection taken as nanoseconds, about 1.7     *)
(* seconds whatever the server does: MaxAge alone decides.                 *)
(***************************************************************************)
EXTENDS Integers

CONSTANTS
  Servers,          \* the calls of ServeCustom*, each with its server
  Addrs,            \* the addresses to listen on
  Addr,             \* the address of each server
  Kind,             \* "conn" for a ConnServe, "http" for an HTTPServe
  Conns,            \* clients, each with one connection at a time
  Inits,            \* the calls of Init
  Closers,          \* the calls of Close
  Controllers,      \* the goroutines that pause and resume
  ShortMaxAge,      \* MaxAge is below the idle time every server sees
  MaxSignals,       \* bound: health signals not yet received
  None

ASSUME DirectorAssumption ==
  /\ Addr \in [Servers -> Addrs]
  /\ Kind \in [Servers -> {"conn", "http"}]
  /\ ShortMaxAge \in BOOLEAN
  /\ MaxSignals \in Nat
  /\ None \notin Servers

VARIABLES
  connectors,       \* the server registered under each address
  registering,      \* the server about to be registered
  loop,             \* where each server's loop is
  listener,         \* each server's listener
  told,             \* the servers whose closer channel is closed
  conn,             \* where each connection is
  at,               \* the server it came to
  director,         \* the Director's loop, per Init
  initFresh,        \* d.init has not run
  signals,          \* goroutines blocked on sending a health signal
  streams,          \* d.tcp and d.http
  doState,          \* d.do
  closing,          \* where each Close is
  closed,           \* d.closer is closed
  crash,            \* a nil pointer was dereferenced
  paused, held, op  \* the gate

servers   == <<connectors, registering, loop, listener, told>>
traffic   == <<conn, at>>
direction == <<director, initFresh, signals>>
shutdown  == <<streams, doState, closing, closed>>
gate      == <<paused, held, op>>
vars      == <<servers, traffic, direction, shutdown, crash, gate>>

Gate == INSTANCE Gate WITH Servers <- Conns

Init ==
  /\ connectors = [a \in Addrs |-> None]
  /\ registering = None
  /\ loop = [s \in Servers |-> "none"]
  /\ listener = [s \in Servers |-> "none"]
  /\ told = {}
  /\ conn = [c \in Conns |-> "away"]
  /\ at = [c \in Conns |-> None]
  /\ director = [i \in Inits |-> "none"]
  /\ initFresh = TRUE
  /\ signals = 0
  /\ streams = "open"
  /\ doState = "fresh"
  /\ closing = [k \in Closers |-> "none"]
  /\ closed = FALSE
  /\ crash = FALSE
  /\ Gate!Init

-----------------------------------------------------------------------------
(* Serving and closing connectors *)

Free(a) == \A t \in Servers : Addr[t] = a => listener[t] \notin {"open", "leaked"}

(* The address has no connector and can be listened on: the server runs    *)
(* before it is registered.                                                *)
ServeCustom(s) ==
  /\ registering = None
  /\ loop[s] = "none"
  /\ connectors[Addr[s]] = None
  /\ Free(Addr[s])
  /\ listener' = [listener EXCEPT ![s] = "open"]
  /\ loop' = [loop EXCEPT ![s] = "select"]
  /\ registering' = s
  /\ UNCHANGED <<connectors, told, traffic, direction, shutdown, crash, gate>>

Registered(s) ==
  /\ registering = s
  /\ connectors' = [connectors EXCEPT ![Addr[s]] = s]
  /\ registering' = None
  /\ UNCHANGED <<loop, listener, told, traffic, direction, shutdown, crash, gate>>

(* ErrKeyUsed, or the listener cannot be made. *)
ServeFails(s) ==
  /\ registering = None
  /\ loop[s] = "none"
  /\ loop' = [loop EXCEPT ![s] = "refused"]
  /\ UNCHANGED <<connectors, registering, listener, told, traffic, direction, shutdown, crash, gate>>

(* Given a tls.Config, an HTTPServe (and a ConnServe over MakeBaseListener) *)
(* makes a tls listener, which is no *net.TCPListener: the call fails and   *)
(* the listener stays open.                                                 *)
ServeLeaks(s) ==
  /\ registering = None
  /\ loop[s] = "none"
  /\ connectors[Addr[s]] = None
  /\ Free(Addr[s])
  /\ loop' = [loop EXCEPT ![s] = "refused"]
  /\ listener' = [listener EXCEPT ![s] = "leaked"]
  /\ UNCHANGED <<connectors, registering, told, traffic, direction, shutdown, crash, gate>>

(* "c.Close()" of CloseConnector.                                          *)
(* Faulty variant: the connector is only forgotten. *)
ToldNothing(s) == told \ {s}
ToldToClose(s) == told \cup {s}

(* An HTTPServe is made without its Once, so that closing it panics. *)
CloseConnector(a) ==
  /\ registering = None
  /\ connectors[a] /= None
  /\ connectors' = [connectors EXCEPT ![a] = None]
  /\ IF Kind[connectors[a]] = "conn"
       THEN told' = ToldToClose(connectors[a]) /\ UNCHANGED crash
       ELSE crash' = TRUE /\ UNCHANGED told
  /\ UNCHANGED <<registering, loop, listener, traffic, direction, shutdown, gate>>

-----------------------------------------------------------------------------
(* The servers' loops *)

Backlog(s) == {c \in Conns : conn[c] = "backlog" /\ at[c] = s}

(* The loop is left and the listener closed, with what it has not accepted. *)
End(s) ==
  /\ loop' = [loop EXCEPT ![s] = "gone"]
  /\ listener' = [listener EXCEPT ![s] = "closed"]
  /\ conn' = [c \in Conns |-> IF c \in Backlog(s) THEN "reset" ELSE conn[c]]

(* Which closings a server in its select sees: a ConnServe its own and the *)
(* Director's, an HTTPServe its own.                                       *)
(* Faulty variant: a ConnServe does not see its own. *)
SeesDirector(s) == Kind[s] = "conn" /\ closed
SeesClose(s) == s \in told \/ (Kind[s] = "conn" /\ closed)

Stop(s) ==
  /\ loop[s] = "select"
  /\ SeesClose(s)
  /\ End(s)
  /\ UNCHANGED <<connectors, registering, told, at, direction, shutdown, crash, gate>>

(* "case <-c.director.HealthNotify()" takes one signal that is being sent.  *)
SignalSent == signals > 0

Health(s) ==
  /\ loop[s] = "select"
  /\ SignalSent
  /\ signals' = signals - 1
  /\ IF ShortMaxAge THEN End(s) ELSE UNCHANGED <<loop, listener, conn>>
  /\ UNCHANGED <<connectors, registering, told, at, director, initFresh, shutdown, crash, gate>>

(* "case <-hb" is always ready, so the loop may go to Accept although it   *)
(* has been closed.                                                        *)
Accepting(s) ==
  /\ loop[s] = "select"
  /\ Kind[s] = "conn"
  /\ loop' = [loop EXCEPT ![s] = "accept"]
  /\ UNCHANGED <<connectors, registering, listener, told, traffic, direction, shutdown, crash, gate>>

Accept(s, c) ==
  /\ loop[s] = "accept"
  /\ c \in Backlog(s)
  /\ loop' = [loop EXCEPT ![s] = "select"]
  /\ conn' = [conn EXCEPT ![c] = "accepted"]
  /\ UNCHANGED <<connectors, registering, listener, told, at, direction, shutdown, crash, gate>>

(* Any error of Accept ends the server; it stays registered and the error  *)
(* is dropped, since Errors always says ok.                                *)
AcceptFails(s) ==
  /\ loop[s] = "accept"
  /\ End(s)
  /\ UNCHANGED <<connectors, registering, told, at, direction, shutdown, crash, gate>>

(* http.Server accepts on its own. *)
HTTPAccept(s, c) ==
  /\ Kind[s] = "http"
  /\ c \in Backlog(s)
  /\ conn' = [conn EXCEPT ![c] = "accepted"]
  /\ UNCHANGED <<servers, at, direction, shutdown, crash, gate>>

-----------------------------------------------------------------------------
(* Connections *)

(* The kernel queues a connection for whoever listens; the client of one   *)
(* that is over may make another.                                          *)
Connect(c, s) ==
  /\ conn[c] \in {"away", "reset", "streamed", "lost", "reported"}
  /\ listener[s] \in {"open", "leaked"}
  /\ conn' = [conn EXCEPT ![c] = "backlog"]
  /\ at' = [at EXCEPT ![c] = s]
  /\ UNCHANGED <<servers, direction, shutdown, crash, gate>>

(* d.Wait() of the connection's goroutine. *)
Wait(c) ==
  /\ conn[c] = "accepted"
  /\ Gate!Arrive(c)
  /\ conn' = [conn EXCEPT ![c] = "held"]
  /\ UNCHANGED <<servers, at, direction, shutdown, crash>>

(* Faulty variant: who is held is never let go. *)
NeverLetGo(c) == conn[c] = "accepted" /\ ~paused
LetGo(c) ==
  \/ conn[c] = "accepted" /\ ~paused
  \/ conn[c] = "held" /\ c \notin held

(* The target dials the destination, which may fail, and gives both to d.tcp *)
(* or d.http: a closed stream refuses them, a nil one panics.               *)
ErrorOf(s) == IF Kind[s] = "conn" THEN "lost" ELSE "reporting"

Target(c, fails) ==
  /\ LetGo(c)
  /\ \/ /\ fails \/ streams = "closed"
        /\ conn' = [conn EXCEPT ![c] = ErrorOf(at[c])]
        /\ UNCHANGED crash
     \/ /\ ~fails /\ streams = "open"
        /\ conn' = [conn EXCEPT ![c] = "streamed"]
        /\ UNCHANGED crash
     \/ /\ ~fails /\ streams = "nil"
        /\ crash' = TRUE
        /\ UNCHANGED conn
  /\ UNCHANGED <<servers, at, direction, shutdown, gate>>

-----------------------------------------------------------------------------
(* The Director's loop *)

(* d.init runs once, and once again after every Close. *)
InitCall(i) ==
  /\ director[i] = "none"
  /\ director' = [director EXCEPT ![i] = IF initFresh THEN "select" ELSE "gone"]
  /\ initFresh' = FALSE
  /\ UNCHANGED <<servers, traffic, signals, shutdown, crash, gate>>

Tick(i) ==
  /\ director[i] = "select"
  /\ signals < MaxSignals
  /\ signals' = signals + 1
  /\ UNCHANGED <<servers, traffic, director, initFresh, shutdown, crash, gate>>

TakeError(i, c) ==
  /\ director[i] = "select"
  /\ conn[c] = "reporting"
  /\ conn' = [conn EXCEPT ![c] = "reported"]
  /\ UNCHANGED <<servers, at, direction, shutdown, crash, gate>>

DirectorStops(i) ==
  /\ director[i] = "select"
  /\ closed
  /\ director' = [director EXCEPT ![i] = "gone"]
  /\ UNCHANGED <<servers, traffic, initFresh, signals, shutdown, crash, gate>>

-----------------------------------------------------------------------------
(* Close *)

(* The function of d.do closes the streams first; both are nil when a      *)
(* Close has returned, ...                                                 *)
CloseStreams(k) ==
  /\ closing[k] = "none"
  /\ doState = "fresh"
  /\ IF streams = "nil"
       THEN crash' = TRUE /\ UNCHANGED <<streams, doState, closing>>
       ELSE /\ streams' = "closed"
            /\ doState' = "running"
            /\ closing' = [closing EXCEPT ![k] = "streams"]
            /\ UNCHANGED crash
  /\ UNCHANGED <<servers, traffic, direction, closed, gate>>

(* ... then the channel. *)
CloseNotify(k) ==
  /\ closing[k] = "streams"
  /\ closed' = TRUE
  /\ doState' = "ran"
  /\ closing' = [closing EXCEPT ![k] = "resetting"]
  /\ UNCHANGED <<servers, traffic, direction, streams, crash, gate>>

(* Another Close finds d.do run. *)
CloseAgain(k) ==
  /\ closing[k] = "none"
  /\ doState = "ran"
  /\ closing' = [closing EXCEPT ![k] = "resetting"]
  /\ UNCHANGED <<servers, traffic, direction, streams, doState, closed, crash, gate>>

(* The deferred reset of init, do, http and tcp. *)
CloseReset(k) ==
  /\ closing[k] = "resetting"
  /\ initFresh' = TRUE
  /\ doState' = "fresh"
  /\ streams' = "nil"
  /\ closing' = [closing EXCEPT ![k] = "done"]
  /\ UNCHANGED <<servers, traffic, director, signals, closed, crash, gate>>

PauseOrResume(c) ==
  /\ \/ \E o \in {"pause", "resume"} : Gate!Call(c, o)
     \/ Gate!Pause(c)
     \/ Gate!Resume(c)
  /\ UNCHANGED <<servers, traffic, direction, shutdown, crash>>

-----------------------------------------------------------------------------
Step(A) == ~crash /\ A

Next ==
  \/ \E s \in Servers :
       \/ Step(ServeCustom(s))
       \/ Step(Registered(s))
       \/ Step(ServeFails(s))
       \/ Step(ServeLeaks(s))
       \/ Step(Stop(s))
       \/ Step(Health(s))
       \/ Step(Accepting(s))
       \/ Step(AcceptFails(s))
  \/ \E s \in Servers, c \in Conns : Step(Connect(c, s))
  \/ \E s \in Servers, c \in Conns : Step(Accept(s, c))
  \/ \E s \in Servers, c \in Conns : Step(HTTPAccept(s, c))
  \/ \E a \in Addrs : Step(CloseConnector(a))
  \/ \E c \in Conns : Step(Wait(c))
  \/ \E c \in Conns, fails \in BOOLEAN : Step(Target(c, fails))
  \/ \E i \in Inits : Step(InitCall(i)) \/ Step(Tick(i)) \/ Step(DirectorStops(i))
  \/ \E i \in Inits, c \in Conns : Step(TakeError(i, c))
  \/ \E k \in Closers :
       \/ Step(CloseStreams(k))
       \/ Step(CloseNotify(k))
       \/ Step(CloseAgain(k))
       \/ Step(CloseReset(k))
  \/ \E c \in Controllers : Step(PauseOrResume(c))

Spec == Init /\ [][Next]_vars

(* The loops, the goroutines of the connections and a Close under way keep *)
(* running; clients, operators and failures need not come.  A select that  *)
(* finds a closing ready again and again takes it at last: the choice      *)
(* among ready cases is random.                                            *)
Fairness ==
  /\ \A s \in Servers : WF_vars(Step(Accepting(s))) /\ SF_vars(Step(Stop(s)))
  /\ \A s \in Servers : WF_vars(\E c \in Conns : Step(Accept(s, c) \/ HTTPAccept(s, c)))
  /\ \A c \in Conns : WF_vars(Step(Wait(c) \/ \E fails \in BOOLEAN : Target(c, fails)))
  /\ \A c \in Conns : WF_vars(\E i \in Inits : Step(TakeError(i, c)))
  /\ \A k \in Closers : WF_vars(Step(CloseNotify(k) \/ CloseReset(k)))

FairSpec == Spec /\ Fairness

-----------------------------------------------------------------------------
(* Properties *)

TypeOK ==
  /\ connectors \in [Addrs -> Servers \cup {None}]
  /\ registering \in Servers \cup {None}
  /\ loop \in [Servers -> {"none", "refused", "select", "accept", "gone"}]
  /\ listener \in [Servers -> {"none", "open", "leaked", "closed"}]
  /\ told \subseteq Servers
  /\ conn \in [Conns -> {"away", "backlog", "reset", "accepted", "held", "streamed",
                         "lost", "reporting", "reported"}]
  /\ at \in [Conns -> Servers \cup {None}]
  /\ director \in [Inits -> {"none", "select", "gone"}]
  /\ initFresh \in BOOLEAN
  /\ signals \in 0 .. MaxSignals
  /\ streams \in {"open", "closed", "nil"}
  /\ doState \in {"fresh", "running", "ran"}
  /\ closing \in [Closers -> {"none", "streams", "resetting", "done"}]
  /\ closed \in BOOLEAN
  /\ crash \in BOOLEAN
  /\ Gate!TypeOK

Running(s) == loop[s] \in {"select", "accept"}

(* No server runs out of reach: one that nobody has told to close is        *)
(* registered under its address, or about to be, so that CloseConnector can *)
(* still find it, however often addresses are closed and served again.      *)
RunningIsRegistered ==
  \A s \in Servers :
    Running(s) /\ s \notin told /\ ~crash =>
      connectors[Addr[s]] = s \/ registering = s

(* A connection that is accepted reaches its target, if the gate does not   *)
(* stay shut for ever: also one that was held while its server ended or the *)
(* Director was closed.                                                     *)
AcceptedReachesTarget ==
  []<>(~paused) =>
    \A c \in Conns :
      conn[c] \in {"accepted", "held"} ~> (conn[c] \notin {"accepted", "held"} \/ crash)

(* A ConnServe told to close ends, or else stays in Accept for want of a    *)
(* client: clients that keep coming do not keep it alive.                   *)
ClosedServerEnds ==
  \A s \in Servers :
    s \in told ~> ([](loop[s] = "gone")
                   \/ [](loop[s] = "accept" /\ Backlog(s) = {}) \/ crash)

(* "Close stops the director and all connected servers" *)
CloseStopsServers ==
  \A s \in Servers : closed ~> (~Running(s) \/ crash)
=============================================================================
