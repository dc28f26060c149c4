# goproj: a verification project

TLA+ modules for the parts of this repository that are hard to test, TLC
configurations that check them on small instances, and TLAPS proofs of the
results that hold for every instance.  Source references are to `src/`.

Contents: 1 the system, 2 modules and code, 3 the runs, 4 bounds, 5 fairness,
6 proofs, 7 disagreements between code and comments, 8 what is not modelled,
9 plan, 10 how to run it.

## 1. The system

The repository is a toolbox for reaching containers over the network: proxies
for TCP and HTTP (`proxies`), SSH and HTTP services with a route tree in front
of them (`servicedrop`), an LXC container that is frozen, thawed and watched
over SSH (`lxcontroller`), and the configuration that ties a Docker host's
services together (`hoconf`).

| Component | State | Operations | Talks to |
|---|---|---|---|
| Pause gate (proxystream.go 205-239, 1381-1416) | `waiter` (WaitGroup), `halter`, `resumer` (Onces) | Pause, Resume, Wait | ProxyStream and Director: the same code twice |
| ProxyStream (23-52, 134-326) | `workers`, channels `work`, `remove`, `errors`, `closer`, the Once `do` | NewProxyStream, management, AddWorker, RemoveWorker, worker, Stream, Close | jobs from the Stream functions, processors, the gate |
| Exchanges (68-133, 600-1075) | a ConnInsight: two ends, three event streams, a WaitGroup of copiers | TCPStream's processor, HTTPConns, Net2HTTP, HTTP2Net, HTTPReqRes, the Stream functions, ConnInsight.Close | both peers, ProxyStream's errors, net/http |
| Director, ConnServe, HTTPServe (1077-1636) | `connectors`, `closer`, the health channel, the streams `tcp` and `http`, the Onces `init` and `do` | Init, ServeTCP/HTTP/Custom, CloseConnector, Close, the two server loops | clients, ProxyStream, the gate, listeners |
| DirectorFactory (1639-1693) | a locked map of makers | Register, Deregister, Find, Make, AddDefaults | Director |
| TLS and listener helpers (helpers.go) | none | LoadTLS, MakeListener, MakeBaseListener, MakeBaseServer, CreateHTTP, CreateTLS | Director |
| Snifer (lxcontroller/snifer.go) | `active`, `killed`, `psource`, `handle`, event streams | Live, Kill, Close, IsActive, the capture goroutine, packet filters | libpcap, LxController |
| LxController (lxcontroller.go) | SSH link, the container, `stopper` and `ticker` timers, the Snifer | Dial, Freeze, Unfreeze, Drop, DropFreezed, DropUnfreezed, Command and its retries, DumpPackets | lxc, flux timers, ssh, Snifer |
| Requests and payloads (servicedrop/route.go 1-180) | PayloadRack: a load that arrives once | Load, Release, NewRequest, FromRequest | Routes, links |
| Routes (route.go 181-463) | a tree of paths behind an RWMutex | New, Child, Serve, FromRoute, InvertRoute | protocols |
| SSH protocol and proxy (sshprotocol.go, sshlink.go) | listeners, session and channel managers, behaviours | Dial, Drop, AddStandardChannelManager, AddProxyChannelManager, OutBound | ssh, SessionManager, Routes |
| Sessions and links (formats.go, arch.go, httpprotocol.go, httplink.go) | session map behind an RWMutex | AddSession, GetSession, DestroySession; request, reply chains | SSH protocol |
| Configuration (hoconf) | decoded files | ParseJSON, ParseAux, validate, server set-up | Docker, proxies |
| Tools (tools/csim, tools/checker) | none | command-line programs | lxcontroller |

How the modelled ones interact: a Director's ConnServe accepts a connection,
waits at the Director's gate and gives the pair to a ProxyStream, whose worker
starts a goroutine that waits at the stream's own gate and then runs the
processor, which moves the traffic between the two ends and closes the
insight.  A Close of the Director closes both streams and one channel that the
loops select on.  A controller's users and its two timers start operations, each
a sequence of steps that dial lxc, start or close timers, run hook files in jobs
of their own, and turn the Snifer on when the container runs and off when it is
frozen or dropped.  An SSH protocol takes a connection and its channels, makes
each request a PayloadRack and serves it to a route, whose behaviours release
the rack and reply; a proxy copies the channel to the client of the user's
session instead.

Hard behaviours, and the properties that answer to them:

- **Unlocked control state.** The gate's three fields are read and written by
  any goroutine.  Every Add must have one Done, a pause must be resumable, and
  nobody may be left waiting: `AddAndDonePair`, `PauseIsResumable`,
  `ResumeReleases`, `ImplementsGate`.
- **Tokens and counters.** A worker is stopped by sending the *count* to
  whichever worker takes it: `WorkersNotOverstated`.
- **One goroutine with several duties.** `management` starts workers, handles
  errors and sees Close; a ConnServe has health, two closings and Accept in one
  select: `ManagementServes`, `CloseStopsEverybody`, `ClosedServerEnds`.
- **Work in flight at a shutdown or a pause.** Jobs, held connections, workers
  being started: `AcceptedIsTaken`, `TakenIsProcessed`, `AcceptedReachesTarget`.
- **Registration after the fact.** A server runs before it is registered:
  `RunningIsRegistered`.
- **Two directions, two failures.** One copier fails while the other moves on,
  and listeners are written to after the receiver: `SourceOutlivesCopiers`,
  `LostIsReported`, `ListenersFollow`, `EndedIsReleased`.
- **A session that winds down under its successor.** The Snifer's loop resets
  flags the next Live relies on: `OneCapture`, `CaptureIsActive`, `KillEnds`,
  and for the controller that dials and freezes, `SniferFollowsContainer`.
- **A timer that races the answer.** A PayloadRack gives one payload to the first
  of several handlers and a timer: `ImplementsFuture`, `ReleaseReturns`,
  `LoadedIsResolved`.
- **One request, several behaviours.** Each gets it, one of them replies, now or
  after a redirection, while the channel may close: `OneReply`,
  `WantedIsAnswered`.
- **A teardown in a ring of waits.** Drop reaches only the manager; loops,
  copiers and the session end because something else did: `DropEndsConnection`,
  `ProxyTearsDown`, `ProxyLasts`.
- **Timers behind the user's back.** The ticker freezes and the stopper drops a
  container that users dial, freeze and drop, and hooks are retried in jobs that
  outlive the operation: `IdleIsStopped`, `DropIsFinal`, `HookRuns`.
- **Two ends of one dump.** Freeze and Drop both tell a packet dump to stop, and
  close the stream they tell it on later: `DumpEnds`, `DumpFollowsContainer`.
- **A check, then an insertion.** Two goroutines add paths that share a segment
  no route stands for yet: `RegisteredIsFound`, `RegisteredIsServed`,
  `FoundIsServed`.

`PROJECT.json` lists each hazard with its source line.

## 2. Modules and code

    Gate  <--refines--  PauseGate            MCPauseGate     PauseGate_proofs
      ^ INSTANCE
      |-- ProxyStream                        MCProxyStream   ProxyStream_proofs
      |-- Director                           MCDirector      Director_proofs
    Exchange                                 MCExchange      Exchange_proofs
    Snifer                                   MCSnifer        Snifer_proofs
      ^ INSTANCE
      |-- LxController                       MCLxController  LxController_proofs
    Future  <--refines--  PayloadRack
                            ^ EXTENDS
                            |-- SSHProtocol  MCSSHProtocol   SSHProtocol_proofs
    Routes                                   MCRoutes        Routes_proofs

`Gate` is the abstract specification of Pause, Resume and Wait: one flag, the
set of the servers held at it, and calls that take effect at one instant.
`PauseGate` is the code, one action per access to `waiter`, `halter` or
`resumer`.  A `sync.Once` is *fresh*, *running* or *ran*; a Do that finds it
running blocks, which is an action that is not enabled.  Round *i* names the
i-th halter and the resumer made under it; the pointer comparison of the code
is then a comparison of numbers.  The refinement mapping reads the gate off the
WaitGroup's counter.  ProxyStream and Director have this code verbatim, and use
`Gate` in their modules.  They do so with **one** controller, the case in which
`PauseGate` implements it.

`ProxyStream` has one action per channel operation.  An unbuffered channel is
an action of both sides (`HandleStreams`, `TakeWork`, `EndWorker`), `errors` has
its capacity of one, and a closed channel is ready for everybody.  A job is a
call of Stream; the processor is arbitrary: it may run for ever and may leave
one error behind.

`Director` has the registration of servers (`ServeCustom`, then `Registered`:
the loop runs in between), the two loops (a ConnServe has *select* and *accept*,
an HTTPServe only *select*, since http.Server accepts by itself), health
signals that block until a server takes them, connections from backlog through
gate to target, the Director's own loop, and Close in the four steps the Once,
the streams, the channel and the deferred reset make of it.  A nil pointer
that is dereferenced is the flag `crash`, after which nothing happens.

`Exchange` is what happens to one pair of ends.  TCP has two copiers, each
reading, writing and then emitting a chunk, and a WaitGroup; the four HTTP
handlers are one request up and one response down, with each early return.
A message has `size` chunks, its head the first.  Request and response are moved
chunk by chunk while their sender may still end, be reset, or, for a
`ReqResConn`, lose its net/http handler: `Forwarded` and `Answered` are the
returns of `req.Write` and `res.Write`, whose errors the code drops; a
destination that is no connection has the request buffered first (`EmitBody`).
The peers send, end and reset as they like.

`Snifer` has one action per access to `active`, `killed` and `psource`.  A
session is one Live that passed its check, with its source and its loop; loops
of several sessions may be winding down at once.  A loop that panics leaves the
flags as they are (`Panics`).

`Future` is what a PayloadRack promises: the payload that is loaded first goes
to `done` or to `fail`, once, and not to `fail` without a timeout.
`PayloadRack` is the code: the goroutine that Load starts offers the payload and
closes the channel, beside it runs a collector or a timer, and each Release is a
receiver of the same channel.  The value of the future is read off the one Load
that `p.once` has let through.

`LxController` is one container with its users and timers.  A *thread* is a
caller, the goroutine of a timer's function, or a job; `todo[t]` holds the steps
it still has to take, so that an operation is a list (`StepsOf`), a call of
another operation puts steps in front, and an error drops the rest.  A hook is
either a step that starts a job, which tries its file and then does the `Work`
of that hook, or, in a profile without the file, the work itself.  The container
is what lxc says of it, a timer is nil, off or counting, and the streams
`frozen` and `closed` are what a packet dump is stacked on; a Drop tells `closed`
first and closes it at the end, with timers and snifer in between.  The snifer
is an instance of `Snifer` whose callers are the threads: the steps *live*,
*kill* and *closeSnifer* last until the call of it has returned, and its loops
run beside the threads.  Two variables are history: `orderly`, the operations
have come one after another and lxc has done as asked; and `overtaken`, a Live
has begun a session while the loop of an earlier one had yet to reset `killed`.

`SSHProtocol` is one connection: the manager of its channels, the loop that
reads a channel's requests, the behaviours of the request's route, and for a
proxy the channel to the destination with its copiers and teardown.  It EXTENDS
`PayloadRack` and uses its actions: a request read is a `Load`, a behaviour's
release a `Release`, and `Rack` is what the goroutines of the rack do meanwhile.
The third kind, http, has the same racks with a timeout and several Loads.

`Routes` is the tree of routes.  A lookup under the read lock and an insertion
under the write lock are actions of their own, and the subscription of a new
route to its parent comes before its insertion, as in FromRoute and New.  So
`parent` (who gets whose requests) and `childRoutes` (whom New and Child see)
are two relations, which differ when two New overlap.  A request is a token at
each route it is on its way to, with the segments that are left.  `packed` says
that a root with a Failure has put the payload into a rack.  All New and Child
are called at the root; a call at another route is one that has got that far.

Every definition that models code is listed under `map` in `PROJECT.json` with
its lines.  The definitions marked *Faulty variant* are mistakes a programmer
might have made there; nothing of the specifications uses them.  Put in place
of the definition that follows them, each makes TLC refute one property, which
shows that the property speaks of that code.

## 3. The runs

| Run | Instance | Checks | Shows |
|---|---|---|---|
| pause_gate_many | 3 controllers, 2 servers, 3 halters | AddAndDonePair | Add and Done pair in every interleaving |
| pause_gate_one | 1 controller, 2 servers, 3 halters | PauseIsResumable, ResumeReleases, ImplementsGate | the code is a gate for one controller |
| pause_gate_stuck | 2 controllers, 1 server | ResumeCompletesWaiter, **violated** | an overtaken Resume loses the next pause's resumer |
| proxy_stream | 1 + 1 workers, 1 removal, 2 jobs, 1 Close, 1 controller | WorkersNotOverstated, AcceptedIsTaken, TakenIsProcessed, CloseStopsEverybody, ManagementServes | the pool, its jobs, its errors and its Close |
| director | a ConnServe and an HTTPServe on one address, 1 client, 1 Init, 2 Closes, 1 controller | RunningIsRegistered, AcceptedReachesTarget, ClosedServerEnds | registration, traffic and closing of servers |
| director_close | the same with 1 Close and health checks that end nobody | CloseStopsServers, **violated** | Close reaches neither a server in Accept nor an HTTPServe |
| exchange | all five kinds, messages of 1 or 2 chunks | SourceOutlivesCopiers, LostIsReported, ListenersFollow, EndedIsReleased | what one exchange promises |
| snifer | 1 caller, 3 sessions | OneCapture, CaptureIsActive, KillEnds, EOFEnds | sessions that follow each other |
| routes | 2 New with a common first segment, 1 Child, 5 routes, 3 paths to ask for | TypeOK, FoundIsAsked, RegisteredIsFound, RegisteredIsServed, FoundIsServed, ReceivedIsMatched | what is registered is found and served, and only that |
| lxcontroller | 1 caller with 2 calls, both timers, 2 jobs, 2 sessions of the snifer, 6 profiles | DumpFollowsContainer, SniferFollowsContainer, DropIsFinal, DumpEnds, HookRuns, IdleIsStopped | a container, its hooks, its timers and its snifer |
| ssh_protocol | a standard protocol with every set of 3 behaviours, a proxy, and an http protocol with 2 loads | OneReply, WantedIsAnswered, DropEndsConnection, ProxyTearsDown, ImplementsFuture, LoadedIsResolved, ReleaseReturns | a request is answered once, and nothing is left behind; a rack is a one-shot future and hangs nobody |
| ssh_proxy | a proxy | ProxyLasts, **violated** | the server itself ends a connection it has just begun to proxy |

The type invariants and inductive invariants are proved (section 6); the type
invariant of Routes is in its run as well, for it has a hazard of its own: a
request that reaches a route without a segment left.

Properties are stated up to a panic where the code has one on the path
(`crash`).  Deadlock checking is off where the instance runs out of calls.

## 4. Bounds

- `MaxRounds = 3` halters: a round meets the one before and the one after it,
  and the proofs cover every number.  Three controllers are enough for a Pause
  and a Resume that race while a third goroutine overtakes both.
- ProxyStream: `Workers` are calls of AddWorker.  Two workers and a removal give
  every case of the token: taken by its worker, taken by another, taken by the
  last one.  Two jobs are needed for one to be held while another wants a
  worker, and to fill the channel `errors`.
- Director: two servers on one address give `ErrKeyUsed`, a listener that is in
  use, and an address that is served again after CloseConnector; the one client
  comes back for ever; two Closes give the nil streams; `MaxSignals` is the
  number of goroutines that block on a health signal.
- Exchange: two chunks per direction let a chunk be under way when the next one,
  the end or a reset comes, and a message break off after its head.
- Snifer: three sessions let a loop wind down under a second session that is
  killed while a third begins.
- LxController: `MaxCalls = 2` operations of a user, and the timers' own on top of
  them, let every operation follow or overlap every other; `MaxBusy = 2` threads
  at a time are the two that race.  `RetryMax = 1` is a try that fails and the
  bound; two jobs are the hooks of two operations at once.  A profile names the
  operations its callers use, so that each part is combined with what it meets:
  `Timed` has both timers, no hook and all operations; `Leaves` and `Stops` have
  the hooks of Freeze and the Drops, one with DropFreezed and a dump, one with
  the rest; `Dials` a ticker and the hooks of Dial; `Untimed` a stopper alone;
  `Sniffs` a ticker and the snifer, with Dial and a dump.  `MaxSessions = 2`
  lets a Dial begin a session while the loop of the one before winds down: Dial,
  Freeze by the ticker, Dial, Freeze is in the run.
- SSHProtocol: one connection, one channel, one request and one exit-status, for
  connections share nothing but `ProtocolClosed` and the listener, and channels
  nothing but the manager.  Three behaviours are the three kinds there are (refuse,
  answer, redirect), in every subset.  MCInit has requests of a standard protocol
  want a reply: those that want none only leave out the replies.
- PayloadRack, there: three Releases are one that is first, one that finds the
  channel closed and one that waits meanwhile; a second Load is to be ignored.
- Routes: five are the root and both routes of two overlapping New that make a
  route each for the first segment and then for the second; one of the
  second segments is a wildcard.  One Child and one request are enough: they
  read the tree at any moment, and neither changes it.  `Diverts` has one
  pattern for InvertRoute, which may be used at any route and any time.

Symmetry is used only in pause_gate_many, which has no temporal property.

## 5. Fairness

Weak fairness stands for the Go scheduler: a goroutine that can go on does.
Nobody has to *call* anything: Pause, Resume, AddWorker, Close, Live, Kill and
the peers' sends and ends are unfair.  Further:

- ProxyStream: each worker and management select again and again; no fairness
  for `Processed`, a foreign function, or for RemoveWorker.  Actions that take
  one of several ready cases are grouped so that only *some* case must be taken,
  except that an offered job is taken at last (a worker's only other case that
  can stay ready is the closing).
- Director: strong fairness for `Stop`, and only for it.  `case <-hb` is always
  ready and competes with the closing, which is ready at every visit of the
  select; Go picks at random among ready cases, so it is picked at last.
  Accept need not return: `ClosedServerEnds` says so.
- `AcceptedReachesTarget` and `TakenIsProcessed` assume that the gate is open
  again and again, since nobody has to call Resume.
- Exchange: the handlers and copiers run; an HTTP request made with
  `httpclient.Do` is answered or fails.
- PayloadRack: the goroutines run and the timer comes; nobody need load or
  release.
- LxController: some thread keeps running, timers run out, and a boot ends in
  RUNNING or STOPPED; no operation goes on for ever, so that fairness to each
  thread is not needed.  Users, containers that stop by themselves and the loops
  of the snifer, for which no thread waits, are unfair.
- SSHProtocol: the goroutines of the server run and a `select` that finds
  ProtocolClosed ready takes it; users and destinations need do nothing, but
  what waits for the answer of a channel returns when that channel is closed.
  While a redirection waits for its answer (line 462) no other behaviour need go
  on, as flux may call them one after the other.
- Snifer: NextPacket returns, at the latest after the handle's read timeout.

## 6. Proofs

All are checked by TLAPS for every value of the constants, from the assumptions
named in the modules only: `RoundsAssumption`, `WorkersAssumption` (finitely
many calls), `DirectorAssumption` (kinds and addresses of the servers),
`ExchangeAssumption`, `SessionsAssumption`, `RackAssumption` (`None` is no
payload), `RoutesAssumption` (paths are sequences of segments, a query is not
empty), `LxAssumption` (profiles and operations; a caller, a timer's function
and a job are different goroutines), `SSHAssumption` (kinds and behaviours).

- **PauseGate_proofs.** `IInv` (any number of controllers): rounds are used up
  in order (`RoundsInOrder`), one goroutine at a time is inside a Once
  (`OneInside`), and the phase of the round tells the counter (`CountOfRound`).
  `AddAndDonePair` alone is not inductive: a Done is safe only because the
  resumer that runs it was made under a halter that has added.  It gives
  `SpecTypeOK`, `SpecAddAndDonePair`.  With one controller, `Alone` adds what
  the fields are at each place of its program: `OneResumable` and the refinement
  `OneImplementsGate`, step by step (`StepIsGateStep`): the
  increment is the gate's Pause, the decrement its Resume, a call that finds
  nothing to do takes effect when it returns, all else stutters.
- **ProxyStream_proofs.** `SpecTypeOK`; `SpecWorkersNotOverstated` from `CInv`:
  the counter is one per AddWorker less one per finished removal, and there
  have been no more ended workers than tokens received.
- **Director_proofs.** `SpecRunningIsRegistered` from `RInv`: while a server is
  about to be registered, its address has no other.  `SpecTypeOK`, part by part.
- **Exchange_proofs.** `XInv` has the shape of each kind's state (`Shape`), how
  far each direction is by the copier's place (`Progress`), what an HTTP handler
  on its way to the response has behind it (`Requested`: the request went out
  whole or a peer has ended), and what one that is closing has (`Accounted`).
  `SpecTypeOK` (the WaitGroup stays in 0..2), `SpecSourceOutlivesCopiers`,
  `SpecLostIsReported`, `SpecListenersFollow`.  `LostIsReported` says what the
  code reports and what it does not: of an HTTP exchange, a destination that
  ends after its response has begun is among its cases, for the code drops that
  error (see 7); without any one of its cases it does not hold.
- **Snifer_proofs.** `SpecTypeOK` for any callers.  With one calling goroutine,
  `HInv` orders the sessions: all but the newest have left their capture, and
  when Live has passed its check so has the newest.  `OneCallerOneCapture`,
  `OneCallerCaptureIsActive`, for any number of sessions.
- **LxController_proofs.** `SpecTypeOK`: threads have only steps that some action
  takes (`OperationsAreSteps`, `WorkIsSteps`), and no file is tried more than
  RetryMax times.
  `SpecBothTimersNeverNil` from `NilInv`: a timer is nil exactly if its duration
  is zero, for ever, so that only a profile that lacks one can crash.
  `SpecSniferFollowsContainer`, `SpecDumpFollowsContainer` and `SpecDropIsFinal`,
  for any callers, jobs, profiles and number of operations, from `ThreadsInv`.
  None of the three is inductive: each speaks of the moment when all is quiet,
  and what holds then was prepared by steps a thread had still to take.
  - `PlansOK`: what is left of each thread's steps has the order its operation
    gave it (`Shape`: the snifer is killed before lxc freezes or stops, a stream
    is told after a freeze, timers are closed after the stopper was started),
    and goes down or up as a whole; a job only goes down.
  - `InTurn`: while operations follow each other one thread at most that is no
    job has more to do than to try a file, and what goes up does so alone.
  - `SniferOK`: a call of the snifer is inside the step that made it
    (`CallsInTurn`); then one loop at most captures, and nobody starts another
    beside it (`Held`); while no session is overtaken, no loop that is through
    will still reset `killed` under its successor (`NotOvertaken`), and whoever is
    about to freeze or stop has asked the loop to end (`Asked`).  The code's Kill
    only asks, and an overtaken session may lose its request, so
    `SniferFollowsContainer` says that what captures on a container that does not
    run has been asked to stop, unless overtaken.
  - `DumpOK`: then (`DumpOwes`) a stacked dump whose container does not run has
    somebody who will still emit to it; a container that is stopped ends it
    (`Ending`), and once a Drop has closed `frozen`, somebody will tell and close
    `closed` as well (`Shutting`).
  - `StopperOK`: only the job of a DropFreezed with a hook starts the stopper
    behind its caller's back, one at a time, and the stopper does not run out
    while the caller has timers to close (`JobArms`, `NoHookAwaits`); after any
    other Drop somebody has the timers to close, or none counts and nobody will
    start one (`DropCloses`). Without the first two, the Drop of a stopper that
    runs out could be overtaken by a job that starts it again.

  A thread's step is seen twice, as what it does to the steps (`StepMoves`) and to
  all else (`StepEffects`), and the parts are kept from these two alone.
- **SSHProtocol_proofs.** Of the rack: `SpecIInv`: one Load starts the goroutines
  (`OneLoad`), and the payload is on offer, in one pair of hands or in one action
  (`OnePlace`); that `done` and `fail` exclude each other is not inductive
  without knowing that a holder is the only one.  It gives `SpecTypeOK` and the
  refinement `SpecImplementsFuture`, step by step (`StepIsFutureStep`): the
  first Load is the future's Load, a handler or collector that resolves is its
  Succeed, a timer its Expire, all else stutters.
  Of the protocol: `SSHSpecRack`: a step of a protocol is a step of PayloadRack
  or leaves the rack alone, so all of those theorems hold here; `SSHSpecFuture`
  is one.  `SSHSpecOneReply` for any set of behaviours, from `ReplyInv`: an answer
  that runs beside its command already holds the once and nothing has been sent
  (`Behaviours`), and a proxy's loop has one request in its queue or in its hands
  (`Forwarding`).  `SSHSpecTypeOK`.
- **Routes_proofs.** All six properties of the run, for any segments, patterns,
  paths, calls and queries and any number of routes: `SpecTypeOK`,
  `SpecFoundIsAsked`, `SpecRegisteredIsFound`, `SpecRegisteredIsServed`,
  `SpecFoundIsServed`, `SpecReceivedIsMatched`, all from `InvHolds`:
  - `TreeOK`: a route is made after its parent, so that the chain to the root
    ends, and childRoutes[r][s], if any, was made for s under r.  `Upright`: New
    and Child never stand on a rejection.
  - `OnTheWay`: the chain of the route a call has got to, then the segments it
    has left, is its path.  FoundIsAsked follows at the end of the call.
  - `WaysOK`: while a New runs alone, the segments it has behind it lead from the
    root to where it is, and those of a New that has returned lead through
    childRoutes to its end.  No later call enters over them: one that runs alone
    follows what is there (`WalksGoOn`), and one that does not had not begun.
  - `RequestOK`: a request carries the segments its route has still to match;
    who received it was given it by the parent (`Judged`); and some number of
    routes *k* covers it (`Covers`): those known when it was served are among the
    first k, each of which has been reached if its parent has received it.

  `Chain` and `At` are recursive functions.  That they satisfy their equations
  (`ChainIs`, `AtIs`) and what is shown from a parent to its child (`DownTheTree`)
  rests on `LeastNatural`, every set of naturals has a least element, which is
  proved from the library's well-founded ordering of finite sets, since the
  induction theorems themselves cannot be used.

Only model-checked: everything that needs fairness (`ResumeReleases`,
`AcceptedIsTaken`, `TakenIsProcessed`, `CloseStopsEverybody`,
`ManagementServes`, `AcceptedReachesTarget`, `ClosedServerEnds`,
`EndedIsReleased`, `KillEnds`, `EOFEnds`, `LoadedIsResolved`, `ReleaseReturns`,
`DumpEnds`, `HookRuns`, `IdleIsStopped`, `WantedIsAnswered`, `DropEndsConnection`,
`ProxyTearsDown`), which the prover cannot do.  Every invariant of the passing
runs is proved.

## 7. Disagreements between code and comments

- `pause_gate_stuck`: "Resume completes the waiter" (proxystream.go 1398), but a
  Pause that overtakes the deferred clearing of `resumer` shuts the gate for good.
- `director_close`: "Close stops the director and all connected servers" (1419),
  but `connectors` is not touched.
- `ssh_proxy`: "proxies all its connection" (sshprotocol.go 38), but the manager
  of a proxied connection returns after its first channel and its deferred calls
  close the connection while the copiers still work.

Without a run of their own:

- "Close closes the connection" (proxystream.go 119), but `src` is closed twice
  and `dest` never (122-123): in `Exchange`, `CloseInsight` leaves dest open.
- "IsActive returns true/false if its active" (snifer.go 297), but `active` is
  stored (403) after the goroutine that resets it has been started: a source that
  ends early leaves it set for ever, and the snifer never goes live again.  A panic
  while reading, which the goroutine recovers from (360-375), does the same.
- "the last worker wont stop unless you close the streamer" (proxystream.go
  1913), but RemoveWorker tests nothing: the removal at a count of one ends it.
- "all child routes that extend from a base will all recieve the parents Invalid
  socket" (route.go 306-307), but FromRoute gives each its own (line 411).
- A Failure set with PatchRoute (route.go 414-416) is tested for but not used:
  the racks get the `fail` that RawRoute was called with (line 347).
- DumpPackets "calls a function that is supplied when done(i.e frozen or drop)"
  (lxcontroller.go 922-923), but a dump that stacks its callback (985) when a Drop has
  emitted on `closed` (659, 689, 734), before or after the deferred Close, is never
  told of a drop: the steps *emitClosed* and *closeClosed* of `LxController`;
  `DumpEnds` excuses what is stacked between them, and needs both streams open.
- AfterBoot's `else` (lxcontroller.go 588) belongs to a test that is always true
  there.  Dial calls Add of a ticker that is nil without a freeze duration (595),
  Drop calls Close of a stopper that is nil without a stop duration (652).
- HTTPProtocol.Dial takes TLS when the certificates are absent
  (httpprotocol.go 24-29).  A second Drop of an SSH protocol closes a closed
  channel; after a Drop, Dial retries its Accept for ever.

Behaviour the models have and no text of the repository contradicts: AddWorker
after Close blocks its caller for ever (proxystream.go 202); a server that ended
by itself keeps its address (1315); `idle` is an epoch second taken as a Duration
(1463); a tls listener leaks (helpers.go 121); a Stream function that cannot dial
leaves the client's connection open (870); a request or response that breaks off
midway is passed on as it is and reported to nobody (498, 522, 630, 748, 805, 830);
turnOffSnifer is ignored by a snifer about to go live, and a request to end may be
reset by the loop of the session before (snifer.go 315-320, 377-381); Dial asks
for an address once a second
for ever (lxcontroller.go 543); a channel without a pty is never read
(sshprotocol.go 828).

## 8. Not modelled

- HTTP headers, hop-by-hop rules and body framing; the TLS handshake;
  `DoBroker`, which nothing calls; packet decoding and filters; logging.
- DirectorFactory: single operations on a locked map.
- Tools, and hoconf: the decoding of files, defaults and calls of the docker
  client in a straight line, without state of its own.
- PatchRoute, the Param a matcher yields, the Sub wrappers, and what reggy makes of
  a pattern: a pattern matches itself or everything.
- LxController: the HookFx callbacks (which get a copy of what the steps do), the
  stream nobody emits to, the reference count of lxc, which its own finalizers
  keep, and Clone, CheckPoint, Restore and the interface list: single calls of
  lxc.
- The index panics of the ssh behaviours on a payload shorter than it says (505,
  611, 648), and a root without a Failure, which makes no rack (route.go 334):
  SSHProtocol has routes made with one, and whole payloads.
- SSH: handshake, keys and host certificates, what a pty and a shell do, the
  Before and After reflexes, a second connection while Dial discards its
  requests.  The Session manager is a map with one lock per operation; a proxied
  connection that finds no session is `FailRemote`.  The links (sshlink,
  httplink) are chains of one request and one reply.
- The panic of a reused WaitGroup is in `PauseGate` (`crash = "reuse"`), and so is
  that of a nil resumer, which two goroutines can bring about between the test of
  line 222 and the use of line 230 (`crash = "nil"`); the properties are stated
  up to both.  That they never happen (`WaitNeverPanics` for the first) has no
  run: no text of the repository claims it.

## 9. Plan

Done, in this order: Gate and PauseGate (everything else waits at it),
ProxyStream, Director, Exchange, Snifer, Future and PayloadRack, Routes,
LxController with Snifer in it, and SSHProtocol on top of PayloadRack, each with its run and its
theorems.  Next:

1. Proofs: what an Exchange leaves when the caller of an HTTP handler returns
   early, the one-controller gate inside ProxyStream and Director.
2. A second connection and a second channel in SSHProtocol.

## 10. How to run it

In this directory, with TLC and tlapm installed:

    tlc -workers 2 -config Exchange.cfg MCExchange
    tlapm Exchange_proofs.tla

proxy_stream and lxcontroller take about three minutes each, director, routes and
ssh_protocol one, the others seconds.
