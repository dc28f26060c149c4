-------------------------- MODULE Director_proofs --------------------------
(***************************************************************************)
(* Proofs about Director, for any servers, addresses, clients and calls.   *)
(***************************************************************************)
EXTENDS Director, TLAPS

(* The part of the state the registration of servers depends on. *)
ServersOK ==
  /\ connectors \in [Addrs -> Servers \cup {None}]
  /\ registering \in Servers \cup {None}
  /\ loop \in [Servers -> {"none", "refused", "select", "accept", "gone"}]
  /\ told \subseteq Servers

(* A server is registered under an address that has no other: the check of *)
(* ServeCustom still holds when the server is entered.                     *)
RInv ==
  /\ ServersOK
  /\ registering /= None => connectors[Addr[registering]] = None
  /\ RunningIsRegistered

LEMMA InitRInv == Init => RInv
<1> SUFFICES ASSUME Init PROVE RInv
  OBVIOUS
<1>1. ServersOK
  BY DEF Init, ServersOK
<1>2. \A s \in Servers : ~Running(s)
  BY DEF Init, Running
<1> QED
  BY <1>1, <1>2 DEF Init, RInv, RunningIsRegistered

LEMMA NextRInv == RInv /\ [Next]_vars => RInv'
<1> SUFFICES ASSUME RInv, [Next]_vars PROVE RInv'
  OBVIOUS
<1> USE DirectorAssumption DEF RInv, ServersOK, RunningIsRegistered, Running
<1>1. ASSUME NEW s \in Servers, ~crash, ServeCustom(s) PROVE RInv'
  BY <1>1 DEF ServeCustom
<1>2. ASSUME NEW s \in Servers, ~crash, Registered(s) PROVE RInv'
  BY <1>2 DEF Registered
<1>3. ASSUME NEW s \in Servers, ~crash, ServeFails(s) \/ ServeLeaks(s) PROVE RInv'
  BY <1>3 DEF ServeFails, ServeLeaks
<1>4. ASSUME NEW s \in Servers, ~crash, Stop(s) \/ AcceptFails(s) PROVE RInv'
  BY <1>4 DEF Stop, AcceptFails, End
<1>5. ASSUME NEW s \in Servers, ~crash, Health(s) PROVE RInv'
  BY <1>5 DEF Health, End, servers
<1>6. ASSUME NEW s \in Servers, ~crash, Accepting(s) PROVE RInv'
  BY <1>6 DEF Accepting
<1>7. ASSUME NEW s \in Servers, NEW c \in Conns, ~crash, Accept(s, c) PROVE RInv'
  BY <1>7 DEF Accept
<1>8. ASSUME NEW a \in Addrs, ~crash, CloseConnector(a) PROVE RInv'
  <2>1. CASE Kind[connectors[a]] = "conn"
    BY <1>8, <2>1 DEF CloseConnector, ToldToClose
  <2>2. CASE Kind[connectors[a]] /= "conn"
    BY <1>8, <2>2 DEF CloseConnector
  <2> QED
    BY <2>1, <2>2
<1>9. ASSUME ~crash, UNCHANGED servers PROVE RInv'
  BY <1>9 DEF servers
<1>10. CASE \E s \in Servers, c \in Conns : ~crash /\ (Connect(c, s) \/ HTTPAccept(s, c))
  BY <1>9, <1>10 DEF Connect, HTTPAccept
<1>11. CASE \E c \in Conns : ~crash /\ (Wait(c) \/ \E fails \in BOOLEAN : Target(c, fails))
  BY <1>9, <1>11 DEF Wait, Target
<1>12. CASE \E i \in Inits : ~crash /\ (InitCall(i) \/ Tick(i) \/ DirectorStops(i)
                                       \/ \E c \in Conns : TakeError(i, c))
  BY <1>9, <1>12 DEF InitCall, Tick, DirectorStops, TakeError
<1>13. CASE \E k \in Closers : ~crash /\ (CloseStreams(k) \/ CloseNotify(k) \/ CloseAgain(k)
                                         \/ CloseReset(k))
  BY <1>9, <1>13 DEF CloseStreams, CloseNotify, CloseAgain, CloseReset
<1>14. CASE \E c \in Controllers : ~crash /\ PauseOrResume(c)
  BY <1>9, <1>14 DEF PauseOrResume
<1>15. CASE UNCHANGED vars
  BY <1>15 DEF vars, servers
<1> HIDE DEF RInv
<1> QED
  BY <1>1, <1>2, <1>3, <1>4, <1>5, <1>6, <1>7, <1>8, <1>10, <1>11, <1>12, <1>13, <1>14, <1>15
  DEF Next, Step

(* No server of a Director ever runs out of reach of CloseConnector, unless *)
(* it has been told to close already.                                       *)
THEOREM SpecRunningIsRegistered == Spec => []RunningIsRegistered
<1>1. RInv /\ [Next]_vars => RInv'
  BY NextRInv
<1>2. RInv => RunningIsRegistered
  BY DEF RInv
<1> QED
  BY InitRInv, <1>1, <1>2, PTL DEF Spec

-----------------------------------------------------------------------------
(* Types, part by part: no action touches more than three of them. *)

ListenerOK == listener \in [Servers -> {"none", "open", "leaked", "closed"}]

TrafficOK ==
  /\ conn \in [Conns -> {"away", "backlog", "reset", "accepted", "held", "streamed",
                         "lost", "reporting", "reported"}]
  /\ at \in [Conns -> Servers \cup {None}]

DirectionOK ==
  /\ director \in [Inits -> {"none", "select", "gone"}]
  /\ initFresh \in BOOLEAN
  /\ signals \in 0 .. MaxSignals

ShutdownOK ==
  /\ streams \in {"open", "closed", "nil"}
  /\ doState \in {"fresh", "running", "ran"}
  /\ closing \in [Closers -> {"none", "streams", "resetting", "done"}]
  /\ closed \in BOOLEAN
  /\ crash \in BOOLEAN

PartsOK == RInv /\ ListenerOK /\ TrafficOK /\ DirectionOK /\ ShutdownOK /\ Gate!TypeOK

LEMMA InitPartsOK == Init => PartsOK
<1> SUFFICES ASSUME Init PROVE PartsOK
  OBVIOUS
<1>1. ListenerOK /\ TrafficOK
  BY DEF Init, ListenerOK, TrafficOK
<1>2. DirectionOK
  BY DirectorAssumption DEF Init, DirectionOK
<1>3. ShutdownOK
  BY DEF Init, ShutdownOK
<1>4. Gate!TypeOK
  BY DEF Init, Gate!Init, Gate!TypeOK
<1> QED
  BY <1>1, <1>2, <1>3, <1>4, InitRInv DEF PartsOK

LEMMA EndIsOK ==
  ASSUME ListenerOK, TrafficOK, NEW s \in Servers, End(s), UNCHANGED at
  PROVE  ListenerOK' /\ TrafficOK'
  BY DEF End, ListenerOK, TrafficOK

LEMMA NextPartsOK == PartsOK /\ [Next]_vars => PartsOK'
<1> SUFFICES ASSUME PartsOK, [Next]_vars PROVE PartsOK'
  OBVIOUS
<1>r. RInv'
  BY NextRInv DEF PartsOK
<1>p. ServersOK /\ ListenerOK /\ TrafficOK /\ DirectionOK /\ ShutdownOK /\ Gate!TypeOK
  BY DEF PartsOK, RInv
<1>g. UNCHANGED gate => Gate!TypeOK'
  BY <1>p DEF gate, Gate!TypeOK
<1>d. UNCHANGED direction => DirectionOK'
  BY <1>p DEF direction, DirectionOK
<1>s. UNCHANGED <<shutdown, crash>> => ShutdownOK'
  BY <1>p DEF shutdown, ShutdownOK
<1>t. UNCHANGED traffic => TrafficOK'
  BY <1>p DEF traffic, TrafficOK
<1>l. UNCHANGED listener => ListenerOK'
  BY <1>p DEF ListenerOK
<1>v. UNCHANGED servers => UNCHANGED listener
  BY DEF servers
<1> DEFINE OK == ListenerOK' /\ TrafficOK' /\ DirectionOK' /\ ShutdownOK' /\ Gate!TypeOK'
<1>1. ASSUME NEW s \in Servers, ServeCustom(s) \/ ServeLeaks(s) PROVE OK
  <2>1. ListenerOK'
    BY <1>1, <1>p DEF ServeCustom, ServeLeaks, ListenerOK
  <2> QED
    BY <1>1, <2>1, <1>g, <1>d, <1>s, <1>t DEF ServeCustom, ServeLeaks
<1>2. ASSUME NEW s \in Servers, Registered(s) \/ ServeFails(s) \/ Accepting(s) PROVE OK
  BY <1>2, <1>g, <1>d, <1>s, <1>t, <1>l DEF Registered, ServeFails, Accepting
<1>3. ASSUME NEW s \in Servers, Stop(s) \/ AcceptFails(s) PROVE OK
  BY <1>3, <1>p, <1>g, <1>d, <1>s, EndIsOK DEF Stop, AcceptFails
<1>4. ASSUME NEW s \in Servers, Health(s) PROVE OK
  <2>1. ListenerOK' /\ TrafficOK'
    <3>1. CASE ShortMaxAge
      BY <1>4, <1>p, <3>1, EndIsOK DEF Health
    <3>2. CASE ~ShortMaxAge
      BY <1>4, <1>l, <1>t, <3>2 DEF Health, traffic
    <3> QED
      BY <3>1, <3>2
  <2>2. DirectionOK'
    BY <1>4, <1>p, DirectorAssumption DEF Health, SignalSent, DirectionOK
  <2> QED
    BY <1>4, <2>1, <2>2, <1>g, <1>s DEF Health
<1>5. ASSUME NEW s \in Servers, NEW c \in Conns, Connect(c, s) \/ Accept(s, c) \/ HTTPAccept(s, c)
      PROVE  OK
  <2>1. TrafficOK'
    BY <1>5, <1>p DEF Connect, Accept, HTTPAccept, TrafficOK
  <2>2. UNCHANGED <<listener, direction, shutdown, crash, gate>>
    BY <1>5 DEF Connect, Accept, HTTPAccept, servers
  <2> QED
    BY <2>1, <2>2, <1>g, <1>d, <1>s, <1>l
<1>6. ASSUME NEW a \in Addrs, CloseConnector(a) PROVE OK
  <2>1. ShutdownOK'
    BY <1>6, <1>p DEF CloseConnector, ShutdownOK, shutdown
  <2> QED
    BY <1>6, <2>1, <1>g, <1>d, <1>t, <1>l DEF CloseConnector
<1>7. ASSUME NEW c \in Conns, Wait(c) PROVE OK
  <2>1. TrafficOK'
    BY <1>7, <1>p DEF Wait, TrafficOK
  <2>2. Gate!TypeOK'
    BY <1>7, <1>p DEF Wait, Gate!Arrive, Gate!TypeOK
  <2> QED
    BY <1>7, <2>1, <2>2, <1>d, <1>s, <1>l, <1>v DEF Wait
<1>8. ASSUME NEW c \in Conns, NEW fails \in BOOLEAN, Target(c, fails) PROVE OK
  <2>1. ErrorOf(at[c]) \in {"lost", "reporting"}
    BY DEF ErrorOf
  <2>2. TrafficOK'
    BY <1>8, <2>1, <1>p DEF Target, TrafficOK
  <2>3. ShutdownOK'
    BY <1>8, <1>p DEF Target, ShutdownOK, shutdown
  <2> QED
    BY <1>8, <2>2, <2>3, <1>g, <1>d, <1>l, <1>v DEF Target
<1>9. ASSUME NEW i \in Inits, InitCall(i) \/ Tick(i) \/ DirectorStops(i) PROVE OK
  <2>1. DirectionOK'
    <3>1. CASE InitCall(i)
      <4>1. director' \in [Inits -> {"none", "select", "gone"}]
        BY <1>p, <3>1 DEF InitCall, DirectionOK
      <4>2. initFresh' \in BOOLEAN
        BY <3>1 DEF InitCall
      <4>3. signals' \in 0 .. MaxSignals
        BY <1>p, <3>1 DEF InitCall, DirectionOK
      <4> QED
        BY <4>1, <4>2, <4>3 DEF DirectionOK
    <3>2. CASE Tick(i)
      BY <1>p, <3>2, DirectorAssumption DEF Tick, DirectionOK
    <3>3. CASE DirectorStops(i)
      BY <1>p, <3>3 DEF DirectorStops, DirectionOK
    <3> QED
      BY <1>9, <3>1, <3>2, <3>3
  <2>2. UNCHANGED <<servers, traffic, shutdown, crash, gate>>
    BY <1>9 DEF InitCall, Tick, DirectorStops
  <2> QED
    BY <2>1, <2>2, <1>g, <1>s, <1>t, <1>l, <1>v
<1>10. ASSUME NEW i \in Inits, NEW c \in Conns, TakeError(i, c) PROVE OK
  <2>1. TrafficOK'
    BY <1>10, <1>p DEF TakeError, TrafficOK
  <2> QED
    BY <1>10, <2>1, <1>g, <1>d, <1>s, <1>l, <1>v DEF TakeError
<1>11. ASSUME NEW k \in Closers, CloseStreams(k) \/ CloseNotify(k) \/ CloseAgain(k) \/ CloseReset(k)
       PROVE  OK
  <2>1. ShutdownOK'
    BY <1>11, <1>p DEF CloseStreams, CloseNotify, CloseAgain, CloseReset, ShutdownOK
  <2>2. DirectionOK'
    BY <1>11, <1>p, <1>d DEF CloseStreams, CloseNotify, CloseAgain, CloseReset, DirectionOK
  <2>3. UNCHANGED <<servers, traffic, gate>>
    BY <1>11 DEF CloseStreams, CloseNotify, CloseAgain, CloseReset
  <2> QED
    BY <2>1, <2>2, <2>3, <1>g, <1>t, <1>l, <1>v
<1>12. ASSUME NEW c \in Controllers, PauseOrResume(c) PROVE OK
  <2>1. Gate!TypeOK'
    BY <1>12, <1>p DEF PauseOrResume, Gate!Call, Gate!Pause, Gate!Resume, Gate!TypeOK
  <2> QED
    BY <1>12, <2>1, <1>d, <1>s, <1>t, <1>l, <1>v DEF PauseOrResume
<1>13. ASSUME UNCHANGED vars PROVE OK
  BY <1>13, <1>g, <1>d, <1>s, <1>t, <1>l, <1>v DEF vars
<1>14. OK
  <2> HIDE DEF OK
  <2> QED
    BY <1>1, <1>2, <1>3, <1>4, <1>5, <1>6, <1>7, <1>8, <1>9, <1>10, <1>11, <1>12, <1>13
    DEF Next, Step
<1> QED
  BY <1>r, <1>14 DEF PartsOK

(* Every variable of a Director keeps to its range, for any servers, any    *)
(* clients and any number of Closes.                                        *)
THEOREM SpecTypeOK == Spec => []TypeOK
<1>1. PartsOK => TypeOK
  BY DEF PartsOK, RInv, ServersOK, ListenerOK, TrafficOK, DirectionOK, ShutdownOK, TypeOK
<1> QED
  BY InitPartsOK, NextPartsOK, <1>1, PTL DEF Spec
=============================================================================
