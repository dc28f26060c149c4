SPECIFICATION FairSpec
CONSTANTS
  connServe = connServe
  httpServe = httpServe
  a1 = a1
  c1 = c1
  i1 = i1
  k1 = k1
  k2 = k2
  p1 = p1
  None = None
  Servers <- TwoServers
  Addrs <- OneAddr
  Addr <- ServerAddr
  Kind <- ServerKind
  Conns <- OneConn
  Inits <- OneInit
  Closers <- TwoClosers
  Controllers <- OneController
  ShortMaxAge = TRUE
  MaxSignals = 1
INVARIANT RunningIsRegistered
PROPERTY AcceptedReachesTarget
PROPERTY ClosedServerEnds
\* Everything stops when all calls have been made.
CHECK_DEADLOCK FALSE
