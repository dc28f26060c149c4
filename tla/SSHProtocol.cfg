SPECIFICATION MCSpec
CONSTANTS
  None = None
  Loads <- MCLoads
  Releases <- MCReleases
  Kinds <- MCKinds
INVARIANT OneReply
PROPERTY WantedIsAnswered
PROPERTY DropEndsConnection
PROPERTY ProxyTearsDown
PROPERTY ImplementsFuture
PROPERTY LoadedIsResolved
PROPERTY ReleaseReturns
\* A connection may end, and a user may stop doing anything.
CHECK_DEADLOCK FALSE
