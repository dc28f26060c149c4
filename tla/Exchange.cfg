SPECIFICATION FairSpec
CONSTANTS
  Modes <- AllModes
  MaxChunks = 2
INVARIANT SourceOutlivesCopiers
INVARIANT LostIsReported
INVARIANT ListenersFollow
PROPERTY EndedIsReleased
\* An exchange is over at some time.
CHECK_DEADLOCK FALSE
