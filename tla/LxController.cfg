SPECIFICATION FairSpec
CONSTANTS
  c1 = c1
  j1 = j1
  j2 = j2
  Callers <- OneCaller
  Jobs <- TwoJobs
  RetryMax = 1
  Configs <- Profiles
  MaxCalls = 2
  MaxBusy = 2
  MaxSessions = 2
INVARIANT DumpFollowsContainer
INVARIANT SniferFollowsContainer
INVARIANT DropIsFinal
PROPERTY DumpEnds
PROPERTY HookRuns
PROPERTY IdleIsStopped
\* Everything stops when all calls have been made and the timers are off.
CHECK_DEADLOCK FALSE
