SPECIFICATION FairSpec
CONSTANTS
  c1 = c1
  c2 = c2
  c3 = c3
  s1 = s1
  s2 = s2
  Controllers <- OneController
  Servers <- TwoServers
  MaxRounds = 3
INVARIANT PauseIsResumable
PROPERTY ResumeReleases
PROPERTY ImplementsGate
\* The controllers stop when MaxRounds halters are used up.
CHECK_DEADLOCK FALSE
