SPECIFICATION Spec
CONSTANTS
  c1 = c1
  c2 = c2
  c3 = c3
  s1 = s1
  s2 = s2
  Controllers <- TwoControllers
  Servers <- OneServer
  MaxRounds = 2
INVARIANT ResumeCompletesWaiter
\* The controllers stop when MaxRounds halters are used up.
CHECK_DEADLOCK FALSE
