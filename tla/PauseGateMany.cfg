SPECIFICATION Spec
CONSTANTS
  c1 = c1
  c2 = c2
  c3 = c3
  s1 = s1
  s2 = s2
  Controllers <- ThreeControllers
  Servers <- TwoServers
  MaxRounds = 3
SYMMETRY Anonymous
INVARIANT AddAndDonePair
\* The controllers stop when MaxRounds halters are used up.
CHECK_DEADLOCK FALSE
