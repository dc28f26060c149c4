SPECIFICATION FairSpec
CONSTANTS
  c1 = c1
  Callers <- OneCaller
  MaxSessions = 3
INVARIANT OneCapture
INVARIANT CaptureIsActive
PROPERTY KillEnds
PROPERTY EOFEnds
\* The caller stays in Live when the sessions are used up.
CHECK_DEADLOCK FALSE
