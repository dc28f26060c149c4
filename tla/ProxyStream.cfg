SPECIFICATION FairSpec
CONSTANTS
  w0 = w0
  w1 = w1
  w2 = w2
  r1 = r1
  r2 = r2
  j1 = j1
  j2 = j2
  k1 = k1
  k2 = k2
  c1 = c1
  Boot = w0
  Workers <- TwoWorkers
  Removers <- OneRemover
  Jobs <- TwoJobs
  Closers <- OneCloser
  Controllers <- OneController
INVARIANT WorkersNotOverstated
PROPERTY AcceptedIsTaken
PROPERTY TakenIsProcessed
PROPERTY CloseStopsEverybody
PROPERTY ManagementServes
\* Everything stops when all calls have been made.
CHECK_DEADLOCK FALSE
