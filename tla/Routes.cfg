SPECIFICATION Spec
CONSTANTS
  a = a
  b = b
  any = any
  top = top
  g1 = g1
  g2 = g2
  f1 = f1
  Segments <- AllSegments
  Wild <- Wildcards
  Root = top
  Registrars <- TwoRegistrars
  Path <- PathOf
  Finders <- OneFinder
  Diverts <- Wildcards
  Queries <- SomeQueries
  MaxRoutes = 5
INVARIANT TypeOK
INVARIANT FoundIsAsked
INVARIANT RegisteredIsFound
INVARIANT RegisteredIsServed
INVARIANT ReceivedIsMatched
INVARIANT FoundIsServed
\* Everything stops when all calls have been made.
CHECK_DEADLOCK FALSE
