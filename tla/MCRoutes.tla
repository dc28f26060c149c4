------------------------------ MODULE MCRoutes ------------------------------
(* Instances of Routes for TLC: two paths with a first segment in common.   *)
EXTENDS Routes

CONSTANTS a, b, any, top, g1, g2, f1

AllSegments == {a, b, any, top}
Wildcards == {any}
TwoRegistrars == {g1, g2}
PathOf == [g \in Registrars |-> IF g = g1 THEN <<a, b>> ELSE <<a, any>>]
OneFinder == {f1}
SomeQueries == {<<top, a, b>>, <<top, a>>, <<b>>}
=============================================================================
