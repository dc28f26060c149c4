--------------------------- MODULE MCProxyStream ---------------------------
(* Instances of ProxyStream for TLC. *)
EXTENDS ProxyStream, TLC

CONSTANTS w0, w1, w2, r1, r2, j1, j2, k1, k2, c1

TwoWorkers == {w0, w1}
OneRemover == {r1}
TwoJobs == {j1, j2}
OneCloser == {k1}
OneController == {c1}
=============================================================================
