----------------------------- MODULE MCDirector -----------------------------
(* Instances of Director for TLC: a ConnServe and an HTTPServe for the same  *)
(* address.                                                                  *)
EXTENDS Director, TLC

CONSTANTS connServe, httpServe, a1, c1, i1, k1, k2, p1

TwoServers == {connServe, httpServe}
OneAddr == {a1}
ServerAddr == [s \in Servers |-> a1]
ServerKind == [s \in Servers |-> IF s = httpServe THEN "http" ELSE "conn"]
OneConn == {c1}
OneInit == {i1}
OneCloser == {k1}
TwoClosers == {k1, k2}
OneController == {p1}
=============================================================================
