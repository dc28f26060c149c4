----------------------------- MODULE MCExchange -----------------------------
(* Instances of Exchange for TLC. *)
EXTENDS Exchange

AllModes == {"TCP", "HTTPConns", "Net2HTTP", "HTTP2Net", "HTTPReqRes"}
=============================================================================
