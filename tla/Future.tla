------------------------------- MODULE Future -------------------------------
(***************************************************************************)
(* What a servicedrop.PayloadRack promises to the routes that load it and  *)
(* to the handlers that release it: the first payload that is loaded is    *)
(* given once, either to its done action or to its fail action, and never  *)
(* to fail if the rack's timeout is negative.                              *)
(***************************************************************************)

CONSTANTS
  Payloads,         \* what may be loaded
  None              \* no payload

VARIABLES
  immediate,        \* the timeout is negative
  value,            \* the payload that was loaded
  done, fail        \* what the two actions were fulfilled with

vars == <<immediate, value, done, fail>>

Init ==
  /\ immediate \in BOOLEAN
  /\ value = None
  /\ done = None
  /\ fail = None

Load(p) ==
  /\ value = None
  /\ value' = p
  /\ UNCHANGED <<immediate, done, fail>>

Open == value /= None /\ done = None /\ fail = None

Succeed ==
  /\ Open
  /\ done' = value
  /\ UNCHANGED <<immediate, value, fail>>

Expire ==
  /\ Open
  /\ ~immediate
  /\ fail' = value
  /\ UNCHANGED <<immediate, value, done>>

Next == (\E p \in Payloads : Load(p)) \/ Succeed \/ Expire

Spec == Init /\ [][Next]_vars
=============================================================================
