---------------------------- MODULE PayloadRack ----------------------------
(***************************************************************************)
(* servicedrop.PayloadRack.  Load starts, once, a goroutine that offers    *)
(* the payload on an unbuffered channel and then closes the channel, and a *)
(* helper beside it: a collector if the timeout is negative, which takes   *)
(* the payload for the done action, or a timer, which takes it for the     *)
(* fail action when the time is over.  Any number of Release calls compete *)
(* with the helper for the payload.                                        *)
(***************************************************************************)

CONSTANTS
  Loads,            \* the calls of Load, each with its payload
  Releases,         \* the calls of Release
  None

ASSUME RackAssumption == None \notin Loads

VARIABLES
  immediate,        \* the timeout is negative
  once,             \* p.once has run
  sender,           \* the goroutine each Load has started
  helper,           \* the helper it has started
  release,          \* where each Release is
  taken,            \* what a Release that holds a payload holds
  done, fail        \* what the two actions were fulfilled with

vars == <<immediate, once, sender, helper, release, taken, done, fail>>

Init ==
  /\ immediate \in BOOLEAN
  /\ once = FALSE
  /\ sender = [l \in Loads |-> "none"]
  /\ helper = [l \in Loads |-> "none"]
  /\ release = [r \in Releases |-> "none"]
  /\ taken = [r \in Releases |-> None]
  /\ done = None
  /\ fail = None

-----------------------------------------------------------------------------
(* p.once.Do runs its function for the first Load; others do nothing.      *)
(* Faulty variant: every Load runs it. *)
EveryLoad == TRUE
FirstLoad == ~once

Load(l) ==
  /\ sender[l] = "none"
  /\ IF FirstLoad
       THEN /\ once' = TRUE
            /\ sender' = [sender EXCEPT ![l] = "sending"]
            /\ helper' = [helper EXCEPT ![l] = IF immediate THEN "receiving" ELSE "sleeping"]
       ELSE /\ sender' = [sender EXCEPT ![l] = "ignored"]
            /\ UNCHANGED <<once, helper>>
  /\ UNCHANGED <<immediate, release, taken, done, fail>>

TimeOver(l) ==
  /\ helper[l] = "sleeping"
  /\ helper' = [helper EXCEPT ![l] = "receiving"]
  /\ UNCHANGED <<immediate, once, sender, release, taken, done, fail>>

Release(r) ==
  /\ release[r] = "none"
  /\ release' = [release EXCEPT ![r] = "receiving"]
  /\ UNCHANGED <<immediate, once, sender, helper, taken, done, fail>>

-----------------------------------------------------------------------------
(* The channel: an offered payload goes to one receiver, ... *)

Sent(l) == sender' = [sender EXCEPT ![l] = "sent"]

HelperReceives(l) ==
  /\ helper[l] = "receiving"
  /\ sender[l] = "sending"
  /\ Sent(l)
  /\ helper' = [helper EXCEPT ![l] = "holding"]
  /\ UNCHANGED <<immediate, once, release, taken, done, fail>>

ReleaseReceives(r, l) ==
  /\ release[r] = "receiving"
  /\ sender[l] = "sending"
  /\ Sent(l)
  /\ release' = [release EXCEPT ![r] = "holding"]
  /\ taken' = [taken EXCEPT ![r] = l]
  /\ UNCHANGED <<immediate, once, helper, done, fail>>

(* ... then the channel is closed, ...                                     *)
(* Faulty variant: it is left open. *)
LeftOpen == "sent"
AfterSending == "closed"

CloseChannel(l) ==
  /\ sender[l] = "sent"
  /\ sender' = [sender EXCEPT ![l] = AfterSending]
  /\ UNCHANGED <<immediate, once, helper, release, taken, done, fail>>

(* ... and receivers find it closed. *)
Closed == \E l \in Loads : sender[l] = "closed"

HelperIsLate(l) ==
  /\ helper[l] = "receiving"
  /\ Closed
  /\ helper' = [helper EXCEPT ![l] = "gone"]
  /\ UNCHANGED <<immediate, once, sender, release, taken, done, fail>>

ReleaseIsLate(r) ==
  /\ release[r] = "receiving"
  /\ Closed
  /\ release' = [release EXCEPT ![r] = "returned"]
  /\ UNCHANGED <<immediate, once, sender, helper, taken, done, fail>>

-----------------------------------------------------------------------------
(* Whoever has the payload fulfils its action with it.                     *)
(* Faulty variant: nobody does after a Release. *)
NotFulfilled(r) == done
FulfilledBy(r) == taken[r]

HelperResolves(l) ==
  /\ helper[l] = "holding"
  /\ helper' = [helper EXCEPT ![l] = "gone"]
  /\ IF immediate THEN done' = l /\ UNCHANGED fail
                  ELSE fail' = l /\ UNCHANGED done
  /\ UNCHANGED <<immediate, once, sender, release, taken>>

ReleaseResolves(r) ==
  /\ release[r] = "holding"
  /\ release' = [release EXCEPT ![r] = "returned"]
  /\ done' = FulfilledBy(r)
  /\ UNCHANGED <<immediate, once, sender, helper, taken, fail>>

HelperStep(l) == TimeOver(l) \/ HelperReceives(l) \/ HelperIsLate(l) \/ HelperResolves(l)

ReleaseStep(r) ==
  \/ \E l \in Loads : ReleaseReceives(r, l)
  \/ ReleaseIsLate(r)
  \/ ReleaseResolves(r)

Next ==
  \/ \E l \in Loads : Load(l) \/ CloseChannel(l) \/ HelperStep(l)
  \/ \E r \in Releases : Release(r) \/ ReleaseStep(r)

Spec == Init /\ [][Next]_vars

(* The goroutines keep running and time passes; nobody need call anything. *)
Fairness ==
  /\ \A l \in Loads : WF_vars(CloseChannel(l)) /\ WF_vars(HelperStep(l))
  /\ \A r \in Releases : WF_vars(ReleaseStep(r))

FairSpec == Spec /\ Fairness

-----------------------------------------------------------------------------
(* Properties *)

TypeOK ==
  /\ immediate \in BOOLEAN
  /\ once \in BOOLEAN
  /\ sender \in [Loads -> {"none", "ignored", "sending", "sent", "closed"}]
  /\ helper \in [Loads -> {"none", "sleeping", "receiving", "holding", "gone"}]
  /\ release \in [Releases -> {"none", "receiving", "holding", "returned"}]
  /\ taken \in [Releases -> Loads \cup {None}]
  /\ done \in Loads \cup {None}
  /\ fail \in Loads \cup {None}

Loaded(l) == sender[l] \in {"sending", "sent", "closed"}
Resolved == done /= None \/ fail /= None

(* One Load starts the goroutines, and p.once tells whether it has. *)
OneLoad ==
  /\ \A l \in Loads : Loaded(l) => once
  /\ \A l, m \in Loads : Loaded(l) /\ Loaded(m) => l = m
  /\ \A l \in Loads : helper[l] /= "none" => Loaded(l)
  /\ once => \E l \in Loads : Loaded(l)

Gone(l) == sender[l] \in {"sent", "closed"}

(* The payload is in one place: on offer, in the hands of the helper or of *)
(* one Release, or in one of the actions.                                  *)
OnePlace ==
  /\ \A l \in Loads : helper[l] = "holding" => Gone(l) /\ ~Resolved
  /\ \A r \in Releases : release[r] = "holding" =>
       /\ taken[r] \in Loads
       /\ Gone(taken[r])
       /\ helper[taken[r]] /= "holding"
       /\ ~Resolved
  /\ \A r, s \in Releases : release[r] = "holding" /\ release[s] = "holding" => r = s
  /\ done /= None => done \in Loads /\ Gone(done) /\ fail = None
  /\ fail /= None => fail \in Loads /\ Gone(fail) /\ ~immediate

(* The inductive invariant: a payload that two could receive, or that both  *)
(* a handler and the timer could give away, is never there.                 *)
IInv == TypeOK /\ OneLoad /\ OnePlace

(* The payload that was loaded: the one Load that was not ignored. *)
Value == IF \E l \in Loads : Loaded(l) THEN CHOOSE l \in Loads : Loaded(l) ELSE None

(* A rack is a future.  However many handlers release it, at whatever time, *)
(* and however often it is loaded: the first payload goes to one of the two *)
(* actions, once, and to fail only if the timeout is not negative ("Note:   *)
(* If the timeout is a negative number then its seen as an immediate        *)
(* resolve").                                                               *)
F == INSTANCE Future WITH Payloads <- Loads, value <- Value

ImplementsFuture == F!Spec

(* A rack that is loaded is resolved, also if nobody releases it.           *)
LoadedIsResolved == once ~> Resolved

(* Every Release of a loaded rack returns, also if another one or the timer *)
(* was faster.                                                              *)
ReleaseReturns ==
  \A r \in Releases : (once /\ release[r] = "receiving") ~> release[r] = "returned"
=============================================================================
