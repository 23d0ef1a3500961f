--------------------------- MODULE SteeringPromise ---------------------------
(***************************************************************************)
(* What a run promises about steering, with the agent left out: a message  *)
(* is accepted only while the run is open and there is room, messages are  *)
(* delivered all at once and in order, and a run that reports a final      *)
(* reply has delivered everything it accepted.  A run that ends without    *)
(* one (an error, a cancel, a pause) may leave accepted messages behind.   *)
(***************************************************************************)
EXTENDS Integers

CONSTANT Capacity

VARIABLES
  accepted,     \* messages acknowledged so far
  delivered,    \* the first of them the conversation has received
  phase,        \* "open", "settled" (closed, all delivered), "abandoned"
  outcome       \* "none", "finished", "unfinished"

vars == <<accepted, delivered, phase, outcome>>

Init ==
  /\ accepted = 0
  /\ delivered = 0
  /\ phase = "open"
  /\ outcome = "none"

Accept ==
  /\ phase = "open"
  /\ accepted - delivered < Capacity
  /\ accepted' = accepted + 1
  /\ UNCHANGED <<delivered, phase, outcome>>

Deliver ==
  /\ phase = "open"
  /\ delivered < accepted
  /\ delivered' = accepted
  /\ UNCHANGED <<accepted, phase, outcome>>

(* Closing with nothing waiting; a run that ends there without a final      *)
(* reply may say so in the same step.                                      *)
Settle ==
  /\ phase = "open"
  /\ delivered = accepted
  /\ phase' = "settled"
  /\ outcome' \in {"none", "unfinished"}
  /\ UNCHANGED <<accepted, delivered>>

(* Closing on messages that will never be delivered.                       *)
Abandon ==
  /\ phase = "open"
  /\ delivered < accepted
  /\ phase' = "abandoned"
  /\ outcome' \in {"none", "unfinished"}
  /\ UNCHANGED <<accepted, delivered>>

Conclude ==
  /\ outcome = "none"
  /\ \/ phase = "settled" /\ outcome' = "finished"
     \/ phase # "open" /\ outcome' = "unfinished"
  /\ UNCHANGED <<accepted, delivered, phase>>

Next == Accept \/ Deliver \/ Settle \/ Abandon \/ Conclude

Spec == Init /\ [][Next]_vars
=============================================================================
