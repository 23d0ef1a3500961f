----------------------------- MODULE RunControl -----------------------------
(***************************************************************************)
(* Control of one run: the bounded steering queue behind a lock and the    *)
(* sticky cancellation flag beside it (control.rs).                        *)
(*                                                                         *)
(* A steering message is named by the order in which the queue took it,    *)
(* so the messages accepted so far are 1..accepted and what the run has    *)
(* taken is a sequence of such numbers.  Empty and oversized messages are  *)
(* turned away before any shared state is read, so they are not modelled.  *)
(*                                                                         *)
(* The two halves of try_steer are separate steps: the cancellation flag   *)
(* is read before the queue's lock is taken.                               *)
(***************************************************************************)
EXTENDS Integers, Sequences

CONSTANTS
  Senders,      \* clones of the controller that may steer at the same time
  Capacity,     \* MAX_STEERING_MESSAGES
  MaxAccepted   \* bound of the model: messages accepted during the run

ASSUME CapacityAssumption == Capacity \in Nat \ {0}
ASSUME MaxAcceptedAssumption == MaxAccepted \in Nat

VARIABLES
  open,         \* Steering.open
  queue,        \* Steering.messages
  cancelled,    \* the value in the watch channel
  sender,       \* where each sender is inside try_steer
  accepted,     \* how many messages try_steer has answered Ok to (history)
  taken         \* how many of them drain has handed to the run (history)

control == <<open, queue, cancelled, sender, accepted, taken>>

ControlTypeOK ==
  /\ queue \in Seq(Nat)
  /\ Len(queue) <= Capacity
  /\ sender \in [Senders -> {"idle", "checked"}]
  /\ accepted \in Nat
  /\ taken \in Nat

ControlInit ==
  /\ open = TRUE
  /\ queue = <<>>
  /\ cancelled = FALSE
  /\ sender = [s \in Senders |-> "idle"]
  /\ accepted = 0
  /\ taken = 0

(* try_steer up to the lock: the flag was still clear when it was read.    *)
CheckCancel(s) ==
  /\ sender[s] = "idle"
  /\ ~cancelled
  /\ accepted < MaxAccepted
  /\ sender' = [sender EXCEPT ![s] = "checked"]
  /\ UNCHANGED <<open, queue, cancelled, accepted, taken>>

(* Mutant of Accept: the message is pushed to the front.                   *)
Accept_PushFront(s) ==
  /\ sender[s] = "checked"
  /\ open
  /\ Len(queue) < Capacity
  /\ queue' = <<accepted + 1>> \o queue
  /\ accepted' = accepted + 1
  /\ sender' = [sender EXCEPT ![s] = "idle"]
  /\ UNCHANGED <<open, cancelled, taken>>

(* try_steer under the lock: the message is queued and acknowledged.       *)
Accept(s) ==
  /\ sender[s] = "checked"
  /\ open
  /\ Len(queue) < Capacity
  /\ queue' = Append(queue, accepted + 1)
  /\ accepted' = accepted + 1
  /\ sender' = [sender EXCEPT ![s] = "idle"]
  /\ UNCHANGED <<open, cancelled, taken>>

(* try_steer under the lock: the run is closed or the queue is full, and   *)
(* the sender is told so.                                                  *)
Reject(s) ==
  /\ sender[s] = "checked"
  /\ ~open \/ Len(queue) >= Capacity
  /\ sender' = [sender EXCEPT ![s] = "idle"]
  /\ UNCHANGED <<open, queue, cancelled, accepted, taken>>

(* RunController::cancel: the flag never goes back.                        *)
Cancel ==
  /\ ~cancelled
  /\ cancelled' = TRUE
  /\ UNCHANGED <<open, queue, sender, accepted, taken>>

(* Mutant of Drain: closing is left to the close that follows the turn.    *)
Drain_ClosesLater(final) ==
  /\ open' = open
  /\ queue' = <<>>
  /\ taken' = taken + Len(queue)
  /\ UNCHANGED <<cancelled, sender, accepted>>

(* RunInbox::drain: takes everything, and closes the queue in the same     *)
(* critical section when a final reply found it empty.                     *)
Drain(final) ==
  /\ open' = (open /\ ~(final /\ queue = <<>>))
  /\ queue' = <<>>
  /\ taken' = taken + Len(queue)
  /\ UNCHANGED <<cancelled, sender, accepted>>

(* RunInbox::close: refuses later messages and throws the queued ones away *)
Close ==
  /\ open' = FALSE
  /\ queue' = <<>>
  /\ UNCHANGED <<cancelled, sender, accepted, taken>>

Steering == \E s \in Senders : CheckCancel(s) \/ Accept(s) \/ Reject(s)
=============================================================================
