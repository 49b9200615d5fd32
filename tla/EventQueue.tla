----------------------------- MODULE EventQueue -----------------------------
(***************************************************************************)
(* What the deferred side of the EventBus promises to its users: a bounded *)
(* first-in first-out queue whose events are delivered one at a time, in   *)
(* the order in which enqueue() accepted them.  An event that finds the    *)
(* queue full is refused and nothing else changes.                         *)
(*                                                                         *)
(* EventBus.tla is shown to implement this specification.                  *)
(***************************************************************************)
EXTENDS Naturals, Sequences

CONSTANTS
  Data,       \* the events that can be queued
  Capacity,   \* the largest number of events that wait at the same time
  Nothing     \* stands for "no queued event is being delivered"

VARIABLES
  pending,    \* the accepted events that still wait, oldest first
  current     \* the queued event that is being delivered, or Nothing

queueVars == <<pending, current>>

Init ==
  /\ pending = <<>>
  /\ current = Nothing

(* An event is accepted at the back of the queue, if there is room. *)
Put(d) ==
  /\ Len(pending) < Capacity
  /\ pending' = Append(pending, d)
  /\ UNCHANGED current

(* The delivery of the oldest event starts, when no other is under way. *)
Take ==
  /\ current = Nothing
  /\ pending # <<>>
  /\ current' = Head(pending)
  /\ pending' = Tail(pending)

(* The delivery under way ends. *)
Finish ==
  /\ current # Nothing
  /\ current' = Nothing
  /\ UNCHANGED pending

Next ==
  \/ \E d \in Data : Put(d)
  \/ Take
  \/ Finish

Spec == Init /\ [][Next]_queueVars

=============================================================================
