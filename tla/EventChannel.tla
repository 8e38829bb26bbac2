---------------------------- MODULE EventChannel ----------------------------
(***************************************************************************)
(* What the event queue promises its users: a channel that holds at most   *)
(* Capacity messages, hands them out in the order they were put in, and    *)
(* gives each message to exactly one handler.                              *)
(***************************************************************************)
EXTENDS Naturals, Sequences, FiniteSets

CONSTANT Capacity

VARIABLES
  waiting,   \* messages put and not taken, the oldest first
  claimed,   \* messages taken and not handled
  handled,   \* messages handled, in order
  last       \* number of the last message put

vars == <<waiting, claimed, handled, last>>

Init == waiting = <<>> /\ claimed = {} /\ handled = <<>> /\ last = 0

Put ==
  /\ Len(waiting) + Cardinality(claimed) < Capacity
  /\ last' = last + 1
  /\ waiting' = Append(waiting, last')
  /\ UNCHANGED <<claimed, handled>>

Take(k) ==
  /\ claimed' = claimed \cup {waiting[j] : j \in 1 .. k}
  /\ waiting' = SubSeq(waiting, k + 1, Len(waiting))
  /\ UNCHANGED <<handled, last>>

HandleOne(m) ==
  /\ m \in claimed
  /\ claimed' = claimed \ {m}
  /\ handled' = Append(handled, m)
  /\ UNCHANGED <<waiting, last>>

Next ==
  \/ Put
  \/ \E k \in 1 .. Len(waiting) : Take(k)
  \/ \E m \in claimed : HandleOne(m)

Spec == Init /\ [][Next]_vars
=============================================================================
