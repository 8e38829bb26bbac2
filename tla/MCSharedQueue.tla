--------------------------- MODULE MCSharedQueue ---------------------------
(***************************************************************************)
(* The shared queue and the channel it implements while its indices have   *)
(* not wrapped.                                                            *)
(***************************************************************************)
EXTENDS SharedQueue

Unhandled(c) == IF pc[c] = "handle" THEN i[c] + 1 .. range[c].tail ELSE {}

Channel == INSTANCE EventChannel WITH
  Capacity <- N,
  waiting  <- [j \in 1 .. q_locked.tail - q_safe.head |-> q_safe.head + j],
  claimed  <- UNION {Unhandled(c) : c \in Consumers},
  handled  <- [j \in 1 .. Len(got) |-> got[j].id],
  last     <- sent

\* enqueue(), dequeue() and the workers' loops implement the channel: indices
\* are given out in order and never beyond the capacity, and each message is
\* claimed by one consumer and handled once.
ImplementsChannel == Channel!Spec
=============================================================================
