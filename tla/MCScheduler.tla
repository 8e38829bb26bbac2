----------------------------- MODULE MCScheduler -----------------------------
(***************************************************************************)
(* The scheduler with the wait queue of every lock read as a sequence, and *)
(* the abstract FIFO lock it implements.                                   *)
(***************************************************************************)
EXTENDS Scheduler, Sequences, FiniteSets

\* q starts at lock->next and follows lock_next to the end of the list.
Follows(q, n, l) ==
  /\ n > 0 => q[1] = next[l] /\ lock_next[q[n]] = NULL
  /\ \A k \in 1 .. n - 1 : lock_next[q[k]] = q[k + 1]

\* The threads that sleep in lock() on l, in the order in which unlock() will
\* reach them.
InOrder(l) ==
  LET n == Cardinality(Sleepers(l)) IN
  CHOOSE q \in [1 .. n -> Sleepers(l)] : Follows(q, n, l)

WaitQueue == [l \in Lock |-> InOrder(l)]

Fifo == INSTANCE FifoLock WITH queue <- WaitQueue

\* lock() and unlock() implement the FIFO lock: the linked list of waiting
\* threads is a queue, and unlock() hands the lock to its first thread.
ImplementsFifoLock == Fifo!Spec
=============================================================================
