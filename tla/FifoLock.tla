------------------------------ MODULE FifoLock ------------------------------
(***************************************************************************)
(* What Process::lock and Process::unlock promise: "threads wait in FIFO   *)
(* order", and the call of lock() returns to the lock's owner only.        *)
(***************************************************************************)
EXTENDS Naturals, Sequences

CONSTANTS Thread, Lock, NULL

VARIABLES
  owner,   \* the thread each lock belongs to
  queue,   \* the threads that wait for it, the longest waiting first
  held     \* the locks whose lock() call has returned to each thread

vars == <<owner, queue, held>>

Init ==
  /\ owner = [l \in Lock |-> NULL]
  /\ queue = [l \in Lock |-> <<>>]
  /\ held = [t \in Thread |-> {}]

Waiting == UNION {{queue[l][i] : i \in DOMAIN queue[l]} : l \in Lock}

\* A free lock is taken; nobody waits for a free lock.
Acquire(t, l) ==
  /\ owner[l] \in {t, NULL}
  /\ owner' = [owner EXCEPT ![l] = t]
  /\ t \notin Waiting
  /\ owner[l] = NULL => queue[l] = <<>>
  /\ UNCHANGED queue

\* The call returns at once, or the owner returns from it later.
Return(t, l) ==
  /\ owner'[l] = t
  /\ held' = [held EXCEPT ![t] = @ \cup {l}]

Wait(t, l) ==
  /\ owner[l] \notin {t, NULL}
  /\ UNCHANGED <<owner, held>>
  /\ t \notin Waiting
  /\ queue' = [queue EXCEPT ![l] = Append(@, t)]

\* The holder passes the lock to the thread that has waited longest.
Release(t, l) ==
  /\ l \in held[t]
  /\ owner[l] = t
  /\ held' = [held EXCEPT ![t] = @ \ {l}]
  /\ IF queue[l] = <<>>
     THEN owner' = [owner EXCEPT ![l] = NULL] /\ UNCHANGED queue
     ELSE /\ owner' = [owner EXCEPT ![l] = Head(queue[l])]
          /\ queue' = [queue EXCEPT ![l] = Tail(@)]

Next ==
  \E t \in Thread, l \in Lock :
    \/ Acquire(t, l) /\ Return(t, l)
    \/ Acquire(t, l) /\ UNCHANGED held
    \/ Return(t, l) /\ UNCHANGED <<owner, queue>>
    \/ Wait(t, l)
    \/ Release(t, l)

Spec == Init /\ [][Next]_vars
=============================================================================
