--------------------------- MODULE FifoLockProofs ---------------------------
(***************************************************************************)
(* lock() and unlock() implement the FIFO lock, for every number of        *)
(* processes, threads and locks.                                           *)
(*                                                                         *)
(* The invariant says that some sequence without repetition lists the      *)
(* sleepers of a lock in the order of the pointers.  As every sleeper is   *)
(* reached from the head of the list (Reached), that sequence is the only  *)
(* one: it is the wait queue of the refinement mapping, and a call of      *)
(* lock() appends to it what a call of unlock() will take off its head.    *)
(***************************************************************************)
EXTENDS MCScheduler, SchedulerProofs, FiniteSetTheorems

\* q lists the sleepers of l, each once, in the order of the pointers.
Lists(q, l) ==
  /\ q \in Seq(Thread)
  /\ q = <<>> => next[l] = NULL
  /\ Follows(q, Len(q), l)
  /\ \A k \in 1 .. Len(q) : q[k] \in Sleepers(l)
  /\ \A t \in Sleepers(l) : \E k \in 1 .. Len(q) : q[k] = t
  /\ \A j, k \in 1 .. Len(q) : q[j] = q[k] => j = k

\* Every wait queue is a list.
Listed == \A l \in Lock : \E q \in Seq(Thread) : Lists(q, l)

ListInv == WaitInv /\ Listed

\* A list has as many elements as there are sleepers.
LEMMA ListLength ==
  ASSUME NEW l \in Lock, NEW q \in Seq(Thread), Lists(q, l)
  PROVE  Cardinality(Sleepers(l)) = Len(q)
  <1> DEFINE n == Len(q)
             S == Sleepers(l)
  <1>1. n \in Nat /\ q \in [1 .. n -> S] /\ 1 \in Int /\ n \in Int
    BY DEF Lists
  <1>2. \A j, k \in 1 .. n : q[j] = q[k] => j = k
    BY DEF Lists
  <1>3. \A t \in S : \E k \in 1 .. n : q[k] = t
    BY DEF Lists
  <1>4. q \in Bijection(1 .. n, S)
    <2> HIDE DEF n, S
    <2> QED BY <1>1, <1>2, <1>3 DEF Bijection, Injection, Surjection, IsInjective
  <1>5. ExistsBijection(1 .. n, S)
    BY <1>4 DEF ExistsBijection
  <1>6. IsFiniteSet(1 .. n) /\ Cardinality(1 .. n) = n
    <2>1. /\ IsFiniteSet(1 .. n)
          /\ Cardinality(1 .. n) = IF 1 > n THEN 0 ELSE (n - 1) + 1
      <3> HIDE DEF n
      <3> QED BY <1>1, FS_Interval
    <2> QED BY <1>1, <2>1
  <1>7. Cardinality(S) = Cardinality(1 .. n)
    BY <1>5, <1>6, FS_Bijection
  <1> QED BY <1>6, <1>7

\* The list is the wait queue.
LEMMA ListIsQueue ==
  ASSUME WaitInv, NEW l \in Lock, NEW q \in Seq(Thread), Lists(q, l)
  PROVE  WaitQueue[l] = q
  <1> DEFINE n == Cardinality(Sleepers(l))
             r == CHOOSE r \in [1 .. n -> Sleepers(l)] : Follows(r, n, l)
  <1>1. n = Len(q) /\ n \in Nat
    BY ListLength
  <1>2. WaitQueue[l] = r
    BY DEF WaitQueue, InOrder
  <1> HIDE DEF n
  <1>3. q \in [1 .. n -> Sleepers(l)] /\ Follows(q, n, l)
    BY <1>1 DEF Lists
  <1>4. r \in [1 .. n -> Sleepers(l)] /\ Follows(r, n, l)
    BY <1>3
  <1> HIDE DEF r
  <1> DEFINE S == {q[k] : k \in {j \in 1 .. n : q[j] = r[j]}}
  <1>5. \A k \in 1 .. n : q[k] = r[k] => q[k] \in S
    OBVIOUS
  <1>6. \A t \in S : \E k \in 1 .. n : t = q[k] /\ t = r[k]
    OBVIOUS
  <1>7. S \in SUBSET Thread
    BY <1>3 DEF Sleepers
  <1> HIDE DEF S
  <1>8. Closed(S, l)
    <2>1. ASSUME next[l] # NULL PROVE next[l] \in S
      <3>1. n > 0
        BY <1>1, <2>1 DEF Lists
      <3>2. 1 \in 1 .. n /\ q[1] = next[l] /\ r[1] = next[l]
        BY <1>1, <1>3, <1>4, <3>1 DEF Follows
      <3> QED BY <1>5, <3>2
    <2>2. ASSUME NEW u \in S, lock_next[u] # NULL PROVE lock_next[u] \in S
      <3>1. PICK k \in 1 .. n : u = q[k] /\ u = r[k]
        BY <1>6
      <3>2. k # n
        <4>1. n > 0
          BY <1>1
        <4>2. lock_next[q[n]] = NULL
          BY <1>3, <4>1 DEF Follows
        <4> QED BY <2>2, <3>1, <4>2
      <3>3. k \in 1 .. n - 1 /\ k + 1 \in 1 .. n
        BY <1>1, <3>2
      <3>4. lock_next[u] = q[k + 1] /\ lock_next[u] = r[k + 1]
        BY <1>3, <1>4, <3>1, <3>3 DEF Follows
      <3> QED BY <1>5, <3>3, <3>4
    <2> QED BY <2>1, <2>2 DEF Closed
  <1>9. Sleepers(l) \subseteq S
    BY <1>7, <1>8 DEF WaitInv, Reached
  <1>10. ASSUME NEW j \in 1 .. n PROVE q[j] = r[j]
    <2>1. PICK k \in 1 .. n : q[j] = q[k] /\ q[j] = r[k]
      BY <1>3, <1>6, <1>9
    <2>2. j = k
      BY <1>1, <2>1 DEF Lists
    <2> QED BY <2>1, <2>2
  <1>11. q = r
    <2>1. q = [j \in 1 .. n |-> q[j]] /\ r = [j \in 1 .. n |-> r[j]]
      BY <1>3, <1>4
    <2> QED BY <1>10, <2>1
  <1> QED BY <1>2, <1>11

\* The wait queue of every lock is a list.
LEMMA QueueListed ==
  ASSUME ListInv, NEW l \in Lock
  PROVE  Lists(WaitQueue[l], l) /\ WaitQueue[l] \in Seq(Thread)
  <1>1. PICK q \in Seq(Thread) : Lists(q, l)
    BY DEF ListInv, Listed
  <1> QED BY <1>1, ListIsQueue DEF ListInv

\* The same in the state after a step.
LEMMA NextListIsQueue ==
  WaitInv' => (\A k \in Lock : \A r \in Seq(Thread) : Lists(r, k) => WaitQueue[k] = r)'
  <1>1. WaitInv => \A k \in Lock : \A r \in Seq(Thread) : Lists(r, k) => WaitQueue[k] = r
    BY ListIsQueue
  <1> QED BY <1>1, PTL

\* A step that does not touch a queue leaves its list alone.
LEMMA SameList ==
  ASSUME NEW l \in Lock, NEW q \in Seq(Thread), Lists(q, l), next'[l] = next[l],
         \A t \in Sleepers(l) : lock_next'[t] = lock_next[t], Sleepers(l)' = Sleepers(l)
  PROVE  Lists(q, l)'
  <1>1. Len(q) \in Nat /\ \A k \in 1 .. Len(q) : q[k] \in Sleepers(l)
    BY DEF Lists
  <1>2. Follows(q, Len(q), l)'
    BY <1>1 DEF Lists, Follows
  <1> QED BY <1>2 DEF Lists

\* lock() appends its caller to the list.
LEMMA ListGrows ==
  ASSUME ListInv, NEW t \in Thread, NEW l \in Lock, Sleeps(t, l),
         NEW q \in Seq(Thread), Lists(q, l)
  PROVE  /\ Lists(Append(q, t), l)'
         /\ \A k \in Lock : k # l => /\ next'[k] = next[k] /\ Sleepers(k)' = Sleepers(k)
                                     /\ \A u \in Sleepers(k) : lock_next'[u] = lock_next[u]
  <1> DEFINE n == Len(q)
             a == Append(q, t)
  <1>1. /\ LockInv /\ TypeOK /\ WaitInv /\ n \in Nat
        /\ next \in [Lock -> Thread \cup {NULL}] /\ lock_next \in [Thread -> Thread \cup {NULL}]
    BY DEF ListInv, WaitInv, LockInv, TypeOK
  <1>2. /\ Sleepers(l)' = Sleepers(l) \cup {t} /\ t \notin Sleepers(l)
        /\ \A k \in Lock : k # l => Sleepers(k)' = Sleepers(k)
    BY DEF Sleepers, Sleeps
  <1>3. lock_next[t] = NULL /\ t # NULL
    BY <1>1, NullAssumption DEF LockInv, QueuePointers, Sleeps
  <1>4. /\ \A k \in 1 .. n : q[k] \in Sleepers(l) /\ q[k] \in Thread /\ q[k] # t
        /\ \A u \in Sleepers(l) : \E k \in 1 .. n : q[k] = u
        /\ \A j, k \in 1 .. n : q[j] = q[k] => j = k
        /\ \A k \in 1 .. n - 1 : lock_next[q[k]] = q[k + 1]
        /\ n > 0 => q[1] = next[l] /\ lock_next[q[n]] = NULL
        /\ n = 0 => next[l] = NULL
    <2>1. n = 0 => q = <<>>
      OBVIOUS
    <2> QED BY <1>2, <2>1 DEF Lists, Follows, Sleepers
  <1>5. /\ a \in Seq(Thread) /\ Len(a) = n + 1 /\ a[n + 1] = t /\ a # <<>>
        /\ \A k \in 1 .. n : a[k] = q[k]
    OBVIOUS
  <1> HIDE DEF n, a
  <1>6. \A k \in 1 .. n + 1 : k \in 1 .. n \/ k = n + 1
    BY <1>1
  <1>7. ASSUME next'[l] = a[1], lock_next'[t] = NULL, n > 0 => lock_next'[q[n]] = t,
               \A k \in 1 .. n - 1 : lock_next'[q[k]] = lock_next[q[k]]
        PROVE  Lists(a, l)'
    <2>1. \A k \in 1 .. n : lock_next'[a[k]] = a[k + 1]
      <3>1. \A k \in 1 .. n : k \in 1 .. n - 1 \/ k = n
        BY <1>1
      <3>2. \A k \in 1 .. n - 1 : k + 1 \in 1 .. n
        BY <1>1
      <3>3. \A k \in 1 .. n - 1 : lock_next'[a[k]] = a[k + 1]
        <4> SUFFICES ASSUME NEW k \in 1 .. n - 1 PROVE lock_next'[a[k]] = a[k + 1]
          OBVIOUS
        <4>1. k \in 1 .. n /\ k + 1 \in 1 .. n
          BY <1>1
        <4>2. a[k] = q[k] /\ a[k + 1] = q[k + 1]
          BY <1>5, <4>1
        <4>3. lock_next'[q[k]] = lock_next[q[k]] /\ lock_next[q[k]] = q[k + 1]
          BY <1>4, <1>7
        <4> QED BY <4>2, <4>3
      <3>4. n > 0 => n \in 1 .. n
        BY <1>1
      <3>5. n > 0 => lock_next'[a[n]] = a[n + 1]
        BY <1>5, <1>7, <3>4
      <3>6. \A k \in 1 .. n : n > 0
        BY <1>1
      <3> QED BY <3>1, <3>3, <3>5, <3>6
    <2>2. (n + 1) - 1 = n /\ n + 1 > 0
      BY <1>1
    <2>3. Follows(a, Len(a), l)'
      BY <1>5, <1>7, <2>1, <2>2 DEF Follows
    <2>4. \A k \in 1 .. n + 1 : a[k] \in Sleepers(l)'
      BY <1>2, <1>4, <1>5, <1>6
    <2>5. \A u \in Sleepers(l)' : \E k \in 1 .. n + 1 : a[k] = u
      <3>1. n + 1 \in 1 .. n + 1 /\ 1 .. n \subseteq 1 .. n + 1
        BY <1>1
      <3> QED BY <1>2, <1>4, <1>5, <3>1
    <2>6. \A j, k \in 1 .. n + 1 : a[j] = a[k] => j = k
      BY <1>4, <1>5, <1>6
    <2> QED BY <1>5, <2>3, <2>4, <2>5, <2>6 DEF Lists
  <1>8. CASE next[l] = NULL
    <2>1. next' = [next EXCEPT ![l] = t] /\ lock_next' = lock_next
      BY <1>1, <1>3, <1>8 DEF Sleeps, EnqueueWaiter
    <2>2. n = 0
      <3>1. n > 0 => 1 \in 1 .. n
        BY <1>1
      <3>2. n > 0 => q[1] # NULL
        BY <1>4, <3>1, NullAssumption
      <3>3. ~(n > 0)
        BY <1>4, <1>8, <3>2
      <3> QED BY <1>1, <3>3
    <2>3. next'[l] = t /\ lock_next'[t] = NULL /\ a[1] = t
      BY <1>1, <1>3, <1>5, <2>1, <2>2
    <2>4. Lists(a, l)'
      BY <1>7, <2>2, <2>3
    <2>5. \A k \in Lock : k # l => next'[k] = next[k]
      BY <1>1, <2>1
    <2> QED BY <1>2, <2>1, <2>4, <2>5 DEF a
  <1>9. CASE next[l] # NULL
    <2>1. PICK tnode \in Waiters(l) :
            /\ lock_next[tnode] = NULL
            /\ lock_next' = [lock_next EXCEPT ![t] = NULL, ![tnode] = t]
      BY <1>9 DEF Sleeps, EnqueueWaiter
    <2>2. tnode \in Thread /\ tnode \in Sleepers(l) /\ tnode # t
      BY <1>1, <1>2, WaitersBlocked DEF Sleepers
    <2>3. next' = next
      BY <1>9 DEF Sleeps, EnqueueWaiter
    <2>4. lock_next' = [lock_next EXCEPT ![tnode] = t]
      BY <1>1, <1>3, <2>1, <2>2
    <2>5. n > 0 /\ tnode = q[n]
      <3>1. PICK k \in 1 .. n : q[k] = tnode
        BY <1>4, <2>2
      <3>2. k \in 1 .. n - 1 => k + 1 \in 1 .. n
        BY <1>1
      <3>3. k \in 1 .. n - 1 => lock_next[tnode] # NULL
        BY <1>4, <3>1, <3>2, NullAssumption
      <3>4. k \notin 1 .. n - 1
        BY <2>1, <3>3
      <3> QED BY <1>1, <3>1, <3>4
    <2>6. next'[l] = a[1]
      <3>1. 1 \in 1 .. n
        BY <1>1, <2>5
      <3> QED BY <1>4, <1>5, <2>3, <2>5, <3>1
    <2>7. lock_next'[t] = NULL /\ lock_next'[q[n]] = t
      BY <1>1, <1>3, <2>2, <2>4, <2>5
    <2>8. \A k \in 1 .. n - 1 : lock_next'[q[k]] = lock_next[q[k]]
      <3>1. \A k \in 1 .. n - 1 : k \in 1 .. n /\ n \in 1 .. n /\ k # n
        BY <1>1
      <3> QED BY <1>1, <1>4, <2>4, <2>5, <3>1
    <2>9. Lists(a, l)'
      BY <1>7, <2>6, <2>7, <2>8
    <2>10. \A k \in Lock : k # l => tnode \notin Sleepers(k)
      BY <2>2 DEF Sleepers
    <2>11. \A k \in Lock : k # l => \A u \in Sleepers(k) : lock_next'[u] = lock_next[u]
      BY <1>1, <2>4, <2>10 DEF Sleepers
    <2> QED BY <1>2, <2>3, <2>9, <2>11 DEF a
  <1> QED BY <1>8, <1>9

\* unlock() takes the first thread off the list.
LEMMA ListShrinks ==
  ASSUME ListInv, NEW t \in Thread, NEW l \in Lock, HandsOn(t, l), next[l] # NULL,
         NEW q \in Seq(Thread), Lists(q, l)
  PROVE  /\ q # <<>> /\ owner' = [owner EXCEPT ![l] = Head(q)]
         /\ Lists(Tail(q), l)'
         /\ \A k \in Lock : k # l => /\ next'[k] = next[k] /\ Sleepers(k)' = Sleepers(k)
                                     /\ \A u \in Sleepers(k) : lock_next'[u] = lock_next[u]
  <1> DEFINE n == Len(q)
             a == Tail(q)
  <1>1. /\ LockInv /\ TypeOK /\ n \in Nat /\ runState \in [Thread -> RunStates]
        /\ next \in [Lock -> Thread \cup {NULL}] /\ lock_next \in [Thread -> Thread \cup {NULL}]
    BY DEF ListInv, WaitInv, LockInv, TypeOK
  <1>0. PICK heir \in Thread : heir = next[l]
    BY <1>1
  <1>2. q # <<>> /\ n > 0
    BY DEF Lists
  <1>3. /\ \A k \in 1 .. n : q[k] \in Sleepers(l) /\ q[k] \in Thread
        /\ \A u \in Sleepers(l) : \E k \in 1 .. n : q[k] = u
        /\ \A j, k \in 1 .. n : q[j] = q[k] => j = k
        /\ \A k \in 1 .. n - 1 : lock_next[q[k]] = q[k + 1]
        /\ q[1] = heir /\ lock_next[q[n]] = NULL
    BY <1>0, <1>2 DEF Lists, Follows, Sleepers
  <1>4. /\ a \in Seq(Thread) /\ Len(a) = n - 1 /\ Head(q) = q[1]
        /\ \A k \in 1 .. n - 1 : a[k] = q[k + 1]
    BY <1>2
  <1>5. a = <<>> => n = 1
    <2> HIDE DEF a
    <2>1. a = <<>> => Len(a) = 0
      OBVIOUS
    <2> QED BY <1>1, <1>2, <1>4, <2>1
  <1>6. 1 \in 1 .. n /\ n \in 1 .. n
    BY <1>1, <1>2
  <1>7. heir \in Thread /\ Blocked(heir) /\ target[heir] = l
    BY <1>3, <1>6 DEF Sleepers
  <1> HIDE DEF n, a
  <1>8. /\ owner' = [owner EXCEPT ![l] = heir]
        /\ runState' = [runState EXCEPT ![heir] = "RUNNING"]
        /\ next' = [next EXCEPT ![l] = lock_next[heir]]
        /\ lock_next' = [lock_next EXCEPT ![heir] = NULL]
        /\ UNCHANGED <<pc, after, target>>
    BY <1>0 DEF HandsOn, ReleaseLock
  <1>9. ~ Blocked(heir)' /\ \A u \in Thread \ {heir} : Blocked(u)' <=> Blocked(u)
    <2>1. runState'[heir] = "RUNNING" /\ \A u \in Thread \ {heir} : runState'[u] = runState[u]
      BY <1>1, <1>7, <1>8
    <2> QED BY <1>8, <2>1 DEF Blocked
  <1>10. /\ Sleepers(l)' = Sleepers(l) \ {heir}
         /\ \A k \in Lock : k # l => Sleepers(k)' = Sleepers(k) /\ heir \notin Sleepers(k)
    BY <1>7, <1>8, <1>9 DEF Sleepers
  <1>11. next'[l] = lock_next[heir] /\ \A u \in Thread : u # heir => lock_next'[u] = lock_next[u]
    BY <1>1, <1>7, <1>8
  <1>12. \A k \in 1 .. n - 1 : k + 1 \in 1 .. n /\ k + 1 # 1
    BY <1>1
  <1>13. \A k \in 1 .. n - 1 : a[k] \in Sleepers(l) \ {heir} /\ a[k] \in Thread
    BY <1>3, <1>4, <1>6, <1>12
  <1>14. \A u \in Sleepers(l)' : \E k \in 1 .. n - 1 : a[k] = u
    <2> SUFFICES ASSUME NEW u \in Sleepers(l), u # heir PROVE \E k \in 1 .. n - 1 : a[k] = u
      BY <1>10
    <2>1. PICK k \in 1 .. n : q[k] = u
      BY <1>3
    <2>2. k # 1
      BY <1>3, <2>1
    <2>3. k - 1 \in 1 .. n - 1 /\ (k - 1) + 1 = k
      BY <1>1, <2>2
    <2>4. a[k - 1] = u
      BY <1>4, <2>1, <2>3
    <2> QED BY <2>3, <2>4
  <1>15. \A j, k \in 1 .. n - 1 : a[j] = a[k] => j = k
    <2> SUFFICES ASSUME NEW j \in 1 .. n - 1, NEW k \in 1 .. n - 1, a[j] = a[k] PROVE j = k
      OBVIOUS
    <2>1. q[j + 1] = q[k + 1]
      BY <1>4
    <2>2. j + 1 = k + 1
      BY <1>3, <1>12, <2>1
    <2> QED BY <1>1, <2>2
  <1>16. Follows(a, Len(a), l)'
    <2>1. ASSUME n - 1 > 0 PROVE a[1] = next'[l] /\ lock_next'[a[n - 1]] = NULL
      <3>1. 1 \in 1 .. n - 1 /\ n - 1 \in 1 .. n - 1 /\ (n - 1) + 1 = n
        BY <1>1, <2>1
      <3>2. a[1] = next'[l]
        BY <1>3, <1>4, <1>11, <3>1
      <3>3. a[n - 1] = q[n]
        BY <1>4, <3>1
      <3> QED BY <1>3, <1>11, <1>13, <3>1, <3>2, <3>3
    <2>2. ASSUME NEW k \in 1 .. (n - 1) - 1 PROVE lock_next'[a[k]] = a[k + 1]
      <3>1. k \in 1 .. n - 1 /\ k + 1 \in 1 .. n - 1
        BY <1>1
      <3>2. a[k] = q[k + 1] /\ a[k + 1] = q[(k + 1) + 1]
        BY <1>4, <3>1
      <3>3. lock_next[q[k + 1]] = q[(k + 1) + 1]
        BY <1>3, <3>1
      <3> QED BY <1>11, <1>13, <3>1, <3>2, <3>3
    <2> QED BY <1>4, <2>1, <2>2 DEF Follows
  <1>17. a = <<>> => next'[l] = NULL
    BY <1>3, <1>5, <1>11
  <1>18. Lists(a, l)'
    BY <1>4, <1>10, <1>13, <1>14, <1>15, <1>16, <1>17 DEF Lists
  <1>19. \A k \in Lock : k # l => next'[k] = next[k]
    BY <1>1, <1>8
  <1>20. \A k \in Lock : k # l => \A u \in Sleepers(k) : lock_next'[u] = lock_next[u]
    BY <1>10, <1>11 DEF Sleepers
  <1> QED BY <1>2, <1>3, <1>4, <1>8, <1>10, <1>18, <1>19, <1>20 DEF a

\* The wait queues after a step, with a list for each.
LEMMA NextQueues ==
  ASSUME WaitInv', NEW Q, \A l \in Lock : Q[l] \in Seq(Thread) /\ Lists(Q[l], l)'
  PROVE  Listed' /\ WaitQueue' = [l \in Lock |-> Q[l]]
  <1>1. Listed'
    BY DEF Listed
  <1>2. \A l \in Lock : WaitQueue'[l] = Q[l]
    BY NextListIsQueue
  <1>3. WaitQueue' = [l \in Lock |-> WaitQueue'[l]]
    BY DEF WaitQueue
  <1>4. [l \in Lock |-> WaitQueue'[l]] = [l \in Lock |-> Q[l]]
    BY <1>2
  <1> QED BY <1>1, <1>3, <1>4

\* The wait queues are a function on the locks.
LEMMA QueueDomain == WaitQueue = [l \in Lock |-> WaitQueue[l]]
  BY DEF WaitQueue

\* Who waits in the FIFO lock sleeps in lock().
LEMMA AwakeNotWaiting ==
  ASSUME ListInv, NEW t \in Thread, ~ Blocked(t)
  PROVE  t \notin Fifo!Waiting
  <1> SUFFICES ASSUME NEW l \in Lock, NEW i \in DOMAIN WaitQueue[l], t = WaitQueue[l][i]
               PROVE  FALSE
    BY DEF Fifo!Waiting
  <1>1. PICK q \in Seq(Thread) : q = WaitQueue[l] /\ Lists(q, l)
    BY QueueListed
  <1>2. i \in 1 .. Len(q) /\ q[i] = t
    BY <1>1
  <1>3. q[i] \in Sleepers(l)
    BY <1>1, <1>2 DEF Lists
  <1> QED BY <1>2, <1>3 DEF Sleepers

\* Every step of the scheduler is a step of the FIFO lock or none of it, and
\* keeps the lists.
LEMMA FifoStep ==
  ASSUME ListInv, [Next]_vars
  PROVE  ListInv' /\ [Fifo!Next]_(Fifo!vars)
  <1>1. WaitInv /\ WaitInv' /\ LockInv /\ TypeOK
    BY WaitStep DEF ListInv, WaitInv, LockInv
  <1>2. PICK Q : Q = WaitQueue
    OBVIOUS
  <1>3. \A l \in Lock : Q[l] \in Seq(Thread) /\ Lists(Q[l], l)
    BY <1>2, QueueListed
  <1>4. Q = [l \in Lock |-> Q[l]]
    BY <1>2, QueueDomain
  <1>4a. Q \in [Lock -> Seq(Thread)]
    BY <1>3, <1>4
  <1>5. ASSUME UNCHANGED <<next, lock_next>>, \A l \in Lock : Sleepers(l)' = Sleepers(l)
        PROVE  Listed' /\ WaitQueue' = WaitQueue
    <2>1. \A l \in Lock : Lists(Q[l], l)'
      BY <1>3, <1>5, SameList
    <2>2. Listed' /\ WaitQueue' = [l \in Lock |-> Q[l]]
      BY <1>1, <1>3, <2>1, NextQueues
    <2> QED BY <1>2, <1>4, <2>2
  <1>6. SameSleepers => \A l \in Lock : Sleepers(l)' = Sleepers(l)
    BY DEF SameSleepers, Sleepers
  <1>7. CASE NoLockStep
    <2>1. Listed' /\ WaitQueue' = WaitQueue /\ UNCHANGED owner
      BY <1>5, <1>6, <1>7 DEF NoLockStep
    <2>2. CASE UNCHANGED held
      BY <1>1, <2>1, <2>2 DEF ListInv, Fifo!vars
    <2>3. ASSUME NEW t \in Thread, NEW l \in Lock, owner[l] = t, GetsHold(t, l)
          PROVE  Fifo!Return(t, l) /\ UNCHANGED <<owner, WaitQueue>>
      BY <2>1, <2>3 DEF GetsHold, Fifo!Return
    <2> QED BY <1>1, <1>7, <2>1, <2>2, <2>3 DEF NoLockStep, ListInv, Fifo!Next
  <1>8. ASSUME NEW t \in Thread, NEW l \in Lock, Takes(t, l)
        PROVE  ListInv' /\ Fifo!Next
    <2>1. owner[l] \in {t, NULL} /\ owner' = [owner EXCEPT ![l] = t] /\ UNCHANGED <<next, lock_next>>
      BY <1>8 DEF Takes, AcquireLock, LockIsFree
    <2>2. Listed' /\ WaitQueue' = WaitQueue
      BY <1>5, <1>6, <1>8, <2>1 DEF Takes
    <2>3. t \notin Fifo!Waiting
      BY <1>8, AwakeNotWaiting DEF Takes
    <2>4. ASSUME owner[l] = NULL PROVE WaitQueue[l] = <<>>
      <3>1. Sleepers(l) = {}
        BY <1>1, <2>4 DEF WaitInv, QueuesOwned
      <3>2. PICK q \in Seq(Thread) : q = WaitQueue[l] /\ Lists(q, l)
        BY QueueListed
      <3>3. \A k \in 1 .. Len(q) : FALSE
        BY <3>1, <3>2 DEF Lists
      <3>4. Len(q) = 0
        BY <3>3
      <3> QED BY <3>2, <3>4
    <2>5. Fifo!Acquire(t, l)
      BY <2>1, <2>2, <2>3, <2>4 DEF Fifo!Acquire
    <2>6. ASSUME GetsHold(t, l) PROVE Fifo!Return(t, l)
      BY <1>1, <2>1, <2>6 DEF GetsHold, Fifo!Return, TypeOK
    <2> QED BY <1>1, <1>8, <2>2, <2>5, <2>6 DEF Takes, ListInv, Fifo!Next
  <1>9. ASSUME NEW t \in Thread, NEW l \in Lock, Sleeps(t, l)
        PROVE  ListInv' /\ Fifo!Next
    <2> DEFINE R == [Q EXCEPT ![l] = Append(Q[l], t)]
    <2>1. owner[l] \notin {t, NULL} /\ UNCHANGED <<owner, held>>
      BY <1>9 DEF Sleeps, EnqueueWaiter, LockIsFree
    <2>2. t \notin Fifo!Waiting
      BY <1>9, AwakeNotWaiting DEF Sleeps
    <2>3. /\ Lists(Append(Q[l], t), l)'
          /\ \A k \in Lock : k # l => /\ next'[k] = next[k] /\ Sleepers(k)' = Sleepers(k)
                                      /\ \A u \in Sleepers(k) : lock_next'[u] = lock_next[u]
      BY <1>3, <1>9, ListGrows
    <2>4. /\ R[l] = Append(Q[l], t) /\ R[l] \in Seq(Thread)
          /\ \A k \in Lock : k # l => R[k] = Q[k]
          /\ R = [k \in Lock |-> R[k]]
      <3>1. R \in [Lock -> Seq(Thread)] /\ R[l] = Append(Q[l], t)
        BY <1>4a
      <3>2. \A k \in Lock : k # l => R[k] = Q[k]
        BY <1>4a
      <3> HIDE DEF R
      <3> QED BY <3>1, <3>2
    <2> HIDE DEF R
    <2>5. \A k \in Lock : R[k] \in Seq(Thread) /\ Lists(R[k], k)'
      BY <1>3, <2>3, <2>4, SameList
    <2>6. Listed' /\ WaitQueue' = R
      BY <1>1, <2>4, <2>5, NextQueues
    <2>7. Fifo!Wait(t, l)
      BY <1>2, <2>1, <2>2, <2>6 DEF Fifo!Wait, R
    <2> QED BY <1>1, <2>6, <2>7 DEF ListInv, Fifo!Next
  <1>10. ASSUME NEW t \in Thread, NEW l \in Lock, HandsOn(t, l)
         PROVE  ListInv' /\ Fifo!Next
    <2>1. l \in held[t] /\ owner[l] = t /\ held' = [held EXCEPT ![t] = @ \ {l}]
      BY <1>1, <1>10 DEF HandsOn, LockInv, MutualExclusion
    <2>2. CASE next[l] = NULL
      <3>1. /\ UNCHANGED <<next, lock_next, runState, pc, after, target>>
            /\ owner' = [owner EXCEPT ![l] = NULL]
        BY <1>10, <2>2 DEF HandsOn, ReleaseLock
      <3>2. \A k \in Lock : Sleepers(k)' = Sleepers(k)
        BY <3>1 DEF Sleepers, Blocked
      <3>3. Listed' /\ WaitQueue' = WaitQueue
        BY <1>5, <3>1, <3>2
      <3>4. WaitQueue[l] = <<>>
        <4>1. Q[l] \in Seq(Thread) /\ Lists(Q[l], l)
          BY <1>3
        <4>2. ASSUME Q[l] # <<>> PROVE FALSE
          <5>1. Len(Q[l]) \in Nat /\ Len(Q[l]) > 0
            BY <4>1, <4>2
          <5>2. 1 \in 1 .. Len(Q[l]) /\ Q[l][1] \in Thread
            BY <4>1, <5>1
          <5>3. Q[l][1] = next[l]
            BY <4>1, <5>1 DEF Lists, Follows
          <5> QED BY <2>2, <5>2, <5>3, NullAssumption
        <4> QED BY <1>2, <4>2
      <3>5. Fifo!Release(t, l)
        BY <2>1, <3>1, <3>3, <3>4 DEF Fifo!Release
      <3> QED BY <1>1, <3>3, <3>5 DEF ListInv, Fifo!Next
    <2>3. CASE next[l] # NULL
      <3> DEFINE R == [Q EXCEPT ![l] = Tail(Q[l])]
      <3>1. /\ Q[l] # <<>> /\ owner' = [owner EXCEPT ![l] = Head(Q[l])]
            /\ Lists(Tail(Q[l]), l)'
            /\ \A k \in Lock : k # l => /\ next'[k] = next[k] /\ Sleepers(k)' = Sleepers(k)
                                        /\ \A u \in Sleepers(k) : lock_next'[u] = lock_next[u]
        BY <1>3, <1>10, <2>3, ListShrinks
      <3>2. /\ R[l] = Tail(Q[l]) /\ R[l] \in Seq(Thread)
            /\ \A k \in Lock : k # l => R[k] = Q[k]
            /\ R = [k \in Lock |-> R[k]]
        <4>1. R \in [Lock -> Seq(Thread)] /\ R[l] = Tail(Q[l])
          BY <1>4a, <3>1
        <4>2. \A k \in Lock : k # l => R[k] = Q[k]
          BY <1>4a
        <4> HIDE DEF R
        <4> QED BY <4>1, <4>2
      <3> HIDE DEF R
      <3>3. \A k \in Lock : R[k] \in Seq(Thread) /\ Lists(R[k], k)'
        BY <1>3, <3>1, <3>2, SameList
      <3>4. Listed' /\ WaitQueue' = R
        BY <1>1, <3>2, <3>3, NextQueues
      <3>5. Fifo!Release(t, l)
        BY <1>2, <2>1, <3>1, <3>4 DEF Fifo!Release, R
      <3> QED BY <1>1, <3>4, <3>5 DEF ListInv, Fifo!Next
    <2> QED BY <2>2, <2>3
  <1> QED BY <1>1, <1>7, <1>8, <1>9, <1>10, LockEffects DEF LockEffect

\* "threads wait in FIFO order": whatever the timer, the notifications and the
\* other threads do, lock() and unlock() behave as a lock with a queue, whose
\* first thread becomes the owner when the holder leaves.
THEOREM LocksAreFifo == Spec => ImplementsFifoLock
  <1>1. Init => ListInv /\ Fifo!Init
    <2> SUFFICES ASSUME Init PROVE ListInv /\ Fifo!Init
      OBVIOUS
    <2>1. \A l \in Lock : Sleepers(l) = {} /\ next[l] = NULL
      BY DEF Init, Sleepers, Blocked
    <2>2. WaitInv
      BY <2>1, LockInit DEF WaitInv, Reached, QueuesOwned
    <2>3. \A l \in Lock : <<>> \in Seq(Thread) /\ Lists(<<>>, l)
      <3>1. Len(<<>>) = 0
        OBVIOUS
      <3> QED BY <2>1, <3>1 DEF Lists, Follows
    <2>4. ListInv
      BY <2>2, <2>3 DEF ListInv, Listed
    <2>5. \A l \in Lock : WaitQueue[l] = <<>>
      BY <2>2, <2>3, ListIsQueue
    <2>6. WaitQueue = [l \in Lock |-> <<>>]
      BY <2>5, QueueDomain
    <2> QED BY <2>4, <2>6 DEF Init, Fifo!Init
  <1>2. ListInv /\ [Next]_vars => ListInv' /\ [Fifo!Next]_(Fifo!vars)
    BY FifoStep
  <1> QED BY <1>1, <1>2, PTL DEF Spec, ImplementsFifoLock, Fifo!Spec
=============================================================================
