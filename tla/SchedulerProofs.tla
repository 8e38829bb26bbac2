--------------------------- MODULE SchedulerProofs ---------------------------
(***************************************************************************)
(* The invariants of the scheduler, for every number of processes, threads,*)
(* locks and monitors and for every bound on the signals.                  *)
(*                                                                         *)
(* TypeInv is inductive by itself.  LockInv adds what a pending call knows *)
(* of the lock it waits for and the shape of the wait queues; SlotInv what *)
(* the fall-backs of get_next_thread() rest on.                            *)
(***************************************************************************)
EXTENDS Scheduler, TLAPS

\* The type invariant with the type of a pending call's argument.
TypeInv == TypeOK /\ TargetOK

\* A remainder is smaller than its modulus.
LEMMA ModRange ==
  ASSUME NEW n \in Int, NEW m \in Nat, m > 0
  PROVE  n % m \in 0 .. m - 1
  OBVIOUS

\* num_running_threads stays an unsigned int when it is counted up or down.
LEMMA IncDec ==
  ASSUME NEW n \in 0 .. UINT - 1
  PROVE  Inc(n) \in 0 .. UINT - 1 /\ Dec(n) \in 0 .. UINT - 1
  BY ConstantsAssumption, ModRange DEF Inc, Dec

\* The components of threads, locks and monitors; a monitor names its lock.
LEMMA Pairs ==
  /\ \A p \in Proc, i \in Slot : <<p, i>> \in Thread
  /\ \A p \in Proc, h \in Handle : <<p, h>> \in Lock
  /\ \A p \in Proc, h \in MonitorHandles : <<p, h>> \in Monitor
  /\ Monitor \subseteq Lock
  /\ \A l \in Lock : l[1] \in Proc
  /\ \A t \in Thread : t[1] \in Proc /\ t[2] \in Slot
  BY DEF Thread, Lock, Monitor, Handle

\* The kernel process, its idle and its event thread and the message monitors
\* exist for every choice of the constants.
LEMMA Kernel ==
  /\ 0 \in Proc /\ 0 \in Slot /\ 1 \in Slot
  /\ IdleThread \in Thread /\ EventThread \in Thread /\ IdleThread # EventThread
  /\ \A p \in Proc : MsgMonitor(p) \in Monitor
  BY ConstantsAssumption, Pairs
  DEF Proc, Slot, IdleThread, EventThread, MsgMonitor

\* _start leaves a state of the right type.
LEMMA TypeInit == Init => TypeInv
  <1> SUFFICES ASSUME Init PROVE TypeInv
    OBVIOUS
  <1>1. TypeOK
    BY ConstantsAssumption, Kernel
    DEF Init, TypeOK, RunStates, Labels, MonitorLabels, Proc
  <1>2. TargetOK
    BY DEF Init, TargetOK, Resumes, MonitorLabels
  <1> QED BY <1>1, <1>2 DEF TypeInv

\* Every operation, system call and interrupt preserves the type invariant.
LEMMA TypeStep == TypeInv /\ [Next]_vars => TypeInv'
  <1> SUFFICES ASSUME TypeInv, [Next]_vars PROVE TypeInv'
    OBVIOUS
  <1> USE Pairs, Kernel, NullAssumption DEF TypeInv, TypeOK, TargetOK, Resumes
  <1>1. CASE UNCHANGED vars
    BY <1>1 DEF vars, schedVars, threadVars, callVars
  <1>2. ASSUME NEW t \in Thread, LockReturns(t) PROVE TypeInv'
    BY <1>2, IncDec
    DEF LockReturns, PopFrame, Executes, Goto, Labels, MonitorLabels, RunStates,
        schedVars, threadVars, callVars
  <1>3. ASSUME NEW t \in Thread, YieldTest(t) PROVE TypeInv'
    BY <1>3, IncDec
    DEF YieldTest, Executes, Goto, Labels, MonitorLabels, RunStates,
        schedVars, threadVars, callVars
  <1>4. ASSUME NEW t \in Thread, MonCheck(t) PROVE TypeInv'
    <2>0. Returns(t) \in {"work", "run"}
      BY DEF Returns
    <2>1. CASE owner[target[t]] # t
      <3>1. /\ pc' = [pc EXCEPT ![t] = Returns(t)] /\ PopFrame(t)
            /\ UNCHANGED <<schedVars, num_running_threads, threadVars, owner,
                           next, signal, pending, held>>
        BY <1>4, <2>1 DEF MonCheck, Goto
      <3> QED
        BY <2>0, <3>1
        DEF PopFrame, Labels, MonitorLabels, RunStates, schedVars, threadVars
    <2>2. CASE owner[target[t]] = t
      <3>1. \E at \in Labels : pc' = [pc EXCEPT ![t] = at]
        BY <1>4, <2>2 DEF MonCheck, Goto, Labels, MonitorLabels
      <3>2. UNCHANGED <<schedVars, num_running_threads, threadVars, owner, next, signal,
                        pending, held, callVars>>
        BY <1>4, <2>2 DEF MonCheck
      <3>3. pc' \in [Thread -> Labels]
        BY <3>1
      <3>4. TypeOK'
        BY <3>2, <3>3 DEF schedVars, threadVars, callVars
      <3>5. TargetOK'
        BY <1>4, <2>2, <3>1, <3>2 DEF MonCheck, Goto, Executes, MonitorLabels, callVars
      <3> QED BY <3>4, <3>5
    <2> QED BY <2>1, <2>2
  <1>5. ASSUME NEW t \in Thread, MonSetWait(t) PROVE TypeInv'
    BY <1>5, IncDec
    DEF MonSetWait, Executes, Goto, Labels, MonitorLabels, RunStates,
        schedVars, threadVars, callVars
  <1>6. ASSUME NEW t \in Thread, MonSleep(t) PROVE TypeInv'
    BY <1>6, IncDec
    DEF MonSleep, Executes, Goto, Labels, MonitorLabels, RunStates,
        schedVars, threadVars, callVars
  <1>7. ASSUME NEW t \in Thread, MonDec(t) PROVE TypeInv'
    BY <1>7, IncDec
    DEF MonDec, Executes, Goto, Labels, MonitorLabels, RunStates,
        schedVars, threadVars, callVars
  <1>8. ASSUME NEW t \in Thread, MonSub(t) PROVE TypeInv'
    BY <1>8, IncDec
    DEF MonSub, PopFrame, Returns, Clamp, Executes, Goto, Labels, MonitorLabels, RunStates,
        schedVars, threadVars, callVars
  <1>9. ASSUME NEW t \in Thread, MonLoad(t) PROVE TypeInv'
    BY <1>9, IncDec
    DEF MonLoad, Executes, Goto, Labels, MonitorLabels, RunStates,
        schedVars, threadVars, callVars
  <1>10. ASSUME NEW t \in Thread, MonStore(t) PROVE TypeInv'
    BY <1>10, IncDec
    DEF MonStore, PopFrame, Returns, Clamp, Executes, Goto, Labels, MonitorLabels, RunStates,
        schedVars, threadVars, callVars
  <1>11. ASSUME NEW t \in Thread, NEW l \in Lock, EnqueueWaiter(t, l)
         PROVE  /\ next' \in [Lock -> Thread \cup {NULL}]
                /\ lock_next' \in [Thread -> Thread \cup {NULL}]
                /\ runState' \in [Thread -> RunStates]
                /\ num_running_threads' \in [Proc -> 0 .. UINT - 1]
                /\ owner' = owner
    <2>1. next' \in [Lock -> Thread \cup {NULL}]
      <3>1. next' = next \/ next' = [next EXCEPT ![l] = t]
        BY <1>11 DEF EnqueueWaiter
      <3> QED BY <3>1
    <2>2. lock_next' \in [Thread -> Thread \cup {NULL}]
      <3>1. CASE next[l] = NULL
        BY <1>11, <3>1 DEF EnqueueWaiter
      <3>2. CASE next[l] # NULL
        <4>1. PICK tnode \in Waiters(l) :
                lock_next' = [lock_next EXCEPT ![t] = NULL, ![tnode] = t]
          BY <1>11, <3>2 DEF EnqueueWaiter
        <4> QED BY <4>1
      <3> QED BY <3>1, <3>2
    <2>3. runState' \in [Thread -> RunStates]
      BY <1>11 DEF EnqueueWaiter, RunStates
    <2>4. num_running_threads' \in [Proc -> 0 .. UINT - 1]
      BY <1>11, IncDec DEF EnqueueWaiter
    <2> QED BY <1>11, <2>1, <2>2, <2>3, <2>4 DEF EnqueueWaiter
  <1>12. ASSUME NEW t \in Thread, NEW h \in LockHandles, SysLock(t, h)
         PROVE  TypeInv'
    <2> DEFINE l == <<proc_id, h>>
    <2>1. l \in Lock
      BY DEF Handle
    <2>2. CASE AcquireLock(t, l) /\ held' = [held EXCEPT ![t] = @ \cup {l}]
                 /\ UNCHANGED <<pc, after, target>>
      BY <1>12, <2>1, <2>2 DEF SysLock, AcquireLock, schedVars
    <2>3. CASE EnqueueWaiter(t, l) /\ Goto(t, "hlt")
                 /\ after' = [after EXCEPT ![t] = "locked"]
                 /\ target' = [target EXCEPT ![t] = l] /\ UNCHANGED held
      BY <1>11, <1>12, <2>1, <2>3
      DEF SysLock, Goto, schedVars, Labels, MonitorLabels
    <2> QED BY <1>12, <2>2, <2>3 DEF SysLock
  <1>13. ASSUME NEW t \in Thread, NEW l \in Lock, SysUnlock(t, l)
         PROVE  TypeInv'
    <2>1. CASE next[l] = NULL
      BY <1>13, <2>1 DEF SysUnlock, ReleaseLock, schedVars, callVars
    <2>2. CASE next[l] # NULL
      <3>1. /\ next[l] \in Thread
            /\ owner' = [owner EXCEPT ![l] = next[l]]
            /\ runState' = [runState EXCEPT ![next[l]] = "RUNNING"]
            /\ next' = [next EXCEPT ![l] = lock_next[next[l]]]
            /\ lock_next' = [lock_next EXCEPT ![next[l]] = NULL]
        BY <1>13, <2>2 DEF SysUnlock, ReleaseLock
      <3>2. /\ held' = [held EXCEPT ![t] = @ \ {l}]
            /\ UNCHANGED <<schedVars, num_running_threads, signal_wait, signal,
                           pending, pc, callVars>>
        BY <1>13 DEF SysUnlock
      <3>3. next' \in [Lock -> Thread \cup {NULL}]
        BY <3>1
      <3>4. runState' \in [Thread -> RunStates]
        BY <3>1 DEF RunStates
      <3>5. TypeOK'
        BY <3>1, <3>2, <3>3, <3>4 DEF schedVars, callVars
      <3> QED BY <3>2, <3>5 DEF callVars
    <2> QED BY <2>1, <2>2
  <1>14. ASSUME NEW t \in Thread, NEW m \in Monitor, NEW d \in Int,
                pc[t] \notin {"hlt", "test"}, Monitor_(t, m, d)
         PROVE  TypeInv'
    <2>1. CASE AcquireLock(t, m) /\ Goto(t, "mon_check") /\ UNCHANGED after
      BY <1>14, <2>1
      DEF Monitor_, AcquireLock, Goto, schedVars, Labels, MonitorLabels
    <2>2. CASE EnqueueWaiter(t, m) /\ Goto(t, "hlt")
                 /\ after' = [after EXCEPT ![t] = "mon_check"]
      BY <1>11, <1>14, <2>2
      DEF Monitor_, Goto, schedVars, Labels, MonitorLabels
    <2> QED BY <1>14, <2>1, <2>2 DEF Monitor_
  <1>15. ASSUME NEW t \in Thread, NEW h \in MonitorHandles, NEW d \in Diffs,
                SysMonitor(t, h, d)
         PROVE  TypeInv'
    <2>1. <<proc_id, h>> \in Monitor /\ d \in Int
      BY ConstantsAssumption
    <2>2. pc[t] \notin {"hlt", "test"} /\ Monitor_(t, <<proc_id, h>>, d)
      BY <1>15 DEF SysMonitor, Executes
    <2> QED BY <1>14, <2>1, <2>2
  <1>16. ASSUME NEW t \in Thread, NEW h \in MonitorHandles, NEW d \in Diffs,
                SysNotify(t, h, d)
         PROVE  TypeInv'
    <2> DEFINE m == <<proc_id, h>>
               s == signal[m] + d
    <2>1. m \in Monitor /\ m \in Lock /\ m[1] \in Proc /\ s \in Int
      BY ConstantsAssumption
    <2>2. CASE Wakes(m, s)
      <3>1. /\ owner[m] \in Thread
            /\ signal' = [signal EXCEPT ![m] = s]
            /\ signal_wait' = [signal_wait EXCEPT ![owner[m]] = NULL]
            /\ runState' = [runState EXCEPT ![owner[m]] = "RUNNING"]
            /\ num_running_threads' = [num_running_threads EXCEPT ![m[1]] = Inc(@)]
            /\ UNCHANGED <<schedVars, lock_next, owner, next, pending, pc,
                           callVars, held>>
        BY <1>16, <2>1, <2>2 DEF SysNotify, Wakes
      <3>2. num_running_threads' \in [Proc -> 0 .. UINT - 1]
        BY <2>1, <3>1, IncDec
      <3>3. runState' \in [Thread -> RunStates]
        BY <3>1 DEF RunStates
      <3>4. TypeOK'
        BY <2>1, <3>1, <3>2, <3>3 DEF schedVars, callVars
      <3> QED BY <3>1, <3>4 DEF callVars
    <2>3. CASE ~ Wakes(m, s)
      BY <1>16, <2>1, <2>3 DEF SysNotify, schedVars, callVars
    <2> QED BY <2>2, <2>3
  <1>17. ASSUME NEW p \in Proc, NEW i \in Slot, StartThread(p, i)
         PROVE  /\ runState' \in [Thread -> RunStates]
                /\ signal_wait' \in [Thread -> Monitor \cup {NULL}]
                /\ lock_next' \in [Thread -> Thread \cup {NULL}]
                /\ num_running_threads' \in [Proc -> 0 .. UINT - 1]
    BY <1>17, IncDec DEF StartThread, RunStates
  <1>18. ASSUME NEW t \in Thread, SysNewThread(t) PROVE TypeInv'
    BY <1>17, <1>18 DEF SysNewThread, schedVars, callVars
  <1>19. ASSUME NEW taken, Post(taken)
         PROVE  pending' \in 0 .. MaxPending /\ signal' \in [Monitor -> Int]
    BY <1>19, ConstantsAssumption DEF Post
  <1>20. ASSUME NEW t \in Thread, SysRedrawGui(t) PROVE TypeInv'
    BY <1>19, <1>20 DEF SysRedrawGui, schedVars, threadVars, callVars
  <1>21. ASSUME NEW t \in Thread, SysYield(t) PROVE TypeInv'
    BY <1>21
    DEF SysYield, Executes, Goto, Labels, MonitorLabels, schedVars, threadVars
  <1>22. CASE EvMonitor
    <2>1. pc[EventThread] \notin {"hlt", "test"}
      BY <1>22 DEF EvMonitor, Executes
    <2>2. Monitor_(EventThread, MsgMonitor(0), 0)
      BY <1>22 DEF EvMonitor
    <2> QED BY <1>14, <2>1, <2>2
  <1>23. CASE EvDequeue
    BY <1>23, ConstantsAssumption
    DEF EvDequeue, Executes, Goto, Labels, MonitorLabels, schedVars, threadVars
  <1>24. CASE Spawn
    <2>0. num_procs < MAX_PROCS /\ num_procs' = num_procs + 1 /\ proc_id' = num_procs
      BY <1>24 DEF Spawn
    <2>1. num_procs \in Proc /\ num_procs' \in 1 .. MAX_PROCS
            /\ proc_id' = num_procs /\ proc_id' < num_procs'
      BY <2>0, ConstantsAssumption DEF Proc
    <2>2. StartThread(num_procs, 0)
      BY <1>24 DEF Spawn
    <2>3. TypeOK'
      BY <1>17, <1>24, <2>1, <2>2 DEF Spawn, callVars
    <2> QED BY <1>24, <2>3 DEF Spawn, callVars
  <1>25. CASE PostDisplayMsg
    BY <1>19, <1>25 DEF PostDisplayMsg, schedVars, threadVars, callVars
  <1>26. ASSUME NEW p \in Proc, SendMsg(p) PROVE TypeInv'
    BY <1>26 DEF SendMsg, schedVars, threadVars, callVars
  <1>27. CASE EvSubtract
    BY <1>27
    DEF EvSubtract, PopFrame, Executes, Goto, Labels, MonitorLabels, schedVars,
        threadVars
  <1>28. CASE InputInterrupt
    BY <1>19, <1>28
    DEF InputInterrupt, EndHlt, Labels, MonitorLabels, schedVars, threadVars,
        callVars
  <1>29. CASE TimerInterrupt
    <2>1. PICK p \in Proc, i \in Slot :
            /\ NextProc(p) /\ NextThread(p, i, RunStateAtTick)
            /\ runState' = RunStateAtTick
            /\ signal_wait' = [t \in Thread |-> IF WokenByTick(t) THEN NULL
                                                ELSE signal_wait[t]]
            /\ num_running_threads' =
                 [q \in Proc |->
                    IF q = p /\ \A j \in Slot : RunStateAtTick[<<p, j>>] # "RUNNING"
                    THEN 0
                    ELSE IF q \in NotifiedProcs THEN Notified(q)
                    ELSE num_running_threads[q]]
            /\ proc_id' = p
            /\ thread_index' = [thread_index EXCEPT ![p] = i]
            /\ thisThread' = <<p, i>>
            /\ pc' = EndHlt
            /\ UNCHANGED <<num_procs, lock_next, owner, next, signal, pending,
                           callVars, held>>
      BY <1>29 DEF TimerInterrupt
    <2>2. p < num_procs
      BY <2>1, ModRange DEF NextProc, Candidate, Proc
    <2>3. num_running_threads' \in [Proc -> 0 .. UINT - 1]
      BY <2>1, IncDec, ConstantsAssumption DEF Notified
    <2>4. runState' \in [Thread -> RunStates]
      BY <2>1 DEF RunStateAtTick, RunStates
    <2>5. TypeOK'
      BY <2>1, <2>2, <2>3, <2>4
      DEF EndHlt, Labels, MonitorLabels, callVars
    <2>6. TargetOK'
      BY <2>1 DEF EndHlt, Labels, MonitorLabels, callVars
    <2> QED BY <2>5, <2>6
  <1> QED
    BY <1>1, <1>2, <1>3, <1>4, <1>5, <1>6, <1>7, <1>8, <1>9, <1>10, <1>12,
       <1>13, <1>15, <1>16, <1>18, <1>20, <1>21, <1>22, <1>23, <1>24, <1>25,
       <1>26, <1>27, <1>28, <1>29
    DEF Next, KernelStep, UserStep, EventLoop

\* Type correctness, for every number of processes, threads and handles: every
\* field of the process table keeps to its type, the current process is one
\* that has been created, and a pending call refers to an existing lock.
THEOREM TypeCorrect == Spec => []TypeOK
  <1>1. Spec => []TypeInv
    BY TypeInit, TypeStep, PTL DEF Spec
  <1>2. TypeInv => TypeOK
    BY DEF TypeInv
  <1> QED BY <1>1, <1>2, PTL

-----------------------------------------------------------------------------

\* All locks are free when the kernel starts.
LEMMA LockInit == Init => LockInv
  <1> SUFFICES ASSUME Init PROVE LockInv
    OBVIOUS
  <1>1. TypeOK /\ TargetOK
    BY TypeInit DEF TypeInv
  <1>2. SignalWaitOK /\ QueuePointers /\ MutualExclusion
    BY DEF Init, SignalWaitOK, QueuePointers, MutualExclusion
  <1>3. WokenOwnsLock
    BY DEF Init, WokenOwnsLock, Resumes, MonitorLabels
  <1> QED BY <1>1, <1>2, <1>3 DEF LockInv

\* Steps that leave the locks and their queues alone, and neither put a thread
\* to sleep in lock() nor wake it there.
LEMMA Frame ==
  ASSUME LockInv, UNCHANGED <<owner, next, lock_next, target, held>>,
         \A t \in Thread : (Blocked(t)' <=> Blocked(t)) /\ Resumes(t)' = Resumes(t)
  PROVE  QueuePointers' /\ WokenOwnsLock' /\ MutualExclusion'
  <1> USE DEF LockInv, TypeOK
  <1>1. QueuePointers'
    BY DEF QueuePointers
  <1>2. WokenOwnsLock'
    BY DEF WokenOwnsLock
  <1>3. MutualExclusion'
    BY DEF MutualExclusion
  <1> QED BY <1>1, <1>2, <1>3

\* notify() wakes threads that wait for a signal: none of them is in lock().
LEMMA WakeStep ==
  ASSUME LockInv, TypeOK', UNCHANGED <<owner, next, lock_next, target, after, held>>,
         NEW W \in SUBSET Thread, \A u \in W : signal_wait[u] # NULL,
         runState' = [t \in Thread |-> IF t \in W THEN "RUNNING" ELSE runState[t]],
         signal_wait' = [t \in Thread |-> IF t \in W THEN NULL ELSE signal_wait[t]],
         \A t \in Thread : pc'[t] = pc[t] \/ (pc[t] = "hlt" /\ pc'[t] = "test")
  PROVE  SignalWaitOK' /\ QueuePointers' /\ WokenOwnsLock' /\ MutualExclusion'
  <1>1. \A t \in Thread : Resumes(t)' = Resumes(t)
    BY DEF Resumes
  <1>2. \A t \in Thread : Blocked(t)' <=> Blocked(t)
    BY DEF Blocked, Resumes, LockInv, SignalWaitOK, TypeOK
  <1>3. SignalWaitOK'
    BY <1>1 DEF SignalWaitOK, LockInv, TypeOK, Resumes
  <1> QED BY <1>1, <1>2, <1>3, Frame

\* new_user_thread() takes a slot that no queue contains.
LEMMA StartStep ==
  ASSUME LockInv, TypeOK', NEW p \in Proc, NEW i \in Slot, StartThread(p, i),
         UNCHANGED <<owner, next, pc, callVars, held>>
  PROVE  SignalWaitOK' /\ QueuePointers' /\ WokenOwnsLock' /\ MutualExclusion'
  <1>0. <<p, i>> \in Thread
    BY Pairs
  <1>1. lock_next[<<p, i>>] = NULL
    BY <1>0 DEF StartThread, LockInv, QueuePointers, Blocked
  <1>2. lock_next' = lock_next
    BY <1>0, <1>1 DEF StartThread, LockInv, TypeOK
  <1>3. \A t \in Thread : Resumes(t)' = Resumes(t)
    BY DEF Resumes, callVars
  <1>4. \A t \in Thread : Blocked(t)' <=> Blocked(t)
    BY <1>0 DEF Blocked, StartThread, callVars, LockInv, TypeOK
  <1>5. SignalWaitOK'
    BY <1>0, <1>3 DEF SignalWaitOK, StartThread, callVars, LockInv, TypeOK
  <1> QED BY <1>2, <1>3, <1>4, <1>5, Frame DEF callVars

\* The last thread of the walk in lock() sleeps on the same lock.
LEMMA WaitersBlocked ==
  ASSUME LockInv, NEW l \in Lock, NEW u \in Waiters(l)
  PROVE  u \in Thread /\ Blocked(u) /\ target[u] = l
  <1> DEFINE S == {t \in Thread : Blocked(t) /\ target[t] = l}
  <1>1. S \in SUBSET Thread
    OBVIOUS
  <1>2. next[l] # NULL => next[l] \in S
    BY DEF LockInv, TypeOK, QueuePointers
  <1>3. \A t \in S : lock_next[t] # NULL => lock_next[t] \in S
    BY DEF LockInv, TypeOK, QueuePointers
  <1>4. u \in S
    BY <1>1, <1>2, <1>3 DEF Waiters
  <1> QED BY <1>4

\* lock() on a lock that is free or already the caller's own.
LEMMA AcquireStep ==
  ASSUME LockInv, TypeOK', NEW t \in Thread, NEW l \in Lock,
         pc[t] = "run", AcquireLock(t, l), UNCHANGED signal_wait,
         \/ held' = [held EXCEPT ![t] = @ \cup {l}] /\ UNCHANGED <<pc, after, target>>
         \/ /\ pc' = [pc EXCEPT ![t] = "mon_check"]
            /\ target' = [target EXCEPT ![t] = l] /\ UNCHANGED <<after, held>>
  PROVE  SignalWaitOK' /\ QueuePointers' /\ WokenOwnsLock' /\ MutualExclusion'
  <1> USE DEF LockInv, TypeOK, AcquireLock, LockIsFree
  <1>1. \A u \in Thread : Blocked(u)' <=> Blocked(u)
    BY DEF Blocked
  <1>2. \A u \in Thread \ {t} : /\ Resumes(u)' = Resumes(u)
                                /\ target'[u] = target[u]
                                /\ held'[u] = held[u] /\ pc'[u] = pc[u]
    BY DEF Resumes
  <1>3. Resumes(t) = "run" /\ ~ Blocked(t)
    BY DEF Resumes, Blocked
  <1>4. \A k \in Lock : k # l => owner'[k] = owner[k]
    OBVIOUS
  <1>5. owner'[l] = t
    OBVIOUS
  <1>6. SignalWaitOK'
    BY <1>2, <1>3 DEF SignalWaitOK
  <1>7. QueuePointers'
    BY <1>1, <1>2, <1>3 DEF QueuePointers
  <1>8. WokenOwnsLock'
    <2> SUFFICES ASSUME NEW u \in Thread, ~ Blocked(u)',
                        Resumes(u)' \in MonitorLabels \cup {"locked"}
                 PROVE  owner'[target'[u]] = u
      BY DEF WokenOwnsLock
    <2>1. CASE u = t
      BY <1>3, <1>5, <2>1 DEF Resumes, MonitorLabels
    <2>2. CASE u # t
      BY <1>1, <1>2, <1>4, <2>2, NullAssumption, Pairs DEF WokenOwnsLock, TargetOK
    <2> QED BY <2>1, <2>2
  <1>9. MutualExclusion'
    BY <1>2, <1>4, <1>5, NullAssumption DEF MutualExclusion
  <1> QED BY <1>6, <1>7, <1>8, <1>9

\* lock() on a lock of another thread: the caller becomes the last of a queue it
\* was not in.
LEMMA EnqueueStep ==
  ASSUME LockInv, TypeOK', NEW t \in Thread, NEW l \in Lock, NEW a \in {"locked", "mon_check"},
         pc[t] = "run", EnqueueWaiter(t, l),
         UNCHANGED <<signal_wait, held>>, pc' = [pc EXCEPT ![t] = "hlt"],
         after' = [after EXCEPT ![t] = a], target' = [target EXCEPT ![t] = l]
  PROVE  SignalWaitOK' /\ QueuePointers' /\ WokenOwnsLock' /\ MutualExclusion'
  <1> USE DEF LockInv, TypeOK
  <1>1. Blocked(t)' /\ target'[t] = l /\ Resumes(t)' = a
    BY DEF Blocked, Resumes, EnqueueWaiter
  <1>2. \A u \in Thread \ {t} : /\ Blocked(u)' <=> Blocked(u)
                                /\ Resumes(u)' = Resumes(u)
                                /\ target'[u] = target[u] /\ pc'[u] = pc[u]
                                /\ runState'[u] = runState[u]
    BY DEF Blocked, Resumes, EnqueueWaiter
  <1>3. Resumes(t) = "run" /\ ~ Blocked(t)
    BY DEF Resumes, Blocked
  <1>4. owner' = owner
    BY DEF EnqueueWaiter
  <1>5. SignalWaitOK'
    BY <1>2, <1>3 DEF SignalWaitOK
  <1>6. WokenOwnsLock'
    BY <1>1, <1>2, <1>4 DEF WokenOwnsLock
  <1>7. MutualExclusion'
    BY <1>4 DEF MutualExclusion
  <1>8. lock_next[t] = NULL /\ (\A k \in Lock : next[k] # t)
          /\ (\A u \in Thread : lock_next[u] # t)
    BY <1>3, NullAssumption DEF QueuePointers
  <1>9. CASE next[l] = NULL
    <2>1. next' = [next EXCEPT ![l] = t] /\ lock_next' = lock_next
      BY <1>8, <1>9 DEF EnqueueWaiter
    <2> QED
      BY <1>1, <1>2, <1>3, <1>5, <1>6, <1>7, <1>8, <2>1, NullAssumption DEF QueuePointers
  <1>10. CASE next[l] # NULL
    <2>1. PICK tnode \in Waiters(l) :
            /\ lock_next[tnode] = NULL
            /\ lock_next' = [lock_next EXCEPT ![t] = NULL, ![tnode] = t]
      BY <1>10 DEF EnqueueWaiter
    <2>2. tnode \in Thread /\ Blocked(tnode) /\ target[tnode] = l /\ tnode # t
      BY <1>3, WaitersBlocked
    <2>3. next' = next
      BY <1>10 DEF EnqueueWaiter
    <2>4. lock_next' = [lock_next EXCEPT ![tnode] = t]
      BY <1>8, <2>1, <2>2
    <2> QED
      BY <1>1, <1>2, <1>3, <1>5, <1>6, <1>7, <1>8, <2>2, <2>3, <2>4, NullAssumption
      DEF QueuePointers
  <1> QED BY <1>9, <1>10

\* unlock(): the first of the queue leaves it as the new owner, and nobody points
\* to it any more.
LEMMA ReleaseStep ==
  ASSUME LockInv, TypeOK', NEW t \in Thread, NEW l \in held[t],
         pc[t] = "run", ReleaseLock(l), held' = [held EXCEPT ![t] = @ \ {l}],
         UNCHANGED <<signal_wait, pc, after, target>>
  PROVE  SignalWaitOK' /\ QueuePointers' /\ WokenOwnsLock' /\ MutualExclusion'
  <1> USE DEF LockInv, TypeOK
  <1>0. l \in Lock /\ owner[l] = t
    BY DEF MutualExclusion
  <1>1. \A u \in Thread : Resumes(u)' = Resumes(u)
    BY DEF Resumes
  <1>2. Resumes(t) = "run" /\ ~ Blocked(t)
    BY DEF Resumes, Blocked
  <1>3. MutualExclusion'
    BY <1>0 DEF MutualExclusion, ReleaseLock
  <1>4. \A k \in Lock : k # l => owner'[k] = owner[k]
    BY DEF ReleaseLock
  <1>5. CASE next[l] = NULL
    <2>1. UNCHANGED <<next, lock_next, runState>>
      BY <1>5 DEF ReleaseLock
    <2>2. \A u \in Thread : Blocked(u)' <=> Blocked(u)
      BY <2>1 DEF Blocked
    <2>3. WokenOwnsLock'
      BY <1>0, <1>1, <1>2, <1>4, <2>2, Pairs DEF WokenOwnsLock, TargetOK, MonitorLabels
    <2>4. SignalWaitOK' /\ QueuePointers'
      BY <1>1, <2>1, <2>2 DEF SignalWaitOK, QueuePointers
    <2> QED BY <1>3, <2>3, <2>4
  <1>6. CASE next[l] # NULL
    <2>0. PICK heir \in Thread : heir = next[l]
      BY <1>0, <1>6
    <2>1. Blocked(heir) /\ target[heir] = l
      BY <1>0, <1>6, <2>0 DEF QueuePointers
    <2>2. /\ owner' = [owner EXCEPT ![l] = heir]
          /\ runState' = [runState EXCEPT ![heir] = "RUNNING"]
          /\ next' = [next EXCEPT ![l] = lock_next[heir]]
          /\ lock_next' = [lock_next EXCEPT ![heir] = NULL]
      BY <1>6, <2>0 DEF ReleaseLock
    <2>3. ~ Blocked(heir)' /\ \A u \in Thread \ {heir} : Blocked(u)' <=> Blocked(u)
      BY <2>1, <2>2 DEF Blocked
    <2>4. SignalWaitOK'
      BY <1>1, <2>1, <2>2 DEF SignalWaitOK, Blocked, Resumes
    <2>5. WokenOwnsLock'
      BY <1>0, <1>1, <1>2, <1>4, <2>1, <2>2, <2>3, Pairs
      DEF WokenOwnsLock, TargetOK, MonitorLabels
    <2>6. lock_next[heir] # heir /\ (\A u \in Thread : lock_next[u] # heir)
            /\ (\A k \in Lock : k # l => next[k] # heir)
      BY <1>0, <2>0, <2>1, <1>6 DEF QueuePointers
    <2>7. QueuePointers'
      <3>1. ASSUME NEW k \in Lock, NEW v \in Thread, v = next'[k]
            PROVE  Blocked(v)' /\ target'[v] = k
        BY <1>0, <2>0, <2>1, <2>2, <2>3, <2>6, <3>1, NullAssumption DEF QueuePointers
      <3>2. ASSUME NEW u \in Thread, NEW v \in Thread, v = lock_next'[u]
            PROVE  Blocked(u)' /\ Blocked(v)' /\ target'[v] = target'[u]
        BY <2>1, <2>2, <2>3, <2>6, <3>2, NullAssumption DEF QueuePointers
      <3>3. ASSUME NEW k \in Lock, NEW u \in Thread, next'[k] # NULL
            PROVE  lock_next'[u] # next'[k]
        BY <1>0, <2>0, <2>1, <2>2, <2>6, <3>3, NullAssumption DEF QueuePointers
      <3>4. ASSUME NEW u \in Thread, NEW v \in Thread,
                   lock_next'[u] # NULL, lock_next'[u] = lock_next'[v]
            PROVE  u = v
        BY <2>1, <2>2, <3>4 DEF QueuePointers
      <3> QED BY <3>1, <3>2, <3>3, <3>4 DEF QueuePointers, Blocked
    <2> QED BY <1>3, <2>4, <2>5, <2>7
  <1> QED BY <1>5, <1>6

\* An interrupt moves nobody but a thread in hlt.
LEMMA HltEnds ==
  ASSUME TypeOK, pc' = EndHlt, NEW t \in Thread
  PROVE  pc'[t] = pc[t] \/ (pc[t] = "hlt" /\ pc'[t] = "test")
  <1>1. CASE t = thisThread
    BY <1>1 DEF EndHlt, TypeOK
  <1>2. CASE t # thisThread
    BY <1>2 DEF EndHlt, TypeOK
  <1> QED BY <1>1, <1>2

\* The processes that get_next_proc() notifies exist.
LEMMA NotifiedInProc == ASSUME TypeOK PROVE NotifiedProcs \subseteq Proc
  <1>1. \A i \in 1 .. num_procs - 1 : Candidate(i) \in Proc
    <2> SUFFICES ASSUME NEW i \in 1 .. num_procs - 1 PROVE Candidate(i) \in Proc
      OBVIOUS
    <2>1. num_procs \in 1 .. MAX_PROCS /\ proc_id \in Int
      BY DEF TypeOK, Proc
    <2>2. Candidate(i) \in 0 .. num_procs - 1
      BY <2>1, ModRange DEF Candidate
    <2> QED BY <2>1, <2>2, ConstantsAssumption DEF Proc
  <1> QED BY <1>1, Kernel DEF NotifiedProcs

\* Every operation, system call and interrupt preserves the lock invariant.
LEMMA LockStep == LockInv /\ [Next]_vars => LockInv'
  <1> DEFINE Goal == /\ SignalWaitOK' /\ QueuePointers'
                     /\ WokenOwnsLock' /\ MutualExclusion'
  <1> SUFFICES ASSUME LockInv, [Next]_vars PROVE Goal
    BY TypeStep DEF LockInv, TypeInv
  <1>0. TypeOK' /\ TargetOK'
    BY TypeStep DEF LockInv, TypeInv
  <1>1. CASE UNCHANGED vars
    <2>1. \A t \in Thread : (Blocked(t)' <=> Blocked(t)) /\ Resumes(t)' = Resumes(t)
      BY <1>1 DEF Blocked, Resumes, vars, threadVars, callVars
    <2> QED
      BY <1>1, <2>1, Frame
      DEF vars, threadVars, callVars, LockInv, SignalWaitOK, Resumes
  <1>2. ASSUME NEW t \in Thread, LockReturns(t) PROVE Goal
    BY <1>2, Pairs, Kernel, NullAssumption
    DEF LockReturns, PopFrame, Executes, Goto, MonitorLabels, schedVars, threadVars, callVars,
        LockInv, TypeOK, TargetOK, Resumes, SignalWaitOK, QueuePointers,
        WokenOwnsLock, MutualExclusion, Blocked
  <1>3. ASSUME NEW t \in Thread, YieldTest(t) PROVE Goal
    BY <1>3, Pairs, Kernel, NullAssumption
    DEF YieldTest, Executes, Goto, MonitorLabels, schedVars, threadVars, callVars,
        LockInv, TypeOK, TargetOK, Resumes, SignalWaitOK, QueuePointers,
        WokenOwnsLock, MutualExclusion, Blocked
  <1>4. ASSUME NEW t \in Thread, MonSetWait(t) PROVE Goal
    BY <1>4, Pairs, Kernel, NullAssumption
    DEF MonSetWait, Executes, Goto, MonitorLabels, schedVars, threadVars, callVars,
        LockInv, TypeOK, TargetOK, Resumes, SignalWaitOK, QueuePointers,
        WokenOwnsLock, MutualExclusion, Blocked
  <1>5. ASSUME NEW t \in Thread, MonSleep(t) PROVE Goal
    BY <1>5, Pairs, Kernel, NullAssumption
    DEF MonSleep, Executes, Goto, MonitorLabels, schedVars, threadVars, callVars,
        LockInv, TypeOK, TargetOK, Resumes, SignalWaitOK, QueuePointers,
        WokenOwnsLock, MutualExclusion, Blocked
  <1>6. ASSUME NEW t \in Thread, MonDec(t) PROVE Goal
    BY <1>6, Pairs, Kernel, NullAssumption
    DEF MonDec, Executes, Goto, MonitorLabels, schedVars, threadVars, callVars,
        LockInv, TypeOK, TargetOK, Resumes, SignalWaitOK, QueuePointers,
        WokenOwnsLock, MutualExclusion, Blocked
  <1>7. ASSUME NEW t \in Thread, MonSub(t) PROVE Goal
    BY <1>7, Pairs, Kernel, NullAssumption
    DEF MonSub, PopFrame, Returns, Executes, Goto, MonitorLabels, schedVars, threadVars, callVars,
        LockInv, TypeOK, TargetOK, Resumes, SignalWaitOK, QueuePointers,
        WokenOwnsLock, MutualExclusion, Blocked
  <1>8. ASSUME NEW t \in Thread, MonLoad(t) PROVE Goal
    BY <1>8, Pairs, Kernel, NullAssumption
    DEF MonLoad, Executes, Goto, MonitorLabels, schedVars, threadVars, callVars,
        LockInv, TypeOK, TargetOK, Resumes, SignalWaitOK, QueuePointers,
        WokenOwnsLock, MutualExclusion, Blocked
  <1>9. ASSUME NEW t \in Thread, MonStore(t) PROVE Goal
    BY <1>9, Pairs, Kernel, NullAssumption
    DEF MonStore, PopFrame, Returns, Executes, Goto, MonitorLabels, schedVars, threadVars, callVars,
        LockInv, TypeOK, TargetOK, Resumes, SignalWaitOK, QueuePointers,
        WokenOwnsLock, MutualExclusion, Blocked
  <1>10. ASSUME NEW t \in Thread, SysYield(t) PROVE Goal
    BY <1>10, Pairs, Kernel, NullAssumption
    DEF SysYield, Executes, Goto, MonitorLabels, schedVars, threadVars, callVars,
        LockInv, TypeOK, TargetOK, Resumes, SignalWaitOK, QueuePointers,
        WokenOwnsLock, MutualExclusion, Blocked
  \* The early return of monitor() is not taken.
  <1>11. ASSUME NEW t \in Thread, MonCheck(t) PROVE Goal
    <2>1. owner[target[t]] = t
      BY <1>11
      DEF MonCheck, Executes, MonitorLabels, LockInv, WokenOwnsLock, Resumes, Blocked
    <2>2. /\ pc' = [pc EXCEPT ![t] = IF signal[target[t]] <= 0 THEN "mon_wait"
                                     ELSE "mon_load"]
          /\ pc[t] = "mon_check"
          /\ UNCHANGED <<threadVars, owner, next, callVars, held>>
      BY <1>11, <2>1 DEF MonCheck, Executes, Goto
    <2> QED
      BY <2>1, <2>2, Pairs, NullAssumption
      DEF MonitorLabels, threadVars, callVars,
        LockInv, TypeOK, TargetOK, Resumes, SignalWaitOK, QueuePointers,
        WokenOwnsLock, MutualExclusion, Blocked
  <1>12. ASSUME NEW t \in Thread, SysRedrawGui(t) PROVE Goal
    <2>1. \A u \in Thread : (Blocked(u)' <=> Blocked(u)) /\ Resumes(u)' = Resumes(u)
      BY <1>12 DEF SysRedrawGui, Blocked, Resumes, threadVars, callVars
    <2> QED
      BY <1>12, <2>1, Frame
      DEF SysRedrawGui, threadVars, callVars, LockInv, SignalWaitOK, Resumes
  <1>13. CASE PostDisplayMsg
    <2>1. \A u \in Thread : (Blocked(u)' <=> Blocked(u)) /\ Resumes(u)' = Resumes(u)
      BY <1>13 DEF PostDisplayMsg, Blocked, Resumes, threadVars, callVars
    <2> QED
      BY <1>13, <2>1, Frame
      DEF PostDisplayMsg, threadVars, callVars, LockInv, SignalWaitOK, Resumes
  <1>14. ASSUME NEW p \in Proc, SendMsg(p) PROVE Goal
    <2>1. \A u \in Thread : (Blocked(u)' <=> Blocked(u)) /\ Resumes(u)' = Resumes(u)
      BY <1>14 DEF SendMsg, Blocked, Resumes, threadVars, callVars
    <2> QED
      BY <1>14, <2>1, Frame
      DEF SendMsg, threadVars, callVars, LockInv, SignalWaitOK, Resumes
  <1>15. CASE EvDequeue
    BY <1>15, Pairs, Kernel, NullAssumption
    DEF EvDequeue, Executes, Goto, MonitorLabels, threadVars,
        LockInv, TypeOK, TargetOK, Resumes, SignalWaitOK, QueuePointers,
        WokenOwnsLock, MutualExclusion, Blocked
  <1>16. CASE EvSubtract
    BY <1>16, Pairs, Kernel, NullAssumption
    DEF EvSubtract, PopFrame, Executes, Goto, MonitorLabels, threadVars,
        LockInv, TypeOK, TargetOK, Resumes, SignalWaitOK, QueuePointers,
        WokenOwnsLock, MutualExclusion, Blocked
  <1>17. CASE InputInterrupt
    <2>1. \A t \in Thread : pc'[t] = pc[t] \/ (pc[t] = "hlt" /\ pc'[t] = "test")
      BY <1>17, HltEnds DEF InputInterrupt, LockInv
    <2>2. \A u \in Thread : (Blocked(u)' <=> Blocked(u)) /\ Resumes(u)' = Resumes(u)
      BY <1>17, <2>1 DEF InputInterrupt, Blocked, Resumes, threadVars, callVars
    <2>3. SignalWaitOK'
      BY <1>17, <2>1, <2>2
      DEF InputInterrupt, threadVars, callVars, LockInv, SignalWaitOK
    <2> QED BY <1>17, <2>2, <2>3, Frame DEF InputInterrupt, threadVars, callVars
  <1>18. ASSUME NEW t \in Thread, NEW h \in LockHandles, SysLock(t, h)
         PROVE  Goal
    <2> DEFINE l == <<proc_id, h>>
    <2>1. l \in Lock
      BY Pairs DEF Handle, LockInv, TypeOK
    <2>2. CASE AcquireLock(t, l) /\ held' = [held EXCEPT ![t] = @ \cup {l}]
                 /\ UNCHANGED <<pc, after, target>>
      BY <1>0, <1>18, <2>1, <2>2, AcquireStep DEF SysLock, Executes
    <2>3. CASE EnqueueWaiter(t, l) /\ Goto(t, "hlt")
                 /\ after' = [after EXCEPT ![t] = "locked"]
                 /\ target' = [target EXCEPT ![t] = l] /\ UNCHANGED held
      BY <1>0, <1>18, <2>1, <2>3, EnqueueStep DEF SysLock, Executes, Goto
    <2> QED BY <1>18, <2>2, <2>3 DEF SysLock
  <1>19. ASSUME NEW t \in Thread, NEW l \in Lock, SysUnlock(t, l)
         PROVE  Goal
    BY <1>0, <1>19, ReleaseStep DEF SysUnlock, Executes, callVars
  <1>20. ASSUME NEW t \in Thread, NEW m \in Monitor, NEW d, pc[t] = "run",
                Monitor_(t, m, d)
         PROVE  Goal
    <2>1. m \in Lock
      BY Pairs
    <2>2. CASE AcquireLock(t, m) /\ Goto(t, "mon_check") /\ UNCHANGED after
      BY <1>0, <1>20, <2>1, <2>2, AcquireStep DEF Monitor_, Goto
    <2>3. CASE EnqueueWaiter(t, m) /\ Goto(t, "hlt")
                 /\ after' = [after EXCEPT ![t] = "mon_check"]
      BY <1>0, <1>20, <2>1, <2>3, EnqueueStep DEF Monitor_, Goto
    <2> QED BY <1>20, <2>2, <2>3 DEF Monitor_
  <1>21. ASSUME NEW t \in Thread, NEW h \in MonitorHandles, NEW d \in Diffs,
                SysMonitor(t, h, d)
         PROVE  Goal
    <2>1. <<proc_id, h>> \in Monitor
      BY Pairs DEF LockInv, TypeOK
    <2>2. pc[t] = "run" /\ Monitor_(t, <<proc_id, h>>, d)
      BY <1>21 DEF SysMonitor, Executes
    <2> QED BY <1>20, <2>1, <2>2
  <1>22. CASE EvMonitor
    <2>1. pc[EventThread] = "run" /\ Monitor_(EventThread, MsgMonitor(0), 0)
      BY <1>22 DEF EvMonitor, Executes
    <2> QED BY <1>20, <2>1, Kernel
  <1>23. ASSUME NEW t \in Thread, NEW h \in MonitorHandles, NEW d \in Diffs,
                SysNotify(t, h, d)
         PROVE  Goal
    <2> DEFINE m == <<proc_id, h>>
               W == IF Wakes(m, signal[m] + d) THEN {owner[m]} ELSE {}
    <2>1. m \in Monitor /\ m \in Lock
      BY Pairs DEF LockInv, TypeOK
    <2>2. \A u \in W : u \in Thread /\ signal_wait[u] # NULL
      BY <2>1, NullAssumption DEF Wakes, LockInv, TypeOK
    <2>3. /\ runState' = [u \in Thread |-> IF u \in W THEN "RUNNING" ELSE runState[u]]
          /\ signal_wait' = [u \in Thread |-> IF u \in W THEN NULL ELSE signal_wait[u]]
      BY <1>23, <2>2 DEF SysNotify, LockInv, TypeOK
    <2>4. UNCHANGED <<owner, next, lock_next, target, after, held, pc>>
      BY <1>23 DEF SysNotify, callVars
    <2>5. W \in SUBSET Thread /\ \A u \in W : signal_wait[u] # NULL
      BY <2>2
    <2> HIDE DEF W
    <2>6. \A u \in Thread : pc'[u] = pc[u] \/ (pc[u] = "hlt" /\ pc'[u] = "test")
      BY <2>4
    <2> QED BY <1>0, <2>3, <2>4, <2>5, <2>6, WakeStep
  <1>24. ASSUME NEW t \in Thread, SysNewThread(t) PROVE Goal
    <2>1. PICK i \in Slot : StartThread(proc_id, i)
      BY <1>24 DEF SysNewThread
    <2>2. proc_id \in Proc /\ UNCHANGED <<owner, next, pc, callVars, held>>
      BY <1>24 DEF SysNewThread, LockInv, TypeOK
    <2> QED BY <1>0, <2>1, <2>2, StartStep
  <1>25. CASE Spawn
    <2>1. StartThread(num_procs, 0) /\ num_procs < MAX_PROCS
            /\ UNCHANGED <<owner, next, pc, callVars, held>>
      BY <1>25 DEF Spawn
    <2>2. num_procs \in Proc
      BY <2>1, ConstantsAssumption DEF LockInv, TypeOK, Proc
    <2> QED BY <1>0, <2>1, <2>2, StartStep, Kernel
  <1>26. CASE TimerInterrupt
    <2> DEFINE W == {u \in Thread : WokenByTick(u)}
    <2>1. /\ runState' = RunStateAtTick
          /\ signal_wait' = [u \in Thread |-> IF WokenByTick(u) THEN NULL
                                              ELSE signal_wait[u]]
          /\ pc' = EndHlt
          /\ UNCHANGED <<lock_next, owner, next, callVars, held>>
      BY <1>26 DEF TimerInterrupt
    <2>2. /\ runState' = [u \in Thread |-> IF u \in W THEN "RUNNING" ELSE runState[u]]
          /\ signal_wait' = [u \in Thread |-> IF u \in W THEN NULL ELSE signal_wait[u]]
      BY <2>1 DEF RunStateAtTick
    <2>4. \A u \in W : signal_wait[u] # NULL
      BY NotifiedInProc, Kernel, NullAssumption, Pairs DEF WokenByTick, Wakes, LockInv
    <2>5. \A t \in Thread : pc'[t] = pc[t] \/ (pc[t] = "hlt" /\ pc'[t] = "test")
      BY <2>1, HltEnds DEF LockInv
    <2> HIDE DEF W
    <2>6. W \in SUBSET Thread
      BY DEF W
    <2> QED BY <1>0, <2>1, <2>2, <2>4, <2>5, <2>6, WakeStep DEF callVars
  <1> QED
    BY <1>1, <1>2, <1>3, <1>4, <1>5, <1>6, <1>7, <1>8, <1>9, <1>10, <1>11, <1>12,
       <1>13, <1>14, <1>15, <1>16, <1>17, <1>18, <1>19, <1>21, <1>22, <1>23,
       <1>24, <1>25, <1>26
    DEF Next, KernelStep, UserStep, EventLoop

\* The locks exclude each other's holders and their queues stay well formed in
\* every reachable state, for every number of processes, threads and locks and
\* with the timer striking between any two steps.
THEOREM LockInvariant == Spec => []LockInv
  BY LockInit, LockStep, PTL DEF Spec

\* A thread to which lock() or monitor() has returned is the lock's owner.
THEOREM LocksExclude == Spec => []MutualExclusion
  <1>1. LockInv => MutualExclusion
    BY DEF LockInv
  <1> QED BY <1>1, LockInvariant, PTL

-----------------------------------------------------------------------------

\* Nothing but unlock() changes the run state of a thread asleep in lock().
LEMMA HandsOverStep ==
  ASSUME LockInv, [Next]_vars, NEW w \in Thread
  PROVE  HandsOver(w)
  <1> SUFFICES ASSUME Blocked(w)
               PROVE  \/ runState'[w] = runState[w]
                      \/ /\ owner'[target[w]] = w
                         /\ owner[target[w]] # w
                         /\ next[target[w]] = w
    BY DEF HandsOver, Blocked
  <1> USE DEF LockInv, TypeOK
  <1>0. pc[w] \in {"hlt", "test"} /\ signal_wait[w] = NULL /\ runState[w] = "WAITING"
    BY NullAssumption DEF Blocked, SignalWaitOK, Resumes
  <1>1. CASE \/ UNCHANGED vars \/ EvDequeue \/ EvSubtract \/ PostDisplayMsg
             \/ InputInterrupt \/ \E p \in Proc : SendMsg(p)
    BY <1>1
    DEF vars, threadVars, EvDequeue, EvSubtract, PostDisplayMsg, InputInterrupt, SendMsg
  <1>2. ASSUME NEW t \in Thread, KernelStep(t) PROVE runState'[w] = runState[w]
    BY <1>0, <1>2
    DEF KernelStep, LockReturns, YieldTest, MonCheck, MonSetWait, MonSleep, MonDec,
        MonSub, MonLoad, MonStore, Executes, threadVars
  <1>3. ASSUME NEW t \in Thread, NEW l \in Lock, pc[t] = "run",
               AcquireLock(t, l) \/ EnqueueWaiter(t, l)
        PROVE  runState'[w] = runState[w]
    BY <1>0, <1>3 DEF AcquireLock, EnqueueWaiter
  <1>4. ASSUME NEW t \in Thread, NEW h \in LockHandles, SysLock(t, h)
        PROVE  runState'[w] = runState[w]
    <2>1. <<proc_id, h>> \in Lock
      BY Pairs DEF Handle
    <2> QED BY <1>3, <1>4, <2>1 DEF SysLock, Executes
  <1>5. ASSUME NEW t \in Thread, NEW h \in MonitorHandles, NEW d \in Diffs,
               SysMonitor(t, h, d)
        PROVE  runState'[w] = runState[w]
    <2>1. <<proc_id, h>> \in Lock
      BY Pairs
    <2> QED BY <1>3, <1>5, <2>1 DEF SysMonitor, Monitor_, Executes
  <1>6. CASE EvMonitor
    <2>1. MsgMonitor(0) \in Lock /\ EventThread \in Thread
      BY Pairs, Kernel
    <2> QED BY <1>3, <1>6, <2>1 DEF EvMonitor, Monitor_, Executes
  <1>7. ASSUME NEW t \in Thread, NEW l \in Lock, SysUnlock(t, l)
        PROVE  \/ runState'[w] = runState[w]
               \/ /\ owner'[target[w]] = w /\ owner[target[w]] # w
                  /\ next[target[w]] = w
    <2>1. owner[l] = t /\ pc[t] = "run" /\ ReleaseLock(l)
      BY <1>7 DEF SysUnlock, Executes, MutualExclusion
    <2>2. CASE next[l] = w
      BY <1>0, <2>1, <2>2, NullAssumption DEF ReleaseLock, QueuePointers
    <2>3. CASE next[l] # w
      BY <2>1, <2>3 DEF ReleaseLock
    <2> QED BY <2>2, <2>3
  <1>8. ASSUME NEW t \in Thread, NEW h \in MonitorHandles, NEW d \in Diffs,
               SysNotify(t, h, d)
        PROVE  runState'[w] = runState[w]
    <2>1. <<proc_id, h>> \in Monitor
      BY Pairs
    <2> QED BY <1>0, <1>8, <2>1, NullAssumption, Pairs DEF SysNotify, Wakes
  <1>9. ASSUME NEW p, NEW i, StartThread(p, i) PROVE runState'[w] = runState[w]
    BY <1>0, <1>9 DEF StartThread
  <1>10. ASSUME NEW t \in Thread, SysNewThread(t) \/ SysRedrawGui(t) \/ SysYield(t)
         PROVE  runState'[w] = runState[w]
    BY <1>9, <1>10 DEF SysNewThread, SysRedrawGui, SysYield, threadVars
  <1>11. CASE Spawn
    BY <1>9, <1>11 DEF Spawn
  <1>12. CASE TimerInterrupt
    <2>1. runState' = RunStateAtTick
      BY <1>12 DEF TimerInterrupt
    <2>2. ~ WokenByTick(w)
      BY <1>0, NullAssumption, Kernel, NotifiedInProc, Pairs DEF WokenByTick, Wakes
    <2> QED BY <2>1, <2>2 DEF RunStateAtTick
  <1> QED
    BY <1>1, <1>2, <1>4, <1>5, <1>6, <1>7, <1>8, <1>10, <1>11, <1>12
    DEF Next, UserStep, EventLoop

\* Only unlock() wakes a thread that sleeps in lock(): no notification, of a
\* system call or of the timer, reaches it.
THEOREM WaitersWokenByUnlock == Spec => OnlyUnlockWakesWaiters
  <1>1. LockInv /\ [Next]_vars => [\A t \in Thread : HandsOver(t)]_vars
    BY HandsOverStep
  <1> QED BY <1>1, LockInvariant, PTL DEF Spec, OnlyUnlockWakesWaiters

-----------------------------------------------------------------------------

\* OnlyInitialisedRuns is not inductive: the fall-backs of get_next_thread()
\* need the idle thread, and slot 0 of a process that is about to start.
SlotInv ==
  /\ TypeInv
  /\ OnlyInitialisedRuns
  /\ runState[IdleThread] # "NULL"
  /\ \A p \in Proc : p >= num_procs => thread_index[p] = 0

\* The boot thread runs in slot 0 of the kernel process.
LEMMA SlotInit == Init => SlotInv
  <1> SUFFICES ASSUME Init PROVE SlotInv
    OBVIOUS
  <1>1. TypeInv
    BY TypeInit
  <1>2. runState[IdleThread] = "WAITING" /\ thisThread = IdleThread
    BY Kernel DEF Init
  <1>3. \A p \in Proc : thread_index[p] = 0 /\ (p < num_procs => p = 0)
    BY DEF Init, Proc
  <1>4. \A p \in Proc : p < num_procs => <<p, thread_index[p]>> = IdleThread
    BY <1>3 DEF IdleThread
  <1> QED BY <1>1, <1>2, <1>3, <1>4 DEF SlotInv, OnlyInitialisedRuns

\* A thread slot, once taken, is never given up.
LEMMA SlotsStayTaken ==
  ASSUME TypeInv, [Next]_vars, NEW t \in Thread, runState[t] # "NULL"
  PROVE  runState'[t] # "NULL"
  <1> USE DEF TypeInv, TypeOK
  <1>1. CASE UNCHANGED <<runState>>
    BY <1>1
  <1>2. CASE \E u \in Thread : runState' = [runState EXCEPT ![u] = "RUNNING"]
    BY <1>2
  <1>3. CASE \E u \in Thread : runState' = [runState EXCEPT ![u] = "WAITING"]
    BY <1>3
  <1>4. CASE TimerInterrupt
    BY <1>4 DEF TimerInterrupt, RunStateAtTick
  <1>5. ASSUME NEW u \in Thread, NEW l \in Lock,
               AcquireLock(u, l) \/ EnqueueWaiter(u, l)
        PROVE  runState'[t] # "NULL"
    BY <1>1, <1>3, <1>5 DEF AcquireLock, EnqueueWaiter
  <1>6. ASSUME NEW u \in Thread, KernelStep(u) PROVE runState'[t] # "NULL"
    BY <1>1, <1>3, <1>6
    DEF KernelStep, LockReturns, YieldTest, MonCheck, MonSetWait, MonSleep, MonDec,
        MonSub, MonLoad, MonStore, threadVars
  <1>7. ASSUME NEW u \in Thread, UserStep(u) PROVE runState'[t] # "NULL"
    <2>1. ASSUME NEW h \in LockHandles, SysLock(u, h) PROVE runState'[t] # "NULL"
      <3>1. <<proc_id, h>> \in Lock
        BY Pairs DEF Handle
      <3> QED BY <1>5, <2>1, <3>1 DEF SysLock
    <2>2. ASSUME NEW l \in Lock, SysUnlock(u, l) PROVE runState'[t] # "NULL"
      BY <1>1, <1>2, <2>2 DEF SysUnlock, ReleaseLock
    <2>3. ASSUME NEW h \in MonitorHandles, NEW d \in Diffs, SysMonitor(u, h, d)
          PROVE  runState'[t] # "NULL"
      <3>1. <<proc_id, h>> \in Lock
        BY Pairs
      <3> QED BY <1>5, <2>3, <3>1 DEF SysMonitor, Monitor_
    <2>4. ASSUME NEW h \in MonitorHandles, NEW d \in Diffs, SysNotify(u, h, d)
          PROVE  runState'[t] # "NULL"
      <3>1. <<proc_id, h>> \in Lock
        BY Pairs
      <3> QED BY <1>1, <1>2, <2>4, <3>1 DEF SysNotify, Wakes
    <2>5. CASE SysNewThread(u) \/ SysRedrawGui(u) \/ SysYield(u)
      BY <1>1, <1>2, <2>5, Pairs
      DEF SysNewThread, StartThread, SysRedrawGui, SysYield, threadVars
    <2> QED BY <1>7, <2>1, <2>2, <2>3, <2>4, <2>5 DEF UserStep
  <1>8. CASE EvMonitor
    <2>1. MsgMonitor(0) \in Lock /\ EventThread \in Thread
      BY Pairs, Kernel
    <2> QED BY <1>5, <1>8, <2>1 DEF EvMonitor, Monitor_
  <1>9. CASE Spawn
    <2>1. num_procs \in Proc /\ 0 \in Slot
      BY <1>9, ConstantsAssumption DEF Spawn, Proc, Slot
    <2> QED BY <1>2, <1>9, <2>1, Pairs DEF Spawn, StartThread
  <1>10. CASE \/ UNCHANGED vars \/ EvDequeue \/ EvSubtract \/ PostDisplayMsg
              \/ InputInterrupt \/ \E p \in Proc : SendMsg(p)
    BY <1>10
    DEF vars, threadVars, EvDequeue, EvSubtract, PostDisplayMsg, InputInterrupt, SendMsg
  <1> QED
    BY <1>4, <1>6, <1>7, <1>8, <1>9, <1>10 DEF Next, EventLoop

\* The process and the thread that the timer picks have been created.
LEMMA SlotStep == SlotInv /\ [Next]_vars => SlotInv'
  <1> SUFFICES ASSUME SlotInv, [Next]_vars PROVE SlotInv'
    OBVIOUS
  <1>0. TypeInv /\ TypeInv'
    BY TypeStep DEF SlotInv
  <1>1. runState'[IdleThread] # "NULL"
    BY <1>0, SlotsStayTaken, Kernel DEF SlotInv
  <1>2. CASE TimerInterrupt
    <2>1. PICK p \in Proc, i \in Slot :
            /\ NextProc(p) /\ NextThread(p, i, RunStateAtTick)
            /\ runState' = RunStateAtTick
            /\ thread_index' = [thread_index EXCEPT ![p] = i]
            /\ thisThread' = <<p, i>>
            /\ num_procs' = num_procs
      BY <1>2 DEF TimerInterrupt
    <2>2. p < num_procs
      <3>1. ASSUME NEW k \in 1 .. num_procs - 1 PROVE Candidate(k) < num_procs
        <4>1. num_procs \in 1 .. MAX_PROCS /\ proc_id \in Int
          BY <1>0 DEF TypeInv, TypeOK, Proc
        <4> QED BY <4>1, ModRange DEF Candidate
      <3> QED BY <1>0, <2>1, <3>1 DEF NextProc, TypeInv, TypeOK
    <2>3. runState'[<<p, i>>] # "NULL"
      <3>1. CASE RunStateAtTick[<<p, i>>] = "RUNNING"
        BY <2>1, <3>1
      <3>2. CASE i = IF p = 0 THEN 0 ELSE thread_index[p]
        <4>1. CASE p = 0
          BY <1>1, <3>2, <4>1 DEF IdleThread
        <4>2. CASE p # 0
          <5>1. runState[<<p, i>>] # "NULL"
            BY <2>2, <3>2, <4>2 DEF SlotInv, OnlyInitialisedRuns
          <5> QED BY <1>0, <5>1, SlotsStayTaken, Pairs
        <4> QED BY <4>1, <4>2
      <3> QED BY <2>1, <3>1, <3>2 DEF NextThread
    <2>4. ASSUME NEW q \in Proc, q < num_procs', q # p
          PROVE  runState'[<<q, thread_index'[q]>>] # "NULL"
      <3>1. thread_index'[q] = thread_index[q] /\ <<q, thread_index[q]>> \in Thread
        BY <1>0, <2>1, <2>4, Pairs DEF TypeInv, TypeOK
      <3>2. runState[<<q, thread_index[q]>>] # "NULL"
        BY <2>1, <2>4 DEF SlotInv, OnlyInitialisedRuns
      <3> QED BY <1>0, <3>1, <3>2, SlotsStayTaken
    <2>5. thread_index'[p] = i
      BY <1>0, <2>1 DEF TypeInv, TypeOK
    <2>6. \A q \in Proc : q >= num_procs' => thread_index'[q] = 0
      BY <1>0, <2>1, <2>2 DEF SlotInv, TypeInv, TypeOK, Proc
    <2> QED BY <1>0, <1>1, <2>1, <2>3, <2>4, <2>5, <2>6 DEF SlotInv, OnlyInitialisedRuns
  <1>3. ASSUME UNCHANGED <<thisThread, thread_index>>,
               \/ num_procs' = num_procs
               \/ /\ num_procs' = num_procs + 1 /\ num_procs \in Proc
                  /\ runState'[<<num_procs, 0>>] # "NULL"
        PROVE  SlotInv'
    <2>1. runState'[thisThread'] # "NULL"
      BY <1>0, <1>3, SlotsStayTaken DEF SlotInv, OnlyInitialisedRuns, TypeInv, TypeOK
    <2>2. ASSUME NEW p \in Proc, p < num_procs
          PROVE  runState'[<<p, thread_index'[p]>>] # "NULL"
      <3>1. <<p, thread_index[p]>> \in Thread /\ runState[<<p, thread_index[p]>>] # "NULL"
        BY <1>0, <2>2, Pairs DEF SlotInv, OnlyInitialisedRuns, TypeInv, TypeOK
      <3> QED BY <1>0, <1>3, <3>1, SlotsStayTaken
    <2>3. ASSUME num_procs \in Proc PROVE thread_index[num_procs] = 0
      BY <1>0, <2>3 DEF SlotInv, TypeInv, TypeOK
    <2>4. \A p \in Proc : p < num_procs' => runState'[<<p, thread_index'[p]>>] # "NULL"
      <3> SUFFICES ASSUME NEW p \in Proc, p < num_procs'
                   PROVE  runState'[<<p, thread_index'[p]>>] # "NULL"
        OBVIOUS
      <3>1. CASE p < num_procs
        BY <2>2, <3>1
      <3>2. CASE ~ (p < num_procs)
        <4>1. p = num_procs /\ num_procs' = num_procs + 1
          BY <1>0, <1>3, <3>2 DEF TypeInv, TypeOK, Proc
        <4> QED BY <1>3, <2>3, <4>1 DEF Proc
      <3> QED BY <3>1, <3>2
    <2>5. \A p \in Proc : p >= num_procs' => thread_index'[p] = 0
      BY <1>0, <1>3 DEF SlotInv, TypeInv, TypeOK, Proc
    <2> QED BY <1>0, <1>1, <2>1, <2>4, <2>5 DEF SlotInv, OnlyInitialisedRuns
  <1>4. CASE Spawn
    <2>1. num_procs \in Proc /\ <<num_procs, 0>> \in Thread
      BY <1>0, <1>4, ConstantsAssumption, Pairs, Kernel DEF Spawn, Proc, TypeInv, TypeOK
    <2>2. runState'[<<num_procs, 0>>] = "RUNNING"
      BY <1>0, <1>4, <2>1 DEF Spawn, StartThread, TypeInv, TypeOK
    <2> QED BY <1>3, <1>4, <2>1, <2>2 DEF Spawn
  <1>5. CASE /\ ~ TimerInterrupt /\ ~ Spawn
    <2>1. UNCHANGED schedVars
      BY <1>5
      DEF Next, KernelStep, UserStep, EventLoop, vars, LockReturns, YieldTest, MonCheck,
          MonSetWait, MonSleep, MonDec, MonSub, MonLoad, MonStore, SysLock, SysUnlock,
          SysMonitor, Monitor_, SysNotify, SysNewThread, SysRedrawGui, SysYield,
          EvMonitor, EvDequeue, EvSubtract, PostDisplayMsg, SendMsg, InputInterrupt
    <2> QED BY <1>3, <2>1 DEF schedVars
  <1> QED BY <1>2, <1>4, <1>5

\* The scheduler never switches to an empty thread slot.
THEOREM RunsInitialisedThreads == Spec => []OnlyInitialisedRuns
  <1>1. Spec => []SlotInv
    BY SlotInit, SlotStep, PTL DEF Spec
  <1>2. SlotInv => OnlyInitialisedRuns
    BY DEF SlotInv
  <1> QED BY <1>1, <1>2, PTL

-----------------------------------------------------------------------------
(* The walk along lock_next *)

\* S contains the first thread of the queue of l, and with a thread the next one.
Closed(S, l) ==
  /\ next[l] # NULL => next[l] \in S
  /\ \A u \in S : lock_next[u] # NULL => lock_next[u] \in S

\* Every sleeper is reached from the head of its queue.
Reached == \A l \in Lock : \A S \in SUBSET Thread : Closed(S, l) => Sleepers(l) \subseteq S

\* A lock with sleepers has an owner that is none of them.
QueuesOwned == \A l \in Lock : Sleepers(l) # {} => owner[l] # NULL /\ owner[l] \notin Sleepers(l)

WaitInv == LockInv /\ Reached /\ QueuesOwned

\* The queue of the model is the least closed set.
LEMMA WaitersReached ==
  ASSUME WaitInv
  PROVE  WaitQueueExact
  <1> SUFFICES ASSUME NEW l \in Lock
               PROVE  /\ Waiters(l) = Sleepers(l)
                      /\ Waiters(l) # {} => owner[l] \in Thread \ Waiters(l)
    BY DEF WaitQueueExact
  <1>1. Waiters(l) \subseteq Sleepers(l)
    BY WaitersBlocked DEF WaitInv, Sleepers
  <1>2. Sleepers(l) \subseteq Waiters(l)
    <2> SUFFICES ASSUME NEW t \in Sleepers(l), NEW S \in SUBSET Thread, Closed(S, l)
                 PROVE  t \in S
      BY DEF Waiters, Closed, Sleepers
    <2> QED BY DEF WaitInv, Reached
  <1>3. Sleepers(l) # {} => owner[l] \in Thread \ Sleepers(l)
    BY DEF WaitInv, QueuesOwned, LockInv, TypeOK
  <1> QED BY <1>1, <1>2, <1>3

\* Steps that leave the queues alone and neither put a thread to sleep in lock()
\* nor wake it there, and take at most a free lock for a thread that is awake.
LEMMA QuietQueues ==
  ASSUME WaitInv, UNCHANGED <<next, lock_next>>,
         \A t \in Thread : (Blocked(t)' <=> Blocked(t)) /\ (Blocked(t) => target'[t] = target[t]),
         \/ UNCHANGED owner
         \/ \E t \in Thread, l \in Lock : ~ Blocked(t) /\ owner[l] \in {t, NULL}
                                          /\ owner' = [owner EXCEPT ![l] = t]
  PROVE  Reached' /\ QueuesOwned'
  <1>1. \A l \in Lock : Sleepers(l)' = Sleepers(l)
    BY DEF Sleepers
  <1>2. Reached'
    BY <1>1 DEF WaitInv, Reached, Closed
  <1>3. CASE UNCHANGED owner
    BY <1>1, <1>2, <1>3 DEF WaitInv, QueuesOwned
  <1>4. ASSUME NEW t \in Thread, NEW l \in Lock, ~ Blocked(t), owner[l] \in {t, NULL},
               owner' = [owner EXCEPT ![l] = t]
        PROVE  QueuesOwned'
    <2>1. \A k \in Lock : t \notin Sleepers(k) /\ t # NULL
      BY <1>4, NullAssumption DEF Sleepers
    <2> QED BY <1>1, <1>4, <2>1 DEF WaitInv, QueuesOwned, LockInv, TypeOK
  <1> QED BY <1>2, <1>3, <1>4

\* lock() adds its caller at the end of the queue of another thread's lock.
LEMMA QueueGrows ==
  ASSUME WaitInv, NEW t \in Thread, NEW l \in Lock, EnqueueWaiter(t, l),
         ~ Blocked(t), Blocked(t)', target'[t] = l,
         \A u \in Thread \ {t} : (Blocked(u)' <=> Blocked(u)) /\ target'[u] = target[u]
  PROVE  Reached' /\ QueuesOwned'
  <1> USE DEF LockInv, TypeOK
  <1>1. Sleepers(l)' = Sleepers(l) \cup {t} /\ \A k \in Lock : k # l => Sleepers(k)' = Sleepers(k)
    BY DEF Sleepers
  <1>2. owner' = owner /\ owner[l] \notin {t, NULL} /\ t \notin Sleepers(l)
    BY DEF EnqueueWaiter, LockIsFree, Sleepers
  <1>3. QueuesOwned'
    BY <1>1, <1>2 DEF WaitInv, QueuesOwned
  <1>4. lock_next[t] = NULL
    BY NullAssumption DEF WaitInv, QueuePointers
  <1>5. CASE next[l] = NULL
    <2>1. next' = [next EXCEPT ![l] = t] /\ lock_next' = lock_next
      <3>1. lock_next \in [Thread -> Thread \cup {NULL}]
        BY DEF WaitInv
      <3> QED BY <1>4, <1>5, <3>1 DEF EnqueueWaiter
    <2>2. Sleepers(l) = {}
      <3>1. Closed({}, l)
        BY <1>5 DEF Closed
      <3> QED BY <3>1 DEF WaitInv, Reached
    <2>3. ASSUME NEW k \in Lock, NEW S \in SUBSET Thread, Closed(S, k)'
          PROVE  Sleepers(k)' \subseteq S
      <3>1. CASE k = l
        <4>1. next'[l] = t /\ t # NULL
          BY <2>1, NullAssumption DEF WaitInv
        <4>2. t \in S
          BY <2>3, <3>1, <4>1 DEF Closed
        <4> QED BY <1>1, <2>2, <3>1, <4>2
      <3>2. CASE k # l
        <4>1. Closed(S, k)
          BY <2>1, <2>3, <3>2 DEF Closed, WaitInv
        <4> QED BY <1>1, <3>2, <4>1 DEF WaitInv, Reached
      <3> QED BY <3>1, <3>2
    <2> QED BY <1>3, <2>3 DEF Reached
  <1>6. CASE next[l] # NULL
    <2>1. PICK tnode \in Waiters(l) :
            /\ lock_next[tnode] = NULL
            /\ lock_next' = [lock_next EXCEPT ![t] = NULL, ![tnode] = t]
      BY <1>6 DEF EnqueueWaiter
    <2>2. tnode \in Thread /\ tnode \in Sleepers(l) /\ tnode # t
      BY WaitersBlocked DEF WaitInv, Sleepers
    <2>3. next' = next
      BY <1>6 DEF EnqueueWaiter
    <2>4. lock_next' = [lock_next EXCEPT ![tnode] = t]
      BY <1>4, <2>1, <2>2 DEF WaitInv
    <2>5. ASSUME NEW k \in Lock, NEW S \in SUBSET Thread, Closed(S, k)'
          PROVE  Sleepers(k)' \subseteq S
      <3>1. \A u \in S : lock_next[u] # NULL => lock_next'[u] = lock_next[u]
        BY <2>1, <2>4 DEF WaitInv
      <3>2. Closed(S, k)
        BY <2>3, <2>5, <3>1 DEF Closed
      <3>3. Sleepers(k) \subseteq S
        BY <3>2 DEF WaitInv, Reached
      <3>4. k = l => t \in S
        <4>1. lock_next'[tnode] = t /\ t # NULL
          BY <2>2, <2>4, NullAssumption DEF WaitInv
        <4> QED BY <2>2, <2>5, <3>3, <4>1 DEF Closed
      <3> QED BY <1>1, <3>3, <3>4
    <2> QED BY <1>3, <2>5 DEF Reached
  <1> QED BY <1>5, <1>6

\* unlock() takes the first thread off the queue.
LEMMA QueueShrinks ==
  ASSUME WaitInv, NEW t \in Thread, NEW l \in held[t], ReleaseLock(l),
         UNCHANGED <<pc, after, target>>
  PROVE  Reached' /\ QueuesOwned'
  <1> USE DEF LockInv, TypeOK
  <1>1. l \in Lock /\ owner[l] = t
    BY DEF WaitInv, MutualExclusion
  <1>2. CASE next[l] = NULL
    <2>1. UNCHANGED <<next, lock_next, runState>> /\ owner' = [owner EXCEPT ![l] = NULL]
      BY <1>2 DEF ReleaseLock
    <2>2. \A k \in Lock : Sleepers(k)' = Sleepers(k)
      BY <2>1 DEF Sleepers, Blocked
    <2>3. Sleepers(l) = {}
      <3>1. Closed({}, l)
        BY <1>2 DEF Closed
      <3> QED BY <1>1, <3>1 DEF WaitInv, Reached
    <2>4. Reached'
      <3>1. Reached
        BY DEF WaitInv
      <3>2. \A k \in Lock : \A S \in SUBSET Thread : Closed(S, k)' <=> Closed(S, k)
        BY <2>1 DEF Closed
      <3> QED BY <2>2, <3>1, <3>2 DEF Reached
    <2> QED BY <1>1, <2>1, <2>2, <2>3, <2>4 DEF WaitInv, QueuesOwned
  <1>3. CASE next[l] # NULL
    <2>1. PICK heir \in Thread : heir = next[l]
      BY <1>1, <1>3 DEF WaitInv
    <2>2. Blocked(heir) /\ target[heir] = l /\ heir # NULL
      BY <1>1, <1>3, <2>1 DEF WaitInv, QueuePointers
    <2>3. /\ owner' = [owner EXCEPT ![l] = heir]
          /\ runState' = [runState EXCEPT ![heir] = "RUNNING"]
          /\ next' = [next EXCEPT ![l] = lock_next[heir]]
          /\ lock_next' = [lock_next EXCEPT ![heir] = NULL]
      BY <1>3, <2>1 DEF ReleaseLock
    <2>4. ~ Blocked(heir)' /\ \A u \in Thread \ {heir} : Blocked(u)' <=> Blocked(u)
      BY <2>2, <2>3 DEF WaitInv, Blocked
    <2>5. /\ Sleepers(l)' = Sleepers(l) \ {heir} /\ heir \in Sleepers(l)
          /\ \A k \in Lock : k # l => Sleepers(k)' = Sleepers(k)
      BY <2>2, <2>4 DEF Sleepers
    <2>6. owner'[l] = heir /\ \A k \in Lock : k # l => owner'[k] = owner[k]
      BY <1>1, <2>3 DEF WaitInv
    <2>7. QueuesOwned'
      BY <2>2, <2>5, <2>6 DEF WaitInv, QueuesOwned
    <2>8. (\A u \in Thread : lock_next[u] # heir) /\ (\A k \in Lock : k # l => next[k] # heir)
      BY <1>1, <1>3, <2>1, <2>2 DEF WaitInv, QueuePointers
    <2>9. \A u \in Thread : u # heir => lock_next'[u] = lock_next[u]
      BY <2>3 DEF WaitInv
    <2>10. ASSUME NEW S \in SUBSET Thread, Closed(S, l)' PROVE Sleepers(l)' \subseteq S
      <3>1. next'[l] = lock_next[heir]
        BY <1>1, <2>3 DEF WaitInv
      <3>2. Closed(S \cup {heir}, l)
        BY <2>1, <2>9, <2>10, <3>1 DEF Closed
      <3>3. Sleepers(l) \subseteq S \cup {heir}
        BY <1>1, <3>2 DEF WaitInv, Reached
      <3> QED BY <2>5, <3>3
    <2>11. ASSUME NEW k \in Lock, k # l, NEW S \in SUBSET Thread, Closed(S, k)'
           PROVE  Sleepers(k)' \subseteq S
      <3>1. next'[k] = next[k]
        BY <1>1, <2>3, <2>11 DEF WaitInv
      <3>2. Closed(S \ {heir}, k)
        BY <2>8, <2>9, <2>11, <3>1 DEF Closed
      <3>3. Sleepers(k) \subseteq S \ {heir}
        BY <3>2 DEF WaitInv, Reached
      <3> QED BY <2>5, <2>11, <3>3
    <2>12. Reached'
      BY <2>10, <2>11 DEF Reached
    <2> QED BY <2>7, <2>12
  <1> QED BY <1>2, <1>3

\* The sleepers and the locks they sleep on stay as they are.
SameSleepers ==
  \A u \in Thread : (Blocked(u)' <=> Blocked(u)) /\ (Blocked(u) => target'[u] = target[u])

GetsHold(t, l) == held' = [held EXCEPT ![t] = @ \cup {l}]

\* What a step can do to the locks: nothing, except that a call of lock()
\* returns to the owner ...
NoLockStep ==
  /\ UNCHANGED <<owner, next, lock_next>> /\ SameSleepers
  /\ UNCHANGED held \/ \E t \in Thread, l \in Lock : owner[l] = t /\ GetsHold(t, l)

\* ... take a free lock ...
Takes(t, l) ==
  AcquireLock(t, l) /\ ~ Blocked(t) /\ SameSleepers /\ (UNCHANGED held \/ GetsHold(t, l))

\* ... go to sleep in lock() ...
Sleeps(t, l) ==
  /\ EnqueueWaiter(t, l) /\ ~ Blocked(t) /\ Blocked(t)' /\ target'[t] = l /\ UNCHANGED held
  /\ \A u \in Thread \ {t} : (Blocked(u)' <=> Blocked(u)) /\ target'[u] = target[u]

\* ... or call unlock().
HandsOn(t, l) ==
  /\ l \in held[t] /\ ReleaseLock(l) /\ held' = [held EXCEPT ![t] = @ \ {l}]
  /\ UNCHANGED <<pc, after, target>>

LockEffect == NoLockStep \/ \E t \in Thread, l \in Lock : Takes(t, l) \/ Sleeps(t, l) \/ HandsOn(t, l)

\* No step does anything else to the locks.
LEMMA LockEffects ==
  ASSUME LockInv, [Next]_vars
  PROVE  LockEffect
  <1>0. TypeOK /\ TypeOK' /\ SignalWaitOK /\ TargetOK
    BY LockStep DEF LockInv
  <1>1. ASSUME SameSleepers, UNCHANGED <<owner, next, lock_next, held>> PROVE LockEffect
    BY <1>1 DEF LockEffect, NoLockStep
  <1>2. CASE \/ UNCHANGED vars \/ PostDisplayMsg \/ (\E p \in Proc : SendMsg(p))
             \/ \E t \in Thread : SysRedrawGui(t)
    <2>1. UNCHANGED <<pc, after, runState, target, owner, next, lock_next, held>>
      BY <1>2 DEF vars, PostDisplayMsg, SendMsg, SysRedrawGui, threadVars, callVars
    <2>2. SameSleepers
      BY <2>1 DEF Blocked, SameSleepers
    <2> QED BY <1>1, <2>1, <2>2
  <1>3. ASSUME \/ EvDequeue \/ EvSubtract
               \/ \E t \in Thread : KernelStep(t) \/ SysYield(t)
        PROVE  SameSleepers /\ UNCHANGED <<owner, next, lock_next>>
    <2>1. UNCHANGED <<owner, next, lock_next>>
      BY <1>3 DEF EvDequeue, EvSubtract, KernelStep, LockReturns, YieldTest, MonCheck, MonSetWait,
         MonSleep, MonDec, MonSub, MonLoad, MonStore, SysYield, threadVars
    <2>2. SameSleepers
      BY <1>0, <1>3, Kernel
      DEF EvDequeue, EvSubtract, KernelStep, LockReturns, YieldTest, MonCheck, MonSetWait, MonSleep,
          MonDec, MonSub, MonLoad, MonStore, SysYield, threadVars, callVars, Executes, Goto,
          PopFrame, Returns, Blocked, TypeOK, SameSleepers
    <2> QED BY <2>1, <2>2
  <1>4. CASE \/ EvDequeue \/ EvSubtract
             \/ \E t \in Thread : SysYield(t) \/ YieldTest(t) \/ MonCheck(t) \/ MonSetWait(t)
                                  \/ MonSleep(t) \/ MonDec(t) \/ MonLoad(t)
    <2>1. UNCHANGED held
      BY <1>4 DEF EvDequeue, EvSubtract, SysYield, YieldTest, MonCheck, MonSetWait, MonSleep,
         MonDec, MonLoad
    <2> QED BY <1>1, <1>3, <1>4, <2>1 DEF KernelStep
  \* The calls that return do so to the owner of the lock.
  <1>5. ASSUME NEW t \in Thread, LockReturns(t) \/ MonSub(t) \/ MonStore(t) PROVE LockEffect
    <2>1. SameSleepers /\ UNCHANGED <<owner, next, lock_next>>
      BY <1>3, <1>5 DEF KernelStep
    <2>2. GetsHold(t, target[t]) /\ pc[t] \in {"locked", "mon_sub", "mon_store"}
      BY <1>5 DEF LockReturns, MonSub, MonStore, Executes, GetsHold
    <2>3. Resumes(t) = pc[t] /\ ~ Blocked(t)
      BY <2>2 DEF Resumes, Blocked
    <2>4. owner[target[t]] = t
      BY <2>2, <2>3 DEF LockInv, WokenOwnsLock, MonitorLabels
    <2>5. target[t] \in Lock
      BY <1>0, <2>2, <2>3, Pairs DEF TargetOK, MonitorLabels
    <2> QED BY <2>1, <2>2, <2>4, <2>5 DEF LockEffect, NoLockStep
  <1>6. ASSUME NEW t \in Thread, NEW l \in Lock, pc[t] = "run", AcquireLock(t, l),
               UNCHANGED <<after, runState>>,
               \A u \in Thread \ {t} : pc'[u] = pc[u] /\ target'[u] = target[u],
               pc'[t] \in {"run", "mon_check"}, UNCHANGED held \/ GetsHold(t, l)
        PROVE  LockEffect
    <2>1. ~ Blocked(t) /\ SameSleepers
      BY <1>6 DEF Blocked, SameSleepers
    <2> QED BY <1>6, <2>1 DEF LockEffect, Takes
  <1>7. ASSUME NEW t \in Thread, NEW l \in Lock, NEW a \in {"locked", "mon_check"},
               pc[t] = "run", EnqueueWaiter(t, l), pc' = [pc EXCEPT ![t] = "hlt"],
               after' = [after EXCEPT ![t] = a], target' = [target EXCEPT ![t] = l],
               UNCHANGED held
        PROVE  LockEffect
    <2>1. ~ Blocked(t) /\ Blocked(t)' /\ target'[t] = l
      BY <1>0, <1>7 DEF Blocked, EnqueueWaiter, TypeOK
    <2>2. \A u \in Thread \ {t} : (Blocked(u)' <=> Blocked(u)) /\ target'[u] = target[u]
      BY <1>0, <1>7 DEF Blocked, EnqueueWaiter, TypeOK
    <2> QED BY <1>7, <2>1, <2>2 DEF LockEffect, Sleeps
  <1>8. ASSUME NEW t \in Thread, NEW h \in LockHandles, SysLock(t, h) PROVE LockEffect
    <2> DEFINE l == <<proc_id, h>>
    <2>1. l \in Lock /\ pc[t] = "run"
      BY <1>0, <1>8, Pairs DEF Handle, TypeOK, SysLock, Executes
    <2>2. CASE /\ AcquireLock(t, l) /\ UNCHANGED <<pc, after, target>>
               /\ held' = [held EXCEPT ![t] = @ \cup {l}]
      BY <1>6, <2>1, <2>2 DEF AcquireLock, GetsHold
    <2>3. CASE EnqueueWaiter(t, l) /\ Goto(t, "hlt") /\ after' = [after EXCEPT ![t] = "locked"]
                 /\ target' = [target EXCEPT ![t] = l] /\ UNCHANGED held
      BY <1>7, <2>1, <2>3 DEF Goto
    <2> QED BY <1>8, <2>2, <2>3 DEF SysLock
  <1>9. ASSUME NEW t \in Thread, NEW m \in Monitor, NEW d, pc[t] = "run", Monitor_(t, m, d)
        PROVE  LockEffect
    <2>1. m \in Lock /\ UNCHANGED held
      BY <1>9, Pairs DEF Monitor_
    <2>2. CASE AcquireLock(t, m) /\ Goto(t, "mon_check") /\ UNCHANGED after
      BY <1>0, <1>6, <1>9, <2>1, <2>2 DEF Monitor_, Goto, AcquireLock, TypeOK
    <2>3. CASE EnqueueWaiter(t, m) /\ Goto(t, "hlt") /\ after' = [after EXCEPT ![t] = "mon_check"]
      BY <1>7, <1>9, <2>1, <2>3 DEF Monitor_, Goto
    <2> QED BY <1>9, <2>2, <2>3 DEF Monitor_
  <1>10. ASSUME NEW t \in Thread, NEW h \in MonitorHandles, NEW d \in Diffs, SysMonitor(t, h, d)
         PROVE  LockEffect
    <2>1. <<proc_id, h>> \in Monitor
      BY <1>0, Pairs DEF TypeOK
    <2> QED BY <1>9, <1>10, <2>1 DEF SysMonitor, Executes
  <1>11. CASE EvMonitor
    BY <1>9, <1>11, Kernel DEF EvMonitor, Executes
  <1>12. ASSUME NEW t \in Thread, NEW l \in Lock, SysUnlock(t, l) PROVE LockEffect
    BY <1>12 DEF SysUnlock, callVars, LockEffect, HandsOn
  \* Wake-ups by notify() and the start of a thread pass the sleepers by.
  <1>13. ASSUME UNCHANGED <<owner, next, lock_next, after, target, held>>,
                \A u \in Thread : pc'[u] = pc[u] \/ (pc[u] = "hlt" /\ pc'[u] = "test"),
                \A u \in Thread : \/ runState'[u] = runState[u]
                                  \/ ~ Blocked(u) /\ runState'[u] = "RUNNING"
         PROVE  LockEffect
    <2>1. SameSleepers
      BY <1>13 DEF Blocked, SameSleepers
    <2> QED BY <1>1, <1>13, <2>1
  <1>14. ASSUME NEW p \in Proc, NEW i \in Slot, StartThread(p, i),
                UNCHANGED <<owner, next, pc, callVars, held>>
         PROVE  LockEffect
    <2>1. <<p, i>> \in Thread
      BY Pairs
    <2>2. ~ Blocked(<<p, i>>) /\ lock_next[<<p, i>>] = NULL
      BY <1>0, <1>14, <2>1 DEF StartThread, LockInv, QueuePointers, Blocked
    <2>3. lock_next' = lock_next
      BY <1>0, <1>14, <2>1, <2>2 DEF StartThread, TypeOK
    <2>4. \A u \in Thread : \/ runState'[u] = runState[u]
                            \/ ~ Blocked(u) /\ runState'[u] = "RUNNING"
      BY <1>0, <1>14, <2>1, <2>2 DEF StartThread, TypeOK
    <2> QED BY <1>13, <1>14, <2>3, <2>4 DEF callVars
  <1>15. ASSUME NEW t \in Thread, SysNewThread(t) PROVE LockEffect
    BY <1>0, <1>14, <1>15 DEF SysNewThread, TypeOK
  <1>16. CASE Spawn
    <2>1. num_procs \in Proc
      BY <1>0, <1>16, ConstantsAssumption DEF Spawn, TypeOK, Proc
    <2> QED BY <1>14, <1>16, <2>1, Kernel DEF Spawn
  <1>17. ASSUME NEW u \in Thread, signal_wait[u] # NULL PROVE ~ Blocked(u)
    BY <1>0, <1>17 DEF SignalWaitOK, Blocked, Resumes
  <1>18. ASSUME NEW t \in Thread, NEW h \in MonitorHandles, NEW d \in Diffs, SysNotify(t, h, d)
         PROVE  LockEffect
    <2> DEFINE m == <<proc_id, h>>
    <2>1. m \in Monitor /\ m \in Lock
      BY <1>0, Pairs DEF TypeOK
    <2>2. \A u \in Thread : \/ runState'[u] = runState[u]
                            \/ u = owner[m] /\ signal_wait[u] = m /\ runState'[u] = "RUNNING"
      BY <1>0, <1>18, <2>1 DEF SysNotify, Wakes, TypeOK
    <2>3. m # NULL
      BY <2>1, NullAssumption
    <2>4. UNCHANGED <<owner, next, lock_next, after, target, pc, held>>
      BY <1>18 DEF SysNotify, callVars
    <2> QED BY <1>13, <1>17, <2>2, <2>3, <2>4
  <1>19. CASE InputInterrupt
    <2>1. \A u \in Thread : pc'[u] = pc[u] \/ (pc[u] = "hlt" /\ pc'[u] = "test")
      BY <1>0, <1>19, HltEnds DEF InputInterrupt
    <2> QED BY <1>13, <1>19, <2>1 DEF InputInterrupt, threadVars, callVars
  <1>20. CASE TimerInterrupt
    <2>1. /\ runState' = RunStateAtTick /\ pc' = EndHlt
          /\ UNCHANGED <<lock_next, owner, next, callVars, held>>
      BY <1>20 DEF TimerInterrupt
    <2>2. \A u \in Thread : pc'[u] = pc[u] \/ (pc[u] = "hlt" /\ pc'[u] = "test")
      BY <1>0, <2>1, HltEnds
    <2>3. \A u \in Thread : WokenByTick(u) => signal_wait[u] # NULL
      BY <1>0, NotifiedInProc, Kernel, NullAssumption, Pairs DEF WokenByTick, Wakes
    <2>4. \A u \in Thread : \/ runState'[u] = runState[u]
                            \/ ~ Blocked(u) /\ runState'[u] = "RUNNING"
      BY <1>17, <2>1, <2>3 DEF RunStateAtTick
    <2> QED BY <1>13, <2>1, <2>2, <2>4 DEF callVars
  <1> QED
    BY <1>2, <1>4, <1>5, <1>8, <1>10, <1>11, <1>12, <1>15, <1>16, <1>18, <1>19, <1>20
    DEF Next, KernelStep, UserStep, EventLoop

\* Every step keeps the queues exact.
LEMMA WaitStep == WaitInv /\ [Next]_vars => WaitInv'
  <1> SUFFICES ASSUME WaitInv, [Next]_vars PROVE Reached' /\ QueuesOwned'
    BY LockStep DEF WaitInv
  <1>0. LockInv
    BY DEF WaitInv
  <1>1. CASE NoLockStep
    BY <1>1, QuietQueues DEF NoLockStep, SameSleepers
  <1>2. ASSUME NEW t \in Thread, NEW l \in Lock, Takes(t, l) PROVE Reached' /\ QueuesOwned'
    BY <1>2, QuietQueues DEF Takes, SameSleepers, AcquireLock, LockIsFree
  <1>3. ASSUME NEW t \in Thread, NEW l \in Lock, Sleeps(t, l) PROVE Reached' /\ QueuesOwned'
    BY <1>3, QueueGrows DEF Sleeps
  <1>4. ASSUME NEW t \in Thread, NEW l \in Lock, HandsOn(t, l) PROVE Reached' /\ QueuesOwned'
    BY <1>4, QueueShrinks DEF HandsOn
  <1> QED BY <1>0, <1>1, <1>2, <1>3, <1>4, LockEffects DEF LockEffect

\* The list that lock() walks and unlock() shortens holds exactly the threads that
\* sleep on the lock, and the lock has an owner outside the list who will hand it
\* on: no sleeper is dropped from its queue, for any number of threads.
THEOREM NoWaiterLost == Spec => []WaitQueueExact
  <1>1. Init => WaitInv
    <2> SUFFICES ASSUME Init PROVE Reached /\ QueuesOwned
      BY LockInit DEF WaitInv
    <2>1. \A t \in Thread : ~ Blocked(t)
      BY DEF Init, Blocked
    <2>2. \A l \in Lock : Sleepers(l) = {}
      BY <2>1 DEF Sleepers
    <2> QED BY <2>2 DEF Reached, QueuesOwned
  <1>2. WaitInv => WaitQueueExact
    BY WaitersReached
  <1> QED BY <1>1, <1>2, WaitStep, PTL DEF Spec

\* monitor()'s early return for a lock that was not acquired is dead code: a
\* thread that has been woken in lock() owns the lock.
THEOREM WokenThreadOwns == Spec => []WokenOwnsLock
  <1>1. LockInv => WokenOwnsLock
    BY DEF LockInv
  <1> QED BY <1>1, LockInvariant, PTL
=============================================================================
