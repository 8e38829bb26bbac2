----------------------------- MODULE Scheduler -----------------------------
(***************************************************************************)
(* Threads, locks, monitors and the timer-driven scheduler of the kernel:  *)
(* process.cpp, threads.cpp, scheduler.cpp, locks.cpp and the loop of the  *)
(* kernel event thread in events.cpp.                                      *)
(*                                                                         *)
(* There is one CPU.  Code between cli() and sti(), a system call before   *)
(* its first sti() and an interrupt handler run without interruption: each *)
(* is one step.  Between two steps the interrupt flag is set, so the timer *)
(* may strike in every state.  Where the source runs with interrupts on    *)
(* (Process::monitor after its call of lock()) each store is a step.       *)
(***************************************************************************)
EXTENDS Integers

CONSTANTS
  MAX_PROCS,         \* processes 0 .. MAX_PROCS-1; 0 is the kernel
  MAX_PROC_THREADS,  \* thread slots of a process
  LockHandles,       \* handles of Process::locks in use
  MonitorHandles,    \* handles of Process::monitors in use
  MSG_MONITOR,       \* the monitor whose signal counts messages
  Diffs,             \* arguments of the monitor and notify system calls
  UINT,              \* modulus of the unsigned num_running_threads
  MaxSignal,         \* bound: signals raised by system calls and messages
  MaxPending,        \* capacity of the kernel's event queues
  MaxDrain,          \* messages a pass of the kernel event loop consumes
  NULL               \* the null pointer

Proc   == 0 .. MAX_PROCS - 1
Slot   == 0 .. MAX_PROC_THREADS - 1
Thread == Proc \X Slot

\* A Monitor holds a Lock, so a monitor also names the lock inside it.
Handle  == LockHandles \cup MonitorHandles
Lock    == Proc \X Handle
Monitor == Proc \X MonitorHandles

ASSUME ConstantsAssumption ==
  /\ MAX_PROCS \in Nat \ {0} /\ MAX_PROC_THREADS \in Nat /\ MAX_PROC_THREADS > 1
  /\ MSG_MONITOR \in MonitorHandles
  /\ LockHandles \cap MonitorHandles = {}
  /\ Diffs \subseteq Nat
  /\ UINT \in Nat /\ UINT > 1
  /\ MaxSignal \in Nat /\ MaxDrain \in Nat \ {0}
  /\ MaxPending \in Nat /\ MaxPending > 1

ASSUME NullAssumption == NULL \notin Thread /\ NULL \notin Lock

IdleThread  == <<0, 0>>   \* the boot thread, parked in SPINHLT
EventThread == <<0, 1>>   \* kernelEvents, running enter_event_loop
MsgMonitor(p) == <<p, MSG_MONITOR>>

VARIABLES
  num_procs, proc_id, thisThread,
  thread_index, num_running_threads,      \* fields of Process
  runState, signal_wait, lock_next,       \* fields of Thread
  owner, next,                            \* fields of Lock
  signal,                                 \* field of Monitor
  pending,   \* messages in the kernel's event queues
  pc,        \* where a thread executes
  after,     \* where it goes on when yield() returns
  target, diff, loaded,  \* arguments and temporary of a pending call
  held       \* history: locks whose lock() call has returned to the thread

threadVars == <<runState, signal_wait, lock_next>>
callVars   == <<after, target, diff, loaded>>
schedVars  == <<num_procs, proc_id, thisThread, thread_index>>
vars == <<schedVars, num_running_threads, threadVars, owner, next, signal,
          pending, pc, callVars, held>>

RunStates == {"NULL", "RUNNING", "WAITING"}
MonitorLabels == {"mon_check", "mon_wait", "mon_sleep", "mon_dec", "mon_load",
                  "mon_store", "mon_sub"}
Labels == {"run", "work", "handle", "spin", "hlt", "test", "locked"}
            \cup MonitorLabels

TypeOK ==
  /\ num_procs \in 1 .. MAX_PROCS
  /\ proc_id \in Proc /\ proc_id < num_procs
  /\ thisThread \in Thread
  /\ thread_index \in [Proc -> Slot]
  /\ num_running_threads \in [Proc -> 0 .. UINT - 1]
  /\ runState \in [Thread -> RunStates]
  /\ signal_wait \in [Thread -> Monitor \cup {NULL}]
  /\ lock_next \in [Thread -> Thread \cup {NULL}]
  /\ owner \in [Lock -> Thread \cup {NULL}]
  /\ next \in [Lock -> Thread \cup {NULL}]
  /\ signal \in [Monitor -> Int]
  /\ pending \in 0 .. MaxPending
  /\ pc \in [Thread -> Labels]
  /\ after \in [Thread -> {"run", "locked", "mon_check", "mon_sub"}]
  /\ target \in [Thread -> Lock \cup {NULL}]
  /\ diff \in [Thread -> Int]
  /\ loaded \in [Thread -> Int]
  /\ held \in [Thread -> SUBSET Lock]

(***************************************************************************)
(* The state _start leaves behind: the boot thread parks itself as the     *)
(* idle thread, the event thread is ready, and two messages wait for it    *)
(* (the spawn callback and REDRAW_SCREEN).                                 *)
(***************************************************************************)
Init ==
  /\ num_procs = 1 /\ proc_id = 0 /\ thisThread = IdleThread
  /\ thread_index = [p \in Proc |-> 0]
  /\ num_running_threads = [p \in Proc |-> IF p = 0 THEN 1 ELSE 0]
  /\ runState = [t \in Thread |-> IF t = EventThread THEN "RUNNING"
                                  ELSE IF t = IdleThread THEN "WAITING"
                                  ELSE "NULL"]
  /\ signal_wait = [t \in Thread |-> NULL]
  /\ lock_next = [t \in Thread |-> NULL]
  /\ owner = [l \in Lock |-> NULL]
  /\ next = [l \in Lock |-> NULL]
  /\ pending = 2
  /\ signal = [m \in Monitor |-> IF m = MsgMonitor(0) THEN 2 ELSE 0]
  /\ pc = [t \in Thread |-> IF t = IdleThread THEN "spin" ELSE "run"]
  /\ after = [t \in Thread |-> "run"]
  /\ target = [t \in Thread |-> NULL]
  /\ diff = [t \in Thread |-> 0]
  /\ loaded = [t \in Thread |-> 0]
  /\ held = [t \in Thread |-> {}]

Inc(n) == (n + 1) % UINT
Dec_Signed(n) == n - 1   \* mutant: a signed counter
Dec(n) == (n + UINT - 1) % UINT
Clamp(s) == IF s < 0 THEN 0 ELSE s

\* Only the current thread executes.
Executes(t, label) == thisThread = t /\ pc[t] = label
Goto(t, label) == pc' = [pc EXCEPT ![t] = label]

\* The frame of a call is gone when the call returns.  A call of monitor()
\* returns to the event loop's work or to user code.
PopFrame(t) ==
  /\ after' = [after EXCEPT ![t] = "run"]
  /\ target' = [target EXCEPT ![t] = NULL]
  /\ diff' = [diff EXCEPT ![t] = 0]
  /\ loaded' = [loaded EXCEPT ![t] = 0]
Returns(t) == IF t = EventThread THEN "work" ELSE "run"

-----------------------------------------------------------------------------
(* Process::lock and Process::unlock *)

\* Mutant: the lock counts as free when nobody waits for it.
LockIsFree_NoWaiter(t, l) == next[l] = NULL

LockIsFree(t, l) == owner[l] \in {t, NULL}

AcquireLock(t, l) ==
  /\ LockIsFree(t, l)
  /\ owner' = [owner EXCEPT ![l] = t]
  /\ UNCHANGED <<next, lock_next, runState, num_running_threads>>

\* The nodes that the walk from lock->next along lock_next visits.
Waiters(l) ==
  {t \in Thread : \A S \in SUBSET Thread :
     ( /\ next[l] # NULL => next[l] \in S
       /\ \A u \in S : lock_next[u] # NULL => lock_next[u] \in S )
     => t \in S}

\* Mutant: a new waiter goes to the front of the queue.
EnqueueWaiter_Front(t, l) ==
  /\ ~ LockIsFree(t, l)
  /\ next' = [next EXCEPT ![l] = t]
  /\ lock_next' = [lock_next EXCEPT ![t] = next[l]]
  /\ runState' = [runState EXCEPT ![t] = "WAITING"]
  /\ num_running_threads' = [num_running_threads EXCEPT ![l[1]] = Dec(@)]
  /\ UNCHANGED owner

EnqueueWaiter(t, l) ==
  /\ ~ LockIsFree(t, l)
  /\ IF next[l] = NULL
     THEN /\ next' = [next EXCEPT ![l] = t]
          /\ lock_next' = [lock_next EXCEPT ![t] = NULL]
     ELSE /\ \E tnode \in Waiters(l) :
               /\ lock_next[tnode] = NULL
               /\ lock_next' = [lock_next EXCEPT ![t] = NULL, ![tnode] = t]
          /\ UNCHANGED next
  /\ runState' = [runState EXCEPT ![t] = "WAITING"]
  /\ num_running_threads' = [num_running_threads EXCEPT ![l[1]] = Dec(@)]
  /\ UNCHANGED owner

\* Mutant: the thread that gets the lock stays in the queue.
ReleaseLock_KeepsQueue(l) ==
  LET heir == next[l] IN
  /\ owner' = [owner EXCEPT ![l] = heir]
  /\ UNCHANGED <<next, lock_next>>
  /\ IF heir = NULL THEN UNCHANGED runState
     ELSE runState' = [runState EXCEPT ![heir] = "RUNNING"]

\* unlock() does not count the thread it wakes in num_running_threads.
ReleaseLock(l) ==
  LET heir == next[l] IN
  /\ owner' = [owner EXCEPT ![l] = heir]
  /\ IF heir = NULL
     THEN UNCHANGED <<next, lock_next, runState>>
     ELSE /\ runState' = [runState EXCEPT ![heir] = "RUNNING"]
          /\ next' = [next EXCEPT ![l] = lock_next[heir]]
          /\ lock_next' = [lock_next EXCEPT ![heir] = NULL]

-----------------------------------------------------------------------------
(* new_user_event, new_callback_event, new_display_msg: the signal is raised
   even when the queue is full and enqueue() has dropped the message.  The bound does
   not count the messages that the event loop has taken and will subtract. *)

Post(taken) ==
  /\ signal[MsgMonitor(0)] - taken < MaxSignal
  /\ pending' = IF pending < MaxPending THEN pending + 1 ELSE pending
  /\ signal' = [signal EXCEPT ![MsgMonitor(0)] = @ + 1]

-----------------------------------------------------------------------------
(* System calls of a user thread, each entered with interrupts off *)

SysLock(t, h) ==
  LET l == <<proc_id, h>> IN
  /\ Executes(t, "run") /\ t # EventThread
  /\ \/ /\ AcquireLock(t, l)
        /\ held' = [held EXCEPT ![t] = @ \cup {l}]
        /\ UNCHANGED <<pc, after, target>>
     \/ /\ EnqueueWaiter(t, l)
        /\ Goto(t, "hlt")
        /\ after' = [after EXCEPT ![t] = "locked"]
        /\ target' = [target EXCEPT ![t] = l]
        /\ UNCHANGED held
  /\ UNCHANGED <<schedVars, signal_wait, signal, pending, diff, loaded>>

\* lock() returns after its yield(), without looking at the owner again.
LockReturns(t) ==
  /\ Executes(t, "locked")
  /\ held' = [held EXCEPT ![t] = @ \cup {target[t]}]
  /\ Goto(t, "run") /\ PopFrame(t)
  /\ UNCHANGED <<schedVars, num_running_threads, threadVars, owner, next,
                 signal, pending>>

\* syscall_unlock and syscall_unmonitor.  unlock() does not look at the owner:
\* that its caller holds the lock is an assumption about user code.
SysUnlock(t, l) ==
  /\ Executes(t, "run") /\ t # EventThread
  /\ l[1] = proc_id /\ l \in held[t]
  /\ ReleaseLock(l)
  /\ held' = [held EXCEPT ![t] = @ \ {l}]
  /\ UNCHANGED <<schedVars, num_running_threads, signal_wait, signal,
                 pending, pc, callVars>>

Monitor_(t, m, d) ==
  /\ \/ /\ AcquireLock(t, m)
        /\ Goto(t, "mon_check")
        /\ UNCHANGED after
     \/ /\ EnqueueWaiter(t, m)
        /\ Goto(t, "hlt")
        /\ after' = [after EXCEPT ![t] = "mon_check"]
  /\ target' = [target EXCEPT ![t] = m]
  /\ diff' = [diff EXCEPT ![t] = d]
  /\ UNCHANGED <<schedVars, signal_wait, signal, pending, loaded, held>>

SysMonitor(t, h, d) ==
  /\ Executes(t, "run") /\ t # EventThread
  /\ Monitor_(t, <<proc_id, h>>, d)

\* Mutant: notify() does not ask what the owner is waiting for.
Wakes_AnyOwner(m, s) == s > 0 /\ owner[m] # NULL

\* The thread that Process::notify wakes once the signal is s.
Wakes(m, s) ==
  s > 0 /\ owner[m] # NULL /\ signal_wait[owner[m]] = m

\* Mutant: notify() leaves signal_wait set.
SysNotify_KeepsWait(t, h, d) ==
  LET m == <<proc_id, h>>
      s == signal[m] + d
  IN
  /\ Executes(t, "run") /\ t # EventThread
  /\ s <= MaxSignal
  /\ signal' = [signal EXCEPT ![m] = s]
  /\ IF Wakes(m, s)
     THEN /\ runState' = [runState EXCEPT ![owner[m]] = "RUNNING"]
          /\ num_running_threads' =
               [num_running_threads EXCEPT ![m[1]] = Inc(@)]
     ELSE UNCHANGED <<runState, num_running_threads>>
  /\ UNCHANGED <<schedVars, signal_wait, lock_next, owner, next, pending, pc,
                 callVars, held>>

SysNotify(t, h, d) ==
  LET m == <<proc_id, h>>
      s == signal[m] + d
  IN
  /\ Executes(t, "run") /\ t # EventThread
  /\ s <= MaxSignal
  /\ signal' = [signal EXCEPT ![m] = s]
  /\ IF Wakes(m, s)
     THEN /\ signal_wait' = [signal_wait EXCEPT ![owner[m]] = NULL]
          /\ runState' = [runState EXCEPT ![owner[m]] = "RUNNING"]
          /\ num_running_threads' =
               [num_running_threads EXCEPT ![m[1]] = Inc(@)]
     ELSE UNCHANGED <<signal_wait, runState, num_running_threads>>
  /\ UNCHANGED <<schedVars, lock_next, owner, next, pending, pc, callVars,
                 held>>

\* Mutant: the new thread is not counted.
StartThread_Uncounted(p, i) ==
  /\ runState[<<p, i>>] = "NULL"
  /\ \A j \in Slot : j < i => runState[<<p, j>>] # "NULL"
  /\ runState' = [runState EXCEPT ![<<p, i>>] = "RUNNING"]
  /\ signal_wait' = [signal_wait EXCEPT ![<<p, i>>] = NULL]
  /\ lock_next' = [lock_next EXCEPT ![<<p, i>>] = NULL]
  /\ UNCHANGED num_running_threads

\* new_user_thread for slot i of process p.
StartThread(p, i) ==
  /\ runState[<<p, i>>] = "NULL"
  /\ \A j \in Slot : j < i => runState[<<p, j>>] # "NULL"
  /\ runState' = [runState EXCEPT ![<<p, i>>] = "RUNNING"]
  /\ signal_wait' = [signal_wait EXCEPT ![<<p, i>>] = NULL]
  /\ lock_next' = [lock_next EXCEPT ![<<p, i>>] = NULL]
  /\ num_running_threads' = [num_running_threads EXCEPT ![p] = Inc(@)]

SysNewThread(t) ==
  /\ Executes(t, "run") /\ t # EventThread
  /\ \E i \in Slot : StartThread(proc_id, i)
  /\ UNCHANGED <<schedVars, owner, next, signal, pending, pc, callVars, held>>

\* gui_redraw_proc, for each window that it finds marked for redrawing.
SysRedrawGui(t) ==
  /\ Executes(t, "run") /\ t # EventThread
  /\ Post(0)
  /\ UNCHANGED <<schedVars, num_running_threads, threadVars, owner, next, pc,
                 callVars, held>>

SysYield(t) ==
  /\ Executes(t, "run") /\ t # EventThread
  /\ Goto(t, "hlt")
  /\ after' = [after EXCEPT ![t] = "run"]
  /\ UNCHANGED <<schedVars, num_running_threads, threadVars, owner, next,
                 signal, pending, target, diff, loaded, held>>

\* Mutant: yield() does not test runState again.
YieldTest_Once(t) ==
  /\ Executes(t, "test")
  /\ Goto(t, after[t])
  /\ UNCHANGED <<schedVars, num_running_threads, threadVars, owner, next,
                 signal, pending, callVars, held>>

\* The do-while of yield(): hlt again unless the thread is RUNNING.
YieldTest(t) ==
  /\ Executes(t, "test")
  /\ Goto(t, IF runState[t] = "RUNNING" THEN after[t] ELSE "hlt")
  /\ UNCHANGED <<schedVars, num_running_threads, threadVars, owner, next,
                 signal, pending, callVars, held>>

-----------------------------------------------------------------------------
(* Process::monitor after its call of lock(): interrupts are on *)

MonCheck(t) ==
  /\ Executes(t, "mon_check")
  /\ IF owner[target[t]] # t
     THEN Goto(t, Returns(t)) /\ PopFrame(t)
     ELSE /\ Goto(t, IF signal[target[t]] <= 0 THEN "mon_wait" ELSE "mon_load")
          /\ UNCHANGED callVars
  /\ UNCHANGED <<schedVars, num_running_threads, threadVars, owner, next,
                 signal, pending, held>>

MonSetWait(t) ==
  /\ Executes(t, "mon_wait")
  /\ signal_wait' = [signal_wait EXCEPT ![t] = target[t]]
  /\ Goto(t, "mon_sleep")
  /\ UNCHANGED <<schedVars, num_running_threads, runState, lock_next, owner,
                 next, signal, pending, callVars, held>>

MonSleep(t) ==
  /\ Executes(t, "mon_sleep")
  /\ runState' = [runState EXCEPT ![t] = "WAITING"]
  /\ Goto(t, "mon_dec")
  /\ UNCHANGED <<schedVars, num_running_threads, signal_wait, lock_next,
                 owner, next, signal, pending, callVars, held>>

MonDec(t) ==
  /\ Executes(t, "mon_dec")
  /\ num_running_threads' =
       [num_running_threads EXCEPT ![target[t][1]] = Dec(@)]
  /\ Goto(t, "hlt")
  /\ after' = [after EXCEPT ![t] = "mon_sub"]
  /\ UNCHANGED <<schedVars, threadVars, owner, next, signal, pending, target,
                 diff, loaded, held>>

\* After the wait: cli(), subtract, clamp, sti().
MonSub(t) ==
  /\ Executes(t, "mon_sub")
  /\ signal' = [signal EXCEPT ![target[t]] = Clamp(@ - diff[t])]
  /\ held' = [held EXCEPT ![t] = @ \cup {target[t]}]
  /\ Goto(t, Returns(t)) /\ PopFrame(t)
  /\ UNCHANGED <<schedVars, num_running_threads, threadVars, owner, next,
                 pending>>

\* Without a wait the same subtraction runs with interrupts on: a load and a
\* store that an interrupt may separate.
MonLoad(t) ==
  /\ Executes(t, "mon_load")
  /\ loaded' = [loaded EXCEPT ![t] = signal[target[t]]]
  /\ Goto(t, "mon_store")
  /\ UNCHANGED <<schedVars, num_running_threads, threadVars, owner, next,
                 signal, pending, after, target, diff, held>>

MonStore(t) ==
  /\ Executes(t, "mon_store")
  /\ signal' = [signal EXCEPT ![target[t]] = Clamp(loaded[t] - diff[t])]
  /\ held' = [held EXCEPT ![t] = @ \cup {target[t]}]
  /\ Goto(t, Returns(t)) /\ PopFrame(t)
  /\ UNCHANGED <<schedVars, num_running_threads, threadVars, owner, next,
                 pending>>

-----------------------------------------------------------------------------
(* The kernel event thread: enter_event_loop and the workers it runs *)

EvMonitor ==
  /\ Executes(EventThread, "run")
  /\ Monitor_(EventThread, MsgMonitor(0), 0)

\* The workers dequeue messages, as many as they find ready: the display worker
\* leaves its queue alone until its deadline ...
EvDequeue ==
  /\ Executes(EventThread, "work")
  /\ \E k \in 0 .. MaxDrain :
       /\ k <= pending
       /\ pending' = pending - k
       /\ loaded' = [loaded EXCEPT ![EventThread] = k]
  /\ Goto(EventThread, "handle")
  /\ UNCHANGED <<schedVars, num_running_threads, threadVars, owner, next,
                 signal, after, target, diff, held>>

Handles == Executes(EventThread, "handle") /\ loaded[EventThread] > 0

\* ... call their handlers, such as the spawn callback: new_user_process and
\* new_user_thread under cli().  proc_id moves to the new process while
\* thisThread stays with the event thread ...
Spawn ==
  /\ Handles
  /\ num_procs < MAX_PROCS
  /\ num_procs' = num_procs + 1
  /\ proc_id' = num_procs
  /\ StartThread(num_procs, 0)
  /\ UNCHANGED <<thisThread, thread_index, owner, next, signal, pending, pc,
                 callVars, held>>

\* ... or the user event worker, which sends the event on to a process with
\* Process::send_msg ...
SendMsg(p) ==
  /\ Handles
  /\ p \in 1 .. num_procs - 1
  /\ signal[MsgMonitor(p)] < MaxSignal
  /\ signal' = [signal EXCEPT ![MsgMonitor(p)] = @ + 1]
  /\ UNCHANGED <<schedVars, num_running_threads, threadVars, owner, next,
                 pending, pc, callVars, held>>

\* ... and post messages to the display worker ...
PostDisplayMsg ==
  /\ Handles
  /\ Post(loaded[EventThread])
  /\ UNCHANGED <<schedVars, num_running_threads, threadVars, owner, next, pc,
                 callVars, held>>

\* ... and take the messages off the signal.  The loop then yields.
EvSubtract ==
  /\ Executes(EventThread, "handle")
  /\ signal' = [signal EXCEPT ![MsgMonitor(0)] = @ - loaded[EventThread]]
  /\ Goto(EventThread, "hlt") /\ PopFrame(EventThread)
  /\ UNCHANGED <<schedVars, num_running_threads, threadVars, owner, next,
                 pending, held>>

-----------------------------------------------------------------------------
(* Interrupts *)

\* An interrupt ends a hlt instruction.  One that comes just before it delays the
\* thread until the next interrupt, as a late turn of the thread does here.
EndHlt == [pc EXCEPT ![thisThread] = IF @ = "hlt" THEN "test" ELSE @]

\* keyboard_interrupt and mouse_interrupt, for each event that they post.
InputInterrupt ==
  /\ Post(0)
  /\ pc' = EndHlt
  /\ UNCHANGED <<schedVars, num_running_threads, threadVars, owner, next,
                 callVars, held>>

\* The i-th process get_next_proc looks at.
Candidate(i) == (proc_id + i) % num_procs

\* num_running_threads of p once it has been notified on MSG_MONITOR.
Notified(p) ==
  IF Wakes(MsgMonitor(p), signal[MsgMonitor(p)])
  THEN Inc(num_running_threads[p])
  ELSE num_running_threads[p]

\* The candidate is reached and has running threads: get_next_proc picks it.
Picks(i) ==
  /\ Notified(Candidate(i)) > 0
  /\ \A j \in 1 .. num_procs - 1 : j < i => Notified(Candidate(j)) = 0

\* get_next_proc: the next process with running threads, or the kernel.
NextProc(p) ==
  \/ \E i \in 1 .. num_procs - 1 : Picks(i) /\ p = Candidate(i)
  \/ /\ \A i \in 1 .. num_procs - 1 : Notified(Candidate(i)) = 0
     /\ p = 0

\* The processes that get_next_proc has notified on its way.
NotifiedProcs ==
  {0} \cup {Candidate(i) : i \in {k \in 1 .. num_procs - 1 :
              \A j \in 1 .. num_procs - 1 : j < k => Notified(Candidate(j)) = 0}}

WokenByTick(t) ==
  \E p \in NotifiedProcs : /\ Wakes(MsgMonitor(p), signal[MsgMonitor(p)])
                           /\ t = owner[MsgMonitor(p)]

RunStateAtTick ==
  [t \in Thread |-> IF WokenByTick(t) THEN "RUNNING" ELSE runState[t]]

\* Mutant: the round starts at the current slot.
Distance_FromCurrent(p, i) ==
  (i + MAX_PROC_THREADS - thread_index[p]) % MAX_PROC_THREADS

\* Steps from slot thread_index+1 round to slot i.
Distance(p, i) == (i + 2 * MAX_PROC_THREADS - thread_index[p] - 1) % MAX_PROC_THREADS

\* Mutant: every slot that does not wait is taken for ready.
NextThread_NotWaiting(p, i, rs) ==
  \/ /\ rs[<<p, i>>] # "WAITING"
     /\ \A j \in Slot : rs[<<p, j>>] # "WAITING" => Distance(p, i) <= Distance(p, j)
  \/ /\ \A j \in Slot : rs[<<p, j>>] = "WAITING"
     /\ i = IF p = 0 THEN 0 ELSE thread_index[p]

\* get_next_thread of process p, in the run states rs.
NextThread(p, i, rs) ==
  \/ /\ rs[<<p, i>>] = "RUNNING"
     /\ \A j \in Slot : rs[<<p, j>>] = "RUNNING" => Distance(p, i) <= Distance(p, j)
  \/ /\ \A j \in Slot : rs[<<p, j>>] # "RUNNING"
     /\ i = IF p = 0 THEN 0 ELSE thread_index[p]

\* timer_interrupt: get_next_proc, set_proc, get_next_thread, set_thread.
TimerInterrupt ==
  \E p \in Proc, i \in Slot :
    /\ NextProc(p)
    /\ NextThread(p, i, RunStateAtTick)
    /\ runState' = RunStateAtTick
    /\ signal_wait' = [t \in Thread |-> IF WokenByTick(t) THEN NULL ELSE signal_wait[t]]
    /\ num_running_threads' =
         [q \in Proc |->
            IF q = p /\ \A j \in Slot : RunStateAtTick[<<p, j>>] # "RUNNING" THEN 0
            ELSE IF q \in NotifiedProcs THEN Notified(q)
            ELSE num_running_threads[q]]
    /\ proc_id' = p
    /\ thread_index' = [thread_index EXCEPT ![p] = i]
    /\ thisThread' = <<p, i>>
    /\ pc' = EndHlt
    /\ UNCHANGED <<num_procs, lock_next, owner, next, signal, pending,
                   callVars, held>>

-----------------------------------------------------------------------------

\* Kernel code that a scheduled thread runs through.
KernelStep(t) ==
  \/ LockReturns(t) \/ YieldTest(t)
  \/ MonCheck(t) \/ MonSetWait(t) \/ MonSleep(t) \/ MonDec(t)
  \/ MonSub(t) \/ MonLoad(t) \/ MonStore(t)

EventLoop == EvMonitor \/ EvDequeue \/ EvSubtract

\* What user code may choose to do.
UserStep(t) ==
  \/ \E h \in LockHandles : SysLock(t, h)
  \/ \E l \in Lock : SysUnlock(t, l)
  \/ \E h \in MonitorHandles, d \in Diffs : SysMonitor(t, h, d)
  \/ \E h \in MonitorHandles, d \in Diffs : SysNotify(t, h, d)
  \/ SysNewThread(t)
  \/ SysRedrawGui(t)
  \/ SysYield(t)

Next ==
  \/ \E t \in Thread : KernelStep(t) \/ UserStep(t)
  \/ EventLoop
  \/ Spawn \/ PostDisplayMsg \/ \E p \in Proc : SendMsg(p)
  \/ InputInterrupt \/ TimerInterrupt

Spec == Init /\ [][Next]_vars

(***************************************************************************)
(* Fairness.  The local APIC timer keeps ticking.  A thread that is given  *)
(* the CPU again and again executes at least one more instruction in some  *)
(* of its slices: strong fairness, because a tick may take the CPU away at *)
(* any time.  Users and devices owe nothing.                               *)
(***************************************************************************)
TickingSpec == Spec /\ WF_vars(TimerInterrupt)

FairSpec ==
  /\ TickingSpec
  /\ \A t \in Thread : SF_vars(KernelStep(t))
  /\ SF_vars(EventLoop)

-----------------------------------------------------------------------------
(* Properties *)

\* Where t is, or where it goes on when it leaves yield().
Resumes(t) == IF pc[t] \in {"hlt", "test"} THEN after[t] ELSE pc[t]

\* t sleeps in the yield() of lock().
Blocked(t) ==
  /\ pc[t] \in {"hlt", "test"} /\ after[t] \in {"locked", "mon_check"}
  /\ runState[t] = "WAITING"

\* The threads that sleep in lock() on l.
Sleepers(l) == {t \in Thread : Blocked(t) /\ target[t] = l}

\* A thread to which lock() or monitor() has returned is the owner of the
\* lock, whatever unlock() and the wake-ups by other threads and by the timer
\* have done meanwhile: lock() need not look at the owner again.
MutualExclusion == \A t \in Thread : \A l \in held[t] : owner[l] = t

\* A thread that is past its call of lock(), or has been woken in it, owns
\* the lock until it returns: monitor()'s early return for "if somehow we
\* didn't acquire the lock" is never taken.
WokenOwnsLock ==
  \A t \in Thread :
    Resumes(t) \in MonitorLabels \cup {"locked"} /\ ~ Blocked(t)
    => owner[target[t]] = t

\* The queue of a lock, walked as lock() walks it, holds exactly the threads
\* that sleep in lock() on that lock, and a lock with sleepers has an owner
\* who can wake them: no thread is lost or queued twice.
WaitQueueExact ==
  \A l \in Lock :
    /\ Waiters(l) = Sleepers(l)
    /\ Waiters(l) # {} => owner[l] \in Thread \ Waiters(l)

\* The pointers that form the queues: they join threads that sleep on the
\* same lock, and no thread is pointed to twice.
QueuePointers ==
  /\ \A l \in Lock : next[l] # NULL => Blocked(next[l]) /\ target[next[l]] = l
  /\ \A t \in Thread : lock_next[t] # NULL =>
       /\ Blocked(t) /\ Blocked(lock_next[t])
       /\ target[lock_next[t]] = target[t]
  /\ \A l \in Lock, t \in Thread : next[l] # NULL => lock_next[t] # next[l]
  /\ \A t, u \in Thread :
       lock_next[t] # NULL /\ lock_next[t] = lock_next[u] => t = u

\* A call waits for a lock or a monitor that exists.
TargetOK ==
  \A t \in Thread :
    /\ Resumes(t) \in MonitorLabels => target[t] \in Monitor
    /\ Resumes(t) = "locked" => target[t] \in Lock

\* Only a thread that goes to sleep on a monitor, or sleeps on it, waits for
\* its signal.
SignalWaitOK ==
  \A t \in Thread : signal_wait[t] # NULL =>
    \/ pc[t] = "mon_sleep"
    \/ pc[t] # "mon_sub" /\ Resumes(t) \in {"mon_dec", "mon_sub"}
         /\ runState[t] = "WAITING"

\* The inductive invariant behind the lock properties: whoever holds, or has
\* been handed, a lock is its owner, and the queues are what QueuePointers
\* says whatever the timer and the other threads do between two steps.
LockInv ==
  /\ TypeOK /\ TargetOK /\ SignalWaitOK
  /\ QueuePointers /\ WokenOwnsLock /\ MutualExclusion

\* The step that wakes a thread sleeping in lock() makes it the owner of the
\* lock, as the first of the lock's queue.
HandsOver(t) ==
  Blocked(t) /\ runState'[t] # "WAITING" =>
    /\ owner'[target[t]] = t
    /\ owner[target[t]] # t
    /\ next[target[t]] = t

\* notify(), from a system call or from the timer, never wakes a thread that
\* sleeps in lock(): such a thread runs again only as the lock's new owner.
OnlyUnlockWakesWaiters == [][\A t \in Thread : HandsOver(t)]_vars

\* The scheduler never switches to a thread slot that has no thread, also
\* when get_next_thread() falls back on the current slot of a process.
OnlyInitialisedRuns ==
  /\ runState[thisThread] # "NULL"
  /\ \A p \in Proc : p < num_procs => runState[<<p, thread_index[p]>>] # "NULL"

\* unlock() is to "release lock and wake the next waiting thread", and notify()
\* wakes a thread too: every thread that is ready is given the CPU.
ReadyThreadsRun ==
  \A t \in Thread : runState[t] = "RUNNING" ~> thisThread = t

\* The round robins of get_next_proc() and get_next_thread() give the CPU to
\* every ready thread of a process whose num_running_threads is not 0, however
\* lock(), monitor(), their wake-ups and the timer move the indices and counts.
CountedThreadsRun ==
  \A t \in Thread \ {IdleThread} :
    runState[t] = "RUNNING"
      ~> thisThread = t \/ runState[t] # "RUNNING" \/ num_running_threads[t[1]] = 0

\* In a user process that never takes a lock or a monitor the counts are right,
\* and every ready thread is given the CPU, whatever the other processes do.
LockFreeThreadsRun ==
  \A t \in {u \in Thread : u[1] # 0} :
    [](\A l \in Lock : l[1] = t[1] => owner[l] = NULL)
      => (runState[t] = "RUNNING" ~> thisThread = t)

\* "If there's a message thread and there are messages, unblock the waiting
\* thread": once the kernel's message signal is raised, the sleeping event
\* thread is woken.
MessagesWakeEventThread ==
  runState[EventThread] = "WAITING" /\ signal[MsgMonitor(0)] > 0
    ~> runState[EventThread] = "RUNNING"
=============================================================================
