------------------------------ MODULE Messages ------------------------------
(***************************************************************************)
(* From a user event to the program that reads it: the subscriptions of    *)
(* UserEventWorker, the message queue that the kernel shares with a        *)
(* process, the event thread of the shell, and the terminal that buffers   *)
(* keys for read().                                                        *)
(*                                                                         *)
(* Three threads work on a process's messages: the kernel event thread,    *)
(* the process's event thread, and its main thread in read().  Each is     *)
(* preempted between any two steps; system calls are one step.  The queue  *)
(* of user events is the channel that SharedQueue implements, and the      *)
(* sleep in monitor() ends when the signal is raised.  Indices do not wrap *)
(* here (MaxEvents stays below 2^16).                                      *)
(***************************************************************************)
EXTENDS Integers, Sequences, FiniteSets

CONSTANTS
  Procs,               \* user processes
  MAX_PROCS,           \* bound of the walk along a list of subscribers
  Events,              \* kinds of user events
  KEY,                 \* KEY_CHAR_DOWN, the kind the shell subscribes to
  Chars,               \* characters typed, with "NL" and "BS" among them
  BLOCKS, BITS,        \* the pool of subscriber nodes: blocks of bits
  MAX_EVENTS,          \* capacity of the kernel's queue of user events
  MAX_PROC_MSGS,       \* capacity of a process's queue
  BATCH,               \* argument of monitor() and dequeue() in event_thread()
  MAX_INPUT_BUFFER, MaxLine,
  MaxEvents            \* bound: events posted

ASSUME SizesAssumption ==
  /\ 0 \notin Procs /\ KEY \in Events /\ {"NL", "BS"} \subseteq Chars
  /\ {MAX_PROCS, BLOCKS, BITS, MAX_EVENTS, MAX_PROC_MSGS, BATCH, MAX_INPUT_BUFFER}
       \subseteq Nat \ {0}
  /\ MaxLine \in Nat \ {0, 1} /\ MaxEvents \in Nat

VARIABLES
  events, posted,      \* queue of user events; events posted so far
  focus,               \* pid of the top window, 0 for the kernel's
  nodes, event_subs,   \* nodes of the pool in use; subscribers, newest first
  sender,              \* kernel event thread: [pc, msg, to]
  msgQueue, msg_signal,        \* Environment::msgQueue and its semaphore
  receiver,            \* event thread of a process
  terminal, in_signal, \* GUITerminal and the semaphore of INPUT_MONITOR
  reader,              \* main thread of a process, in read()
  sent, handled,       \* history: messages sent to a process; handled by it
  overrun,             \* history: has an unread message been overwritten?
  stored, taken,       \* history: characters put into the input buffer; taken
  lost, missed         \* history: signals overwritten in monitor(), of MSG and INPUT

kernelVars == <<events, posted, focus, nodes, event_subs, sender>>
queueVars == <<msgQueue, msg_signal, sent, overrun>>
terminalVars == <<terminal, in_signal, stored>>
receiverVars == <<receiver, handled, lost>>
readerVars == <<reader, taken, missed>>
vars == <<kernelVars, queueVars, receiverVars, terminalVars, readerVars>>

\* Only keys carry a character.
Message == {m \in [event : Events, char : Chars] : m.event = KEY \/ m.char = "NL"}
NoMsg == [event |-> KEY, char |-> "NL"]
Resting(at) ==
  [pc |-> at, load |-> 0, num |-> 0, i |-> 0, end |-> 0, key |-> "NL"]
Node == (0 .. BLOCKS - 1) \X (0 .. BITS - 1)

Init ==
  /\ events = <<>> /\ posted = 0
  /\ focus = 0
  /\ nodes = {} /\ event_subs = [e \in Events |-> <<>>]
  /\ sender = [pc |-> "idle", msg |-> NoMsg, to |-> 0]
  /\ msgQueue = [p \in Procs |->
       [slot |-> [k \in 0 .. MAX_PROC_MSGS - 1 |-> NoMsg],
        locked_head |-> 0, safe_head |-> 0, tail |-> 0]]
  /\ msg_signal = [p \in Procs |-> 0]
  /\ receiver = [p \in Procs |-> Resting("subscribe")]
  /\ terminal = [p \in Procs |->
       [buf |-> [k \in 0 .. MAX_INPUT_BUFFER - 1 |-> "NL"], head |-> 0, tail |-> 0]]
  /\ in_signal = [p \in Procs |-> 0]
  /\ reader = [p \in Procs |-> [pc |-> "monitor", load |-> 0, char |-> "NL", len |-> 0]]
  /\ sent = [p \in Procs |-> <<>>] /\ handled = sent
  /\ overrun = [p \in Procs |-> FALSE]
  /\ stored = sent /\ taken = sent
  /\ lost = [p \in Procs |-> 0] /\ missed = lost

-----------------------------------------------------------------------------
(* Events, focus and subscriptions *)

\* new_user_event(): an event that finds the queue full is dropped.
NewUserEvent(m) ==
  /\ posted < MaxEvents
  /\ posted' = posted + 1
  /\ events' = IF Len(events) < MAX_EVENTS THEN Append(events, m) ELSE events
  /\ UNCHANGED <<focus, nodes, event_subs, sender, queueVars, receiverVars,
                 terminalVars, readerVars>>

\* A window of p, or of the kernel, comes to the top of the stack.
Focus(p) ==
  /\ focus # p
  /\ focus' = p
  /\ UNCHANGED <<events, posted, nodes, event_subs, sender, queueVars, receiverVars,
                 terminalVars, readerVars>>

\* lock_next_bit(): the first free bit of the first block, from `start` on, that
\* has one.  The search wraps around, but the index it checks against the number
\* of bits does not: a free bit in a block before `start` is not found.
FreeFrom(start) == {n \in Node \ nodes : n[1] >= start}

Before(m, n) == m[1] < n[1] \/ (m[1] = n[1] /\ m[2] <= n[2])

\* sub_proc_event(), a system call: push_head() on the list of the event.
Subscribe(p, e) ==
  \E start \in 0 .. BLOCKS - 1 :
    IF FreeFrom(start) = {}
    THEN UNCHANGED <<nodes, event_subs>>
    ELSE LET n == CHOOSE n \in FreeFrom(start) :
                    \A m \in FreeFrom(start) : Before(n, m)
         IN  /\ nodes' = nodes \cup {n}
             /\ event_subs' = [event_subs EXCEPT ![e] = <<p>> \o @]

\* SubscriberList::notify(target, msg) looks at MAX_PROCS nodes at most.
IsSubscribed(p, e) ==
  \E k \in 1 .. Len(event_subs[e]) : k <= MAX_PROCS /\ event_subs[e][k] = p

-----------------------------------------------------------------------------
(* The kernel event thread: UserEventWorker::run() and send_msg() *)

\* Every event goes to the process whose window is on top, if it subscribed.
TakeEvent ==
  /\ sender.pc = "idle" /\ events # <<>>
  /\ events' = Tail(events)
  /\ sender' = IF focus # 0 /\ IsSubscribed(focus, Head(events).event)
               THEN [pc |-> "write", msg |-> Head(events), to |-> focus]
               ELSE sender
  /\ UNCHANGED <<posted, focus, nodes, event_subs, queueVars, receiverVars,
                 terminalVars, readerVars>>

\* MsgQueue::enqueue(): write the slot, without a look at the head ...
EnqueueWrite ==
  LET p == sender.to  q == msgQueue[p] IN
  /\ sender.pc = "write"
  /\ msgQueue' = [msgQueue EXCEPT ![p].slot[q.tail % MAX_PROC_MSGS] = sender.msg]
  /\ overrun' = [overrun EXCEPT ![p] = @ \/ q.tail - q.locked_head >= MAX_PROC_MSGS]
  /\ sender' = [sender EXCEPT !.pc = "advance"]
  /\ UNCHANGED <<events, posted, focus, nodes, event_subs, msg_signal, sent, receiverVars,
                 terminalVars, readerVars>>

\* ... and move the tail, of q_locked and of q_safe, past it.
EnqueueAdvance ==
  LET p == sender.to IN
  /\ sender.pc = "advance"
  /\ msgQueue' = [msgQueue EXCEPT ![p].tail = @ + 1]
  /\ sent' = [sent EXCEPT ![p] = Append(@, sender.msg)]
  /\ sender' = [sender EXCEPT !.pc = "signal"]
  /\ UNCHANGED <<events, posted, focus, nodes, event_subs, msg_signal, overrun, receiverVars,
                 terminalVars, readerVars>>

RaiseSignal ==
  /\ sender.pc = "signal"
  /\ msg_signal' = [msg_signal EXCEPT ![sender.to] = @ + 1]
  /\ sender' = [pc |-> "idle", msg |-> NoMsg, to |-> 0]
  /\ UNCHANGED <<events, posted, focus, nodes, event_subs, msgQueue, sent, overrun,
                 receiverVars, terminalVars, readerVars>>

-----------------------------------------------------------------------------
(* The semaphore of a monitor *)

Lower_Unclamped(signal, diff) == signal - diff

\* mon->signal -= diff, and the clamp to 0.
Lower(signal, diff) == IF signal > diff THEN signal - diff ELSE 0

-----------------------------------------------------------------------------
(* The event thread of a process: event_thread() of the shell *)

Receives(p, from, to) ==
  /\ receiver[p].pc = from
  /\ receiver' = [receiver EXCEPT ![p].pc = to]

SubscribeKeys(p) ==
  /\ Receives(p, "subscribe", "monitor")
  /\ Subscribe(p, KEY)
  /\ UNCHANGED <<events, posted, focus, sender, queueVars, handled, lost, terminalVars,
                 readerVars>>

\* monitor(MSG_MONITOR, BATCH) sleeps while the signal is not positive; the
\* thread owns the monitor's lock from the first call on.
MonitorSleep(p) ==
  /\ msg_signal[p] <= 0
  /\ Receives(p, "monitor", "asleep")
  /\ UNCHANGED <<kernelVars, queueVars, handled, lost, terminalVars, readerVars>>

\* Woken by notify(MSG_MONITOR, 0); the subtraction runs with interrupts off.
MonitorWake(p) ==
  /\ msg_signal[p] > 0
  /\ Receives(p, "asleep", "size")
  /\ msg_signal' = [msg_signal EXCEPT ![p] = Lower(@, BATCH)]
  /\ UNCHANGED <<kernelVars, msgQueue, sent, overrun, handled, lost, terminalVars,
                 readerVars>>

\* Without a sleep lock() has left interrupts on: the signal is read ...
MonitorLoad(p) ==
  /\ receiver[p].pc = "monitor" /\ msg_signal[p] > 0
  /\ receiver' = [receiver EXCEPT ![p].pc = "subtract", ![p].load = msg_signal[p]]
  /\ UNCHANGED <<kernelVars, queueVars, handled, lost, terminalVars, readerVars>>

\* ... and written, over what a message signalled in between.
MonitorSubtract(p) ==
  /\ receiver[p].pc = "subtract"
  /\ receiver' = [receiver EXCEPT ![p].pc = "size", ![p].load = 0]
  /\ msg_signal' = [msg_signal EXCEPT ![p] = Lower(receiver[p].load, BATCH)]
  /\ lost' = [lost EXCEPT ![p] = @ + msg_signal[p] - receiver[p].load]
  /\ UNCHANGED <<kernelVars, msgQueue, sent, overrun, handled, terminalVars, readerVars>>

Unread(p) == msgQueue[p].tail - msgQueue[p].safe_head

\* MsgQueue::dequeue(): nothing to take, BATCH messages, or (num = 0) the size
\* that the queue has when it is read again.
DequeueSize(p) ==
  /\ receiver[p].pc = "size"
  /\ receiver' = [receiver EXCEPT
       ![p].pc = IF Unread(p) = 0 THEN "monitor" ELSE "take",
       ![p].num = IF BATCH <= Unread(p) THEN BATCH ELSE 0]
  /\ UNCHANGED <<kernelVars, queueVars, handled, lost, terminalVars, readerVars>>

Taken_TooMany(p) == Unread(p) + 1

Taken(p) == IF receiver[p].num = 0 THEN Unread(p) ELSE receiver[p].num

DequeueTake(p) ==
  LET old_head == msgQueue[p].safe_head IN
  /\ receiver[p].pc = "take"
  /\ msgQueue' = [msgQueue EXCEPT ![p].safe_head = @ + Taken(p)]
  /\ receiver' = [receiver EXCEPT ![p].pc = "handle", ![p].num = Taken(p),
                                  ![p].i = old_head, ![p].end = old_head + Taken(p)]
  /\ UNCHANGED <<kernelVars, msg_signal, sent, overrun, handled, lost, terminalVars,
                 readerVars>>

\* One round of the loop: get(i), and key_handler() for a key.
HandleMessage(p) ==
  LET r == receiver[p]
      msg == msgQueue[p].slot[r.i % MAX_PROC_MSGS]
  IN
  /\ r.pc = "handle" /\ r.i < r.end
  /\ receiver' = [receiver EXCEPT ![p].i = @ + 1, ![p].key = msg.char,
                                  ![p].pc = IF msg.event = KEY THEN "key" ELSE "handle"]
  /\ handled' = [handled EXCEPT ![p] = Append(@, msg)]
  /\ UNCHANGED <<kernelVars, queueVars, lost, terminalVars, readerVars>>

\* MsgQueue::release()
Release(p) ==
  LET r == receiver[p]  q == msgQueue[p] IN
  /\ r.pc = "handle" /\ r.i >= r.end
  /\ receiver' = [receiver EXCEPT ![p] = Resting("monitor")]
  /\ msgQueue' = IF r.num > q.safe_head - q.locked_head THEN msgQueue
                 ELSE [msgQueue EXCEPT ![p].locked_head = @ + r.num]
  /\ UNCHANGED <<kernelVars, msg_signal, sent, overrun, handled, lost, terminalVars,
                 readerVars>>

-----------------------------------------------------------------------------
(* GUITerminal::key_handler(), called by the event thread *)

InputFull_OffByOne(t) == t.tail - t.head > MAX_INPUT_BUFFER

InputFull(t) == t.tail - t.head >= MAX_INPUT_BUFFER

KeyDrop_Notifies(p) ==
  /\ InputFull(terminal[p])
  /\ Receives(p, "key", "notify")
  /\ UNCHANGED <<kernelVars, queueVars, handled, lost, terminalVars, readerVars>>

\* A key that finds the input buffer full is dropped.
KeyDrop(p) ==
  /\ InputFull(terminal[p])
  /\ Receives(p, "key", "handle")
  /\ UNCHANGED <<kernelVars, queueVars, handled, lost, terminalVars, readerVars>>

KeyStore(p) ==
  LET t == terminal[p] IN
  /\ ~InputFull(t)
  /\ Receives(p, "key", "tail")
  /\ terminal' = [terminal EXCEPT ![p].buf[t.tail % MAX_INPUT_BUFFER] = receiver[p].key]
  /\ UNCHANGED <<kernelVars, queueVars, handled, lost, in_signal, stored, readerVars>>

KeyTail(p) ==
  /\ Receives(p, "tail", "notify")
  /\ terminal' = [terminal EXCEPT ![p].tail = @ + 1]
  /\ stored' = [stored EXCEPT ![p] = Append(@, receiver[p].key)]
  /\ UNCHANGED <<kernelVars, queueVars, handled, lost, in_signal, readerVars>>

\* notify(INPUT_MONITOR, 1), a system call
KeyNotify(p) ==
  /\ Receives(p, "notify", "handle")
  /\ in_signal' = [in_signal EXCEPT ![p] = @ + 1]
  /\ UNCHANGED <<kernelVars, queueVars, handled, lost, terminal, stored, readerVars>>

-----------------------------------------------------------------------------
(* GUITerminal::read(), called by the main thread *)

Reads(p, from, to) ==
  /\ reader[p].pc = from
  /\ reader' = [reader EXCEPT ![p].pc = to]

\* monitor(INPUT_MONITOR, 1), as above
ReadSleep(p) ==
  /\ in_signal[p] <= 0
  /\ Reads(p, "monitor", "asleep")
  /\ UNCHANGED <<kernelVars, queueVars, receiverVars, terminalVars, taken, missed>>

ReadWake(p) ==
  /\ in_signal[p] > 0
  /\ Reads(p, "asleep", "char")
  /\ in_signal' = [in_signal EXCEPT ![p] = Lower(@, 1)]
  /\ UNCHANGED <<kernelVars, queueVars, receiverVars, terminal, stored, taken, missed>>

ReadLoad(p) ==
  /\ reader[p].pc = "monitor" /\ in_signal[p] > 0
  /\ reader' = [reader EXCEPT ![p].pc = "subtract", ![p].load = in_signal[p]]
  /\ UNCHANGED <<kernelVars, queueVars, receiverVars, terminalVars, taken, missed>>

ReadSubtract(p) ==
  /\ reader[p].pc = "subtract"
  /\ reader' = [reader EXCEPT ![p].pc = "char", ![p].load = 0]
  /\ in_signal' = [in_signal EXCEPT ![p] = Lower(reader[p].load, 1)]
  /\ missed' = [missed EXCEPT ![p] = @ + in_signal[p] - reader[p].load]
  /\ UNCHANGED <<kernelVars, queueVars, receiverVars, terminal, stored, taken>>

ReadChar(p) ==
  LET t == terminal[p]  c == t.buf[t.head % MAX_INPUT_BUFFER] IN
  /\ reader[p].pc = "char"
  /\ reader' = [reader EXCEPT ![p].pc = "head", ![p].char = c]
  /\ taken' = [taken EXCEPT ![p] = Append(@, c)]
  /\ UNCHANGED <<kernelVars, queueVars, receiverVars, terminalVars, missed>>

Capped_OffByOne(len, max) == IF len > max THEN max - 1 ELSE len

\* One cell of the line is given up when only the last one is free.
Capped(len, max) == IF len >= max - 1 THEN max - 2 ELSE len

\* The length of the line after character c.
Edited(len, c) ==
  CASE c = "BS" -> IF len > 0 THEN len - 1 ELSE 0
    [] c = "NL" -> len + 1
    [] OTHER    -> Capped(Capped(len, MaxLine), MAX_INPUT_BUFFER) + 1

\* The character joins the line; "NL" ends it, and the caller reads the next.
ReadHead(p) ==
  LET c == reader[p].char IN
  /\ reader[p].pc = "head"
  /\ terminal' = [terminal EXCEPT ![p].head = @ + 1]
  /\ reader' = [reader EXCEPT ![p].pc = IF c = "NL" THEN "return" ELSE "monitor",
                              ![p].len = Edited(@, c), ![p].char = "NL"]
  /\ UNCHANGED <<kernelVars, queueVars, receiverVars, in_signal, stored, taken, missed>>

\* unmonitor(INPUT_MONITOR), return len; the shell calls read() again.
ReadReturn(p) ==
  /\ reader[p].pc = "return"
  /\ reader' = [reader EXCEPT ![p].pc = "monitor", ![p].len = 0]
  /\ UNCHANGED <<kernelVars, queueVars, receiverVars, terminalVars, taken, missed>>

-----------------------------------------------------------------------------
Next ==
  \/ \E m \in Message : NewUserEvent(m)
  \/ \E p \in Procs \cup {0} : Focus(p)
  \/ TakeEvent \/ EnqueueWrite \/ EnqueueAdvance \/ RaiseSignal
  \/ \E p \in Procs :
       \/ SubscribeKeys(p) \/ MonitorSleep(p) \/ MonitorWake(p) \/ MonitorLoad(p)
       \/ MonitorSubtract(p) \/ DequeueSize(p) \/ DequeueTake(p) \/ HandleMessage(p)
       \/ Release(p) \/ KeyDrop(p) \/ KeyStore(p) \/ KeyTail(p) \/ KeyNotify(p)
       \/ ReadSleep(p) \/ ReadWake(p) \/ ReadLoad(p) \/ ReadSubtract(p)
       \/ ReadChar(p) \/ ReadHead(p) \/ ReadReturn(p)

Spec == Init /\ [][Next]_vars

-----------------------------------------------------------------------------
(* Properties *)

Bit(b) == IF b THEN 1 ELSE 0

\* Messages reach their handler in the order they were sent, none twice, none
\* left out and none read before enqueue() is through with it, as long as no
\* unread message was overwritten: enqueue() never looks whether the queue is
\* full (queue.h:63).
MessagesInOrder ==
  \A p \in Procs : ~overrun[p] =>
    /\ Len(handled[p]) <= Len(sent[p])
    /\ handled[p] = SubSeq(sent[p], 1, Len(handled[p]))

\* The semaphore of the messages never promises less than the queue holds, up to
\* the signals that monitor() overwrote: the event thread does not sleep on an
\* unread message because of the order in which send_msg() and dequeue() run.
UnreadSignalled ==
  \A p \in Procs :
    Unread(p) <= msg_signal[p] + lost[p] + Bit(sender.pc = "signal" /\ sender.to = p)
                   + (IF receiver[p].pc \in {"size", "take"} THEN BATCH ELSE 0)

\* Every character in the input buffer is accounted for by one notification of
\* INPUT_MONITOR: read() never takes a character that key_handler() has not
\* stored, and misses one only by a notification overwritten in monitor().
CharsSignalled ==
  \A p \in Procs :
    /\ in_signal[p] >= 0 /\ missed[p] >= 0
    /\ terminal[p].tail - terminal[p].head
         = in_signal[p] + missed[p] + Bit(receiver[p].pc = "notify")
             + Bit(reader[p].pc \in {"char", "head"})

\* read() returns the characters in the order they were typed: the writer and
\* the reader of the ring never use one cell at the same time.
CharsInOrder ==
  \A p \in Procs :
    /\ Len(taken[p]) <= Len(stored[p])
    /\ taken[p] = SubSeq(stored[p], 1, Len(taken[p]))

\* No character of a line is written past the caller's buffer.
LineFits == \A p \in Procs : reader[p].len <= MaxLine
=============================================================================
