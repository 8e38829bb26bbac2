---------------------------- MODULE SharedQueue ----------------------------
(***************************************************************************)
(* SharedQueue of std/queue.h: the bounded lock-free queue between the     *)
(* interrupt handlers and threads that post events and the workers of the  *)
(* kernel event thread.                                                    *)
(*                                                                         *)
(* Every access to shared memory that another actor can observe is a step. *)
(* An interrupt handler, and a system call that has not enabled            *)
(* interrupts, enqueues in one step.  The k-th message accepted is the     *)
(* number k: its first word (msg_id, which is never 0) and the words after *)
(* it (data) carry k, so that a mixture of two messages shows.             *)
(***************************************************************************)
EXTENDS Integers, Sequences

CONSTANTS
  N,               \* max_size
  W,               \* modulus of ushort, the type of head and tail
  UINT,            \* modulus of uint
  MAX_RACE_TRIES,
  BATCH,           \* argument of dequeue() in the workers
  Producers,       \* threads that enqueue with interrupts on
  Consumers,       \* threads that run a worker
  MaxMsgs          \* bound: messages accepted

ASSUME SizesAssumption ==
  /\ N \in Nat \ {0} /\ W \in Nat /\ UINT \in Nat /\ N < W /\ W < UINT
  /\ BATCH \in Nat \ {0} /\ BATCH < W
  /\ MAX_RACE_TRIES \in Nat \ {0} /\ MaxMsgs \in Nat

ASSUME ActorsAssumption == Producers \cap Consumers = {}

VARIABLES
  q_locked,         \* [head, tail]: slots that are not free
  q_safe,           \* [head, tail]: slots that may be dequeued
  safe_tail_mtx, locked_head_mtx,
  queue,            \* the slots
  pc, snap, i, msg, \* program counter and locals of an actor
  num, range,       \* further locals of a consumer
  sent,             \* history: messages accepted
  got               \* history: messages handled, in order

Actor == Producers \cup Consumers
queueVars == <<q_locked, q_safe, safe_tail_mtx, locked_head_mtx, queue>>
localVars == <<pc, snap, i, msg, num, range>>
vars == <<queueVars, localVars, sent, got>>

QueueRange == [head : 0 .. W - 1, tail : 0 .. W - 1]
Message == [id : 0 .. MaxMsgs, data : 0 .. MaxMsgs]
Labels == {"idle", "retry", "cas", "write_id", "write_data", "gather", "size",
           "snapshot", "dequeue", "handle", "release", "collect"}

TypeOK ==
  /\ q_locked \in QueueRange /\ q_safe \in QueueRange
  /\ safe_tail_mtx \in {0, 1} /\ locked_head_mtx \in {0, 1}
  /\ queue \in [0 .. N - 1 -> Message]
  /\ pc \in [Actor -> Labels]
  /\ snap \in [Actor -> QueueRange]
  /\ i \in [Actor -> Nat]
  /\ msg \in [Actor -> 0 .. MaxMsgs]
  /\ num \in [Consumers -> Int]
  /\ range \in [Consumers -> QueueRange]
  /\ sent \in 0 .. MaxMsgs
  /\ got \in Seq(Message)

Empty == [head |-> 0, tail |-> 0]

Init ==
  /\ q_locked = Empty /\ q_safe = Empty
  /\ safe_tail_mtx = 0 /\ locked_head_mtx = 0
  /\ queue = [s \in 0 .. N - 1 |-> [id |-> 0, data |-> 0]]
  /\ pc = [a \in Actor |-> "idle"]
  /\ snap = [a \in Actor |-> Empty]
  /\ i = [a \in Actor |-> 0]
  /\ msg = [a \in Actor |-> 0]
  /\ num = [c \in Consumers |-> 0]
  /\ range = [c \in Consumers |-> Empty]
  /\ sent = 0
  /\ got = <<>>

\* ushort and uint arithmetic.  The operands of `tail - head` are promoted to
\* int: the difference is negative when the tail has wrapped and the head has
\* not, and a large number as a uint.
Ushort(n) == n % W
Uint(n) == n % UINT
Length(r) == Uint(r.tail - r.head)
Slot(k) == k % N

Goto(a, label) == pc' = [pc EXCEPT ![a] = label]
Set(f, a, v) == [f EXCEPT ![a] = v]

\* enqueue() returns, or run() does: the locals are gone.
EnqueueReturn(p) ==
  /\ Goto(p, "idle")
  /\ snap' = Set(snap, p, Empty)
  /\ i' = Set(i, p, 0)
  /\ msg' = Set(msg, p, 0)

Return(c) ==
  /\ Goto(c, "idle")
  /\ snap' = Set(snap, c, Empty)
  /\ i' = Set(i, c, 0)
  /\ num' = Set(num, c, 0)
  /\ range' = Set(range, c, Empty)

-----------------------------------------------------------------------------
(* enqueue() *)

IsFull(r) == Uint(Length(r) + 1) > N
Advance(r) == [r EXCEPT !.tail = Ushort(@ + 1)]

\* By an interrupt handler, or a system call with interrupts off.
EnqueueAtomic ==
  /\ sent < MaxMsgs
  /\ ~ IsFull(q_locked)
  /\ q_locked' = Advance(q_locked)
  /\ queue' = Set(queue, Slot(q_locked.tail), [id |-> sent + 1, data |-> sent + 1])
  /\ sent' = sent + 1
  /\ UNCHANGED <<q_safe, safe_tail_mtx, locked_head_mtx, localVars, got>>

\* By a thread: take a snapshot and give up when it is full ...
EnqueueSnapshot(p) ==
  /\ pc[p] \in {"idle", "retry"}
  /\ IF IsFull(q_locked)
     THEN EnqueueReturn(p)
     ELSE snap' = Set(snap, p, q_locked) /\ Goto(p, "cas") /\ UNCHANGED <<i, msg>>
  /\ UNCHANGED <<queueVars, num, range, sent, got>>

\* ... get an index by compare-and-swap, or try again ...
EnqueueCas(p) ==
  /\ pc[p] = "cas" /\ sent < MaxMsgs
  /\ IF q_locked = snap[p]
     THEN /\ q_locked' = Advance(snap[p])
          /\ sent' = sent + 1
          /\ msg' = Set(msg, p, sent + 1)
          /\ Goto(p, "write_id")
          /\ UNCHANGED <<snap, i>>
     ELSE /\ IF i[p] + 1 = MAX_RACE_TRIES
             THEN EnqueueReturn(p)
             ELSE /\ i' = Set(i, p, i[p] + 1)
                  /\ Goto(p, "retry")
                  /\ UNCHANGED <<snap, msg>>
          /\ UNCHANGED <<q_locked, sent>>
  /\ UNCHANGED <<q_safe, safe_tail_mtx, locked_head_mtx, queue, num, range, got>>

\* ... and copy the message, its first word first.
WriteId(p) ==
  /\ pc[p] = "write_id"
  /\ queue' = [queue EXCEPT ![Slot(snap[p].tail)].id = msg[p]]
  /\ Goto(p, "write_data")
  /\ UNCHANGED <<q_locked, q_safe, safe_tail_mtx, locked_head_mtx, snap, i, msg,
                 num, range, sent, got>>

WriteData(p) ==
  /\ pc[p] = "write_data"
  /\ queue' = [queue EXCEPT ![Slot(snap[p].tail)].data = msg[p]]
  /\ EnqueueReturn(p)
  /\ UNCHANGED <<q_locked, q_safe, safe_tail_mtx, locked_head_mtx, num, range,
                 sent, got>>

-----------------------------------------------------------------------------
(* gather_new_data(): num is q_size, compared as a uint, and i new_found *)

GatherBegin(c) ==
  /\ pc[c] = "idle"
  /\ IF safe_tail_mtx = 0
     THEN /\ safe_tail_mtx' = 1
          /\ num' = Set(num, c, Uint(q_locked.tail - q_safe.tail))
          /\ i' = Set(i, c, 0)
          /\ Goto(c, "gather")
     ELSE /\ Goto(c, "size")
          /\ UNCHANGED <<safe_tail_mtx, num, i>>
  /\ UNCHANGED <<q_locked, q_safe, locked_head_mtx, queue, snap, msg, range,
                 sent, got>>

\* Mutant: the newest slot is left out.
HasData_AllButNewest(c) == i[c] + 1 < num[c] /\ queue[Slot(q_safe.tail)].id # 0

HasData(c) == i[c] < num[c] /\ queue[Slot(q_safe.tail)].id # 0

GatherNext(c) ==
  /\ pc[c] = "gather" /\ HasData(c)
  /\ q_safe' = Advance(q_safe)
  /\ i' = Set(i, c, i[c] + 1)
  /\ UNCHANGED <<q_locked, safe_tail_mtx, locked_head_mtx, queue, pc, snap, msg,
                 num, range, sent, got>>

GatherEnd(c) ==
  /\ pc[c] = "gather" /\ ~ HasData(c)
  /\ safe_tail_mtx' = 0
  /\ Goto(c, "size")
  /\ i' = Set(i, c, 0)
  /\ num' = Set(num, c, 0)
  /\ UNCHANGED <<q_locked, q_safe, locked_head_mtx, queue, snap, msg, range, sent,
                 got>>

-----------------------------------------------------------------------------
(* run() of a worker: size(), dequeue(), the handlers, release() *)

SizeCheck(c) ==
  /\ pc[c] = "size"
  /\ IF Length(q_safe) = 0
     THEN Return(c)
     ELSE Goto(c, "snapshot") /\ UNCHANGED <<snap, i, num, range>>
  /\ UNCHANGED <<queueVars, msg, sent, got>>

DequeueBegin(c) ==
  /\ pc[c] = "snapshot"
  /\ snap' = Set(snap, c, q_safe)
  /\ i' = Set(i, c, 0)
  /\ num' = Set(num, c, BATCH)
  /\ Goto(c, "dequeue")
  /\ UNCHANGED <<queueVars, msg, range, sent, got>>

AtMost(n, len) == IF n > len THEN len ELSE n

DequeueReturn(c, r) ==
  /\ Goto(c, "handle")
  /\ range' = Set(range, c, r)
  /\ i' = Set(i, c, r.head)
  /\ snap' = Set(snap, c, Empty)
  /\ num' = Set(num, c, 0)

DequeueGivesUp(c) ==
  /\ pc[c] = "dequeue" /\ (Length(snap[c]) = 0 \/ i[c] = MAX_RACE_TRIES)
  /\ DequeueReturn(c, Empty)
  /\ UNCHANGED <<queueVars, msg, sent, got>>

DequeueCas(c) ==
  LET n == AtMost(num[c], Length(snap[c]))
      new_head == Ushort(snap[c].head + n)
  IN
  /\ pc[c] = "dequeue" /\ Length(snap[c]) # 0 /\ i[c] < MAX_RACE_TRIES
  /\ IF q_safe = snap[c]
     THEN /\ q_safe' = [snap[c] EXCEPT !.head = new_head]
          /\ DequeueReturn(c, [head |-> snap[c].head, tail |-> new_head])
     ELSE /\ snap' = Set(snap, c, q_safe)
          /\ num' = Set(num, c, n)
          /\ i' = Set(i, c, i[c] + 1)
          /\ UNCHANGED <<q_safe, range, pc>>
  /\ UNCHANGED <<q_locked, safe_tail_mtx, locked_head_mtx, queue, msg, sent, got>>

\* Mutant: the end of the range is taken for its last message.
InRange_Inclusive(c) == i[c] <= range[c].tail

\* The condition of the loops over a dequeued range, an int comparison.
InRange(c) == i[c] < range[c].tail

Handle(c) ==
  /\ pc[c] = "handle"
  /\ IF InRange(c)
     THEN /\ got' = Append(got, queue[Slot(i[c])])
          /\ i' = Set(i, c, i[c] + 1)
          /\ UNCHANGED pc
     ELSE /\ i' = Set(i, c, range[c].head)
          /\ Goto(c, "release")
          /\ UNCHANGED got
  /\ UNCHANGED <<queueVars, snap, msg, num, range, sent>>

ReleaseNext(c) ==
  /\ pc[c] = "release" /\ InRange(c)
  /\ queue' = [queue EXCEPT ![Slot(i[c])].id = 0]
  /\ i' = Set(i, c, i[c] + 1)
  /\ UNCHANGED <<q_locked, q_safe, safe_tail_mtx, locked_head_mtx, pc, snap, msg,
                 num, range, sent, got>>

-----------------------------------------------------------------------------
(* garbage_collect(): num is q_size, a signed int here *)

CollectBegin(c) ==
  /\ pc[c] = "release" /\ ~ InRange(c)
  /\ IF locked_head_mtx = 0
     THEN /\ locked_head_mtx' = 1
          /\ num' = Set(num, c, q_safe.head - q_locked.head)
          /\ i' = Set(i, c, 0)
          /\ Goto(c, "collect")
          /\ UNCHANGED <<snap, range>>
     ELSE Return(c) /\ UNCHANGED locked_head_mtx
  /\ UNCHANGED <<q_locked, q_safe, safe_tail_mtx, queue, msg, sent, got>>

\* Mutant: a slot is taken for released without looking at it.
IsReleased_Unchecked(c) == i[c] < num[c]

IsReleased(c) == i[c] < num[c] /\ queue[Slot(q_locked.head)].id = 0

CollectNext(c) ==
  /\ pc[c] = "collect" /\ IsReleased(c)
  /\ q_locked' = [q_locked EXCEPT !.head = Ushort(@ + 1)]
  /\ i' = Set(i, c, i[c] + 1)
  /\ UNCHANGED <<q_safe, safe_tail_mtx, locked_head_mtx, queue, pc, snap, msg,
                 num, range, sent, got>>

CollectEnd(c) ==
  /\ pc[c] = "collect" /\ ~ IsReleased(c)
  /\ locked_head_mtx' = 0
  /\ Return(c)
  /\ UNCHANGED <<q_locked, q_safe, safe_tail_mtx, queue, msg, sent, got>>

-----------------------------------------------------------------------------

Copy(p) == WriteId(p) \/ WriteData(p)
Enqueue(p) == EnqueueSnapshot(p) \/ EnqueueCas(p) \/ Copy(p)

Run(c) ==
  \/ GatherBegin(c) \/ GatherNext(c) \/ GatherEnd(c)
  \/ SizeCheck(c) \/ DequeueBegin(c) \/ DequeueGivesUp(c) \/ DequeueCas(c)
  \/ Handle(c) \/ ReleaseNext(c)
  \/ CollectBegin(c) \/ CollectNext(c) \/ CollectEnd(c)

Next ==
  \/ EnqueueAtomic
  \/ \E p \in Producers : Enqueue(p)
  \/ \E c \in Consumers : Run(c)

Spec == Init /\ [][Next]_vars

(***************************************************************************)
(* Fairness.  The event thread runs its workers again and again, and a     *)
(* thread that has been given an index gets the CPU back to copy its       *)
(* message.  Nobody is obliged to enqueue.                                 *)
(***************************************************************************)
FairSpec ==
  /\ Spec
  /\ \A c \in Consumers : WF_vars(Run(c))
  /\ \A p \in Producers : WF_vars(Copy(p))

-----------------------------------------------------------------------------
(* Properties of a queue whose indices have not wrapped: MaxMsgs < W *)

\* The four indices keep their order, and the locked range fits the queue.
RangesNested ==
  /\ q_locked.head <= q_safe.head /\ q_safe.head <= q_safe.tail
  /\ q_safe.tail <= q_locked.tail /\ q_locked.tail <= q_locked.head + N

\* What each part of the locked range holds: free slots are 0, a slot that may
\* be dequeued holds its own message, every other slot its message or 0.
SlotsOK ==
  \A k \in q_locked.head .. q_locked.head + N - 1 :
    LET id == queue[Slot(k)].id IN
    /\ k >= q_locked.tail => id = 0
    /\ k \in q_safe.head .. q_safe.tail - 1 => id = k + 1
    /\ id \in {0, k + 1}

\* A producer that won an index has the slot to itself until it has written
\* the first word.
ProducersOK ==
  /\ q_locked.tail = sent
  /\ \A p \in Producers : pc[p] = "write_id" =>
       /\ snap[p].tail \in q_safe.tail .. q_locked.tail - 1
       /\ msg[p] = snap[p].tail + 1
       /\ queue[Slot(snap[p].tail)].id = 0
       /\ \A r \in Producers : r # p /\ pc[r] = "write_id" =>
            snap[r].tail # snap[p].tail

\* The messages that c has dequeued and not released yet.
Claimed(c) ==
  IF pc[c] = "handle" THEN range[c].head .. range[c].tail - 1
  ELSE IF pc[c] = "release" THEN i[c] .. range[c].tail - 1
  ELSE {}

\* A claimed message is in its slot, behind q_safe.head, and claimed once.
ClaimsOK ==
  \A c \in Consumers :
    /\ \A k \in Claimed(c) :
         /\ k \in q_locked.head .. q_safe.head - 1
         /\ queue[Slot(k)].id = k + 1
         /\ \A d \in Consumers : d # c => k \notin Claimed(d)
    /\ pc[c] = "handle" => i[c] >= range[c].head
    /\ pc[c] = "dequeue" => num[c] > 0

\* The mutexes admit one consumer each, which counts within the ranges.
MutexesOK ==
  /\ \A c \in Consumers :
       /\ pc[c] = "gather" =>
            safe_tail_mtx = 1 /\ num[c] - i[c] + q_safe.tail <= q_locked.tail
       /\ pc[c] = "collect" =>
            locked_head_mtx = 1 /\ num[c] - i[c] + q_locked.head <= q_safe.head
  /\ \A c, d \in Consumers :
       pc[c] = pc[d] /\ pc[c] \in {"gather", "collect"} => c = d

\* The inductive invariant of the queue: no slot is reused before its message
\* has been handled and released, whatever the producers and the consumers do
\* between a snapshot and its compare-and-swap.
QueueInv ==
  /\ TypeOK /\ RangesNested /\ SlotsOK /\ ProducersOK /\ ClaimsOK /\ MutexesOK

\* Every message accepted is handled, also the last of a burst, whatever a
\* producer preempted in its copy and a second consumer do.
AllHandled ==
  \A k \in 1 .. MaxMsgs : sent >= k ~> \E j \in 1 .. Len(got) : got[j].id = k

\* head and tail "will wrap", and `tail - head` is still taken for "the correct
\* length": when the queue is full its consumer empties it, and enqueue()
\* accepts messages again.
FullQueueDrains == IsFull(q_locked) ~> ~ IsFull(q_locked)
=============================================================================
