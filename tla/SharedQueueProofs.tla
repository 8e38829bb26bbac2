------------------------- MODULE SharedQueueProofs -------------------------
(***************************************************************************)
(* The shared queue while its indices have not wrapped (MaxMsgs < W): its  *)
(* invariant, and the channel that it implements, for every capacity,      *)
(* every batch and any number of producers and consumers.                  *)
(*                                                                         *)
(* QueueInv becomes inductive with one more fact: a producer compares and  *)
(* swaps a snapshot that was not full.                                     *)
(***************************************************************************)
EXTENDS MCSharedQueue, FiniteSetTheorems, TLAPS

SnapsOK == \A p \in Producers : pc[p] = "cas" => ~ IsFull(snap[p])

IInv == QueueInv /\ SnapsOK

\* What SizesAssumption says, one fact at a time.
LEMMA Sizes ==
  /\ N \in Nat /\ N > 0 /\ W \in Nat /\ N < W /\ UINT \in Nat /\ W < UINT
  /\ BATCH \in Nat /\ BATCH > 0 /\ BATCH < W
  /\ MAX_RACE_TRIES \in Nat /\ MaxMsgs \in Nat
  BY SizesAssumption

-----------------------------------------------------------------------------
(* Indices and slots *)

\* An index below the modulus is not changed by the conversion.
LEMMA NoWrap ==
  /\ \A n \in 0 .. W - 1 : Ushort(n) = n
  /\ \A n \in 0 .. UINT - 1 : Uint(n) = n
  BY Sizes DEF Ushort, Uint

\* Conversions give members of their types.
LEMMA Conversions ==
  \A n \in Int : Ushort(n) \in 0 .. W - 1 /\ Uint(n) \in 0 .. UINT - 1 /\ Slot(n) \in 0 .. N - 1
  BY Sizes DEF Ushort, Uint, Slot

\* Indices less than a queue apart have different slots.
LEMMA SlotsApart ==
  ASSUME NEW j \in Int, NEW k \in Int, j < k, k - j < N
  PROVE  Slot(j) # Slot(k)
  <1> SUFFICES ASSUME j % N = k % N PROVE FALSE
    BY DEF Slot
  <1> DEFINE d == (k \div N) - (j \div N)
  <1>1. j = N * (j \div N) + (j % N) /\ k = N * (k \div N) + (k % N)
    BY Sizes
  <1>2. d \in Int
    BY Sizes
  <1>3. k - j = N * d
    BY <1>1, Sizes
  <1> HIDE DEF d
  <1>4. N * d > 0 /\ N * d < N
    BY <1>3
  <1>5. d > 0 /\ d < 1
    BY <1>2, <1>4, Sizes
  <1> QED BY <1>2, <1>5

\* An index and the one a queue further on share their slot.
LEMMA SlotAgain ==
  ASSUME NEW k \in Int
  PROVE  Slot(k + N) = Slot(k)
  <1> DEFINE d == (k + N) \div N
  <1>1. k + N = N * d + ((k + N) % N) /\ (k + N) % N \in 0 .. N - 1 /\ d \in Int
    BY Sizes
  <1>2. k = N * (k \div N) + (k % N) /\ k % N \in 0 .. N - 1 /\ k \div N \in Int
    BY Sizes
  <1> DEFINE e == (d - 1) - (k \div N)
             x == k % N
             y == (k + N) % N
  <1>3. N * e = x - y
    BY <1>1, <1>2, Sizes
  <1>4. e \in Int /\ x \in 0 .. N - 1 /\ y \in 0 .. N - 1
    BY <1>1, <1>2
  <1> HIDE DEF d, e, x, y
  <1>5. e < 1 /\ e > -1
    BY <1>3, <1>4, Sizes
  <1>6. x = y
    BY <1>3, <1>4, <1>5, Sizes
  <1> QED BY <1>6 DEF Slot, x, y

-----------------------------------------------------------------------------
(* What a step leaves alone. *)

\* A producer's step leaves the locals of the other actors alone.
LEMMA ProducerLocal ==
  ASSUME TypeOK, NEW p \in Producers, Enqueue(p)
  PROVE  /\ \A a \in Actor : a # p =>
              /\ pc'[a] = pc[a] /\ snap'[a] = snap[a] /\ i'[a] = i[a] /\ msg'[a] = msg[a]
         /\ UNCHANGED <<num, range, q_safe, safe_tail_mtx, locked_head_mtx, got>>
  BY DEF TypeOK, Enqueue, Copy, EnqueueSnapshot, EnqueueCas, WriteId, WriteData,
         EnqueueReturn, Goto, Set, queueVars

\* A consumer's step leaves the locals of the other actors alone.
LEMMA ConsumerLocal ==
  ASSUME TypeOK, NEW c \in Consumers, Run(c)
  PROVE  /\ \A a \in Actor : a # c => pc'[a] = pc[a] /\ snap'[a] = snap[a] /\ i'[a] = i[a]
         /\ \A d \in Consumers : d # c => num'[d] = num[d] /\ range'[d] = range[d]
         /\ UNCHANGED <<msg, sent>>
  <1>1. CASE GatherBegin(c) \/ GatherNext(c) \/ GatherEnd(c)
    BY <1>1 DEF TypeOK, GatherBegin, GatherNext, GatherEnd, Goto, Set
  <1>2. CASE SizeCheck(c) \/ DequeueBegin(c) \/ DequeueGivesUp(c) \/ DequeueCas(c)
    BY <1>2 DEF TypeOK, SizeCheck, DequeueBegin, DequeueGivesUp, DequeueCas, DequeueReturn,
                Return, Goto, Set
  <1>3. CASE Handle(c) \/ ReleaseNext(c)
    BY <1>3 DEF TypeOK, Handle, ReleaseNext, Goto, Set
  <1>4. CASE CollectBegin(c) \/ CollectNext(c) \/ CollectEnd(c)
    BY <1>4 DEF TypeOK, CollectBegin, CollectNext, CollectEnd, Return, Goto, Set
  <1> QED BY <1>1, <1>2, <1>3, <1>4 DEF Run

-----------------------------------------------------------------------------
(* Types *)

\* The initial state is typed.
LEMMA InitTypes == Init => TypeOK
  <1> SUFFICES ASSUME Init PROVE TypeOK
    OBVIOUS
  <1>1. Empty \in QueueRange /\ 0 \in 0 .. MaxMsgs
    BY Sizes DEF Empty, QueueRange
  <1>2. <<>> \in Seq(Message)
    OBVIOUS
  <1>3. queue \in [0 .. N - 1 -> Message]
    BY <1>1 DEF Init, Message
  <1> QED BY <1>1, <1>2, <1>3 DEF Init, TypeOK, Labels

\* Where a range goes, it stays one of ushorts.
LEMMA RangeTypes ==
  ASSUME NEW r \in QueueRange
  PROVE  /\ Empty \in QueueRange /\ Advance(r) \in QueueRange /\ Length(r) \in Nat
         /\ \A n \in Int : /\ Ushort(r.head + n) \in 0 .. W - 1
                           /\ [r EXCEPT !.head = Ushort(r.head + n)] \in QueueRange
                           /\ [head |-> r.head, tail |-> Ushort(r.head + n)] \in QueueRange
  <1>1. r.head \in 0 .. W - 1 /\ r.tail \in 0 .. W - 1 /\ 0 \in 0 .. W - 1
    BY Sizes DEF QueueRange
  <1>2. Ushort(r.tail + 1) \in 0 .. W - 1
    BY <1>1, Conversions
  <1>3. Advance(r) \in QueueRange /\ Empty \in QueueRange
    BY <1>1, <1>2 DEF Advance, QueueRange, Empty
  <1>4. Length(r) \in Nat
    BY <1>1, Conversions, Sizes DEF Length
  <1>5. ASSUME NEW n \in Int
        PROVE  /\ Ushort(r.head + n) \in 0 .. W - 1
               /\ [r EXCEPT !.head = Ushort(r.head + n)] \in QueueRange
               /\ [head |-> r.head, tail |-> Ushort(r.head + n)] \in QueueRange
    <2>1. Ushort(r.head + n) \in 0 .. W - 1
      BY <1>1, Conversions
    <2> QED BY <1>1, <2>1 DEF QueueRange
  <1> QED BY <1>3, <1>4, <1>5

\* An assignment to a local, or to a slot, keeps its type.
LEMMA SetType ==
  ASSUME TypeOK
  PROVE  /\ \A a : \A v \in QueueRange : Set(snap, a, v) \in [Actor -> QueueRange]
         /\ \A a : \A v \in QueueRange : Set(range, a, v) \in [Consumers -> QueueRange]
         /\ \A a : \A v \in Nat : Set(i, a, v) \in [Actor -> Nat]
         /\ \A a : \A v \in Int : Set(num, a, v) \in [Consumers -> Int]
         /\ \A a : \A v \in 0 .. MaxMsgs : Set(msg, a, v) \in [Actor -> 0 .. MaxMsgs]
         /\ \A s : \A v \in Message : Set(queue, s, v) \in [0 .. N - 1 -> Message]
  BY DEF TypeOK, Set

\* A jump keeps the type of the program counter.
LEMMA GotoType ==
  ASSUME TypeOK, NEW a, NEW l \in Labels, Goto(a, l)
  PROVE  pc' \in [Actor -> Labels]
  BY DEF TypeOK, Goto

\* enqueue() keeps the types.
LEMMA ProducerTypes ==
  ASSUME TypeOK, NEW p \in Producers, Enqueue(p)
  PROVE  TypeOK'
  <1>1. p \in Actor /\ snap[p] \in QueueRange /\ q_locked \in QueueRange /\ i[p] \in Nat
        /\ msg[p] \in 0 .. MaxMsgs
    BY DEF TypeOK, Actor
  <1>2. UNCHANGED <<num, range, q_safe, safe_tail_mtx, locked_head_mtx, got>>
    BY ProducerLocal
  <1>3. Empty \in QueueRange /\ Advance(snap[p]) \in QueueRange /\ 0 \in 0 .. MaxMsgs
    BY <1>1, RangeTypes, Sizes
  <1>t. pc \in [Actor -> Labels] /\ snap \in [Actor -> QueueRange] /\ i \in [Actor -> Nat]
        /\ msg \in [Actor -> 0 .. MaxMsgs]
    BY DEF TypeOK
  <1>r. ASSUME EnqueueReturn(p)
        PROVE  pc' \in [Actor -> Labels] /\ snap' \in [Actor -> QueueRange] /\ i' \in [Actor -> Nat]
               /\ msg' \in [Actor -> 0 .. MaxMsgs]
    <2>1. Goto(p, "idle") /\ "idle" \in Labels
      BY <1>r DEF EnqueueReturn, Labels
    <2>2. pc' \in [Actor -> Labels]
      BY <2>1, GotoType
    <2> QED BY <1>r, <1>t, <1>3, <2>2, SetType DEF EnqueueReturn
  <1>4. CASE EnqueueSnapshot(p)
    <2>1. UNCHANGED <<q_locked, queue, sent>>
      BY <1>4 DEF EnqueueSnapshot, queueVars
    <2>2. CASE IsFull(q_locked)
      BY <1>2, <1>4, <1>r, <2>1, <2>2 DEF TypeOK, EnqueueSnapshot
    <2>3. CASE ~ IsFull(q_locked)
      <3>1. snap' = Set(snap, p, q_locked) /\ Goto(p, "cas") /\ UNCHANGED <<i, msg>>
        BY <1>4, <2>3 DEF EnqueueSnapshot
      <3>2. "cas" \in Labels
        BY DEF Labels
      <3>3. pc' \in [Actor -> Labels] /\ snap' \in [Actor -> QueueRange]
        BY <1>1, <1>t, <3>1, <3>2, GotoType, SetType
      <3> QED BY <1>2, <2>1, <3>1, <3>3 DEF TypeOK
    <2> QED BY <2>2, <2>3
  <1>5. CASE EnqueueCas(p)
    <2>1. q_locked' \in QueueRange /\ queue' = queue
      BY <1>1, <1>3, <1>5 DEF EnqueueCas
    <2>2. sent' \in 0 .. MaxMsgs /\ msg' \in [Actor -> 0 .. MaxMsgs]
      <3>1. sent + 1 \in 0 .. MaxMsgs
        BY <1>5, Sizes DEF EnqueueCas, TypeOK
      <3> QED BY <1>3, <1>5, <3>1 DEF TypeOK, EnqueueCas, EnqueueReturn, Set
    <2>3. pc' \in [Actor -> Labels]
      BY <1>5 DEF TypeOK, EnqueueCas, EnqueueReturn, Goto, Labels
    <2>4. snap' \in [Actor -> QueueRange] /\ i' \in [Actor -> Nat]
      <3>1. \/ EnqueueReturn(p)
            \/ snap' = snap /\ i' = i
            \/ snap' = snap /\ i' = Set(i, p, i[p] + 1)
        BY <1>5 DEF EnqueueCas
      <3>2. i[p] + 1 \in Nat
        BY <1>1
      <3> QED BY <1>r, <1>t, <3>1, <3>2, SetType
    <2> QED BY <1>2, <2>1, <2>2, <2>3, <2>4 DEF TypeOK
  <1>6. CASE Copy(p)
    <2>1. Slot(snap[p].tail) \in 0 .. N - 1
      BY <1>1, Conversions, Sizes DEF QueueRange
    <2>2. queue' \in [0 .. N - 1 -> Message]
      <3>1. queue[Slot(snap[p].tail)] \in Message
        BY <2>1 DEF TypeOK
      <3>2. /\ [queue[Slot(snap[p].tail)] EXCEPT !.id = msg[p]] \in Message
            /\ [queue[Slot(snap[p].tail)] EXCEPT !.data = msg[p]] \in Message
        BY <1>1, <3>1 DEF Message
      <3> QED BY <1>6, <3>2 DEF TypeOK, Copy, WriteId, WriteData
    <2>3. /\ pc' \in [Actor -> Labels] /\ snap' \in [Actor -> QueueRange]
          /\ i' \in [Actor -> Nat] /\ msg' \in [Actor -> 0 .. MaxMsgs]
      <3>1. \/ EnqueueReturn(p)
            \/ Goto(p, "write_data") /\ UNCHANGED <<snap, i, msg>>
        BY <1>6 DEF Copy, WriteId, WriteData
      <3>2. "write_data" \in Labels
        BY DEF Labels
      <3> QED BY <1>r, <1>t, <3>1, <3>2, GotoType
    <2>4. UNCHANGED <<q_locked, sent>>
      BY <1>6 DEF Copy, WriteId, WriteData
    <2> QED BY <1>2, <2>2, <2>3, <2>4 DEF TypeOK
  <1> QED BY <1>4, <1>5, <1>6 DEF Enqueue

\* The kernel event thread keeps the types.
LEMMA ConsumerTypes ==
  ASSUME TypeOK, NEW c \in Consumers, Run(c)
  PROVE  TypeOK'
  <1>1. /\ c \in Actor /\ snap[c] \in QueueRange /\ q_locked \in QueueRange /\ q_safe \in QueueRange
        /\ i[c] \in Nat /\ num[c] \in Int /\ range[c] \in QueueRange
    BY DEF TypeOK, Actor
  <1>2. /\ pc \in [Actor -> Labels] /\ snap \in [Actor -> QueueRange] /\ i \in [Actor -> Nat]
        /\ num \in [Consumers -> Int] /\ range \in [Consumers -> QueueRange]
    BY DEF TypeOK
  <1>3. UNCHANGED <<msg, sent>>
    BY ConsumerLocal
  <1>4. Empty \in QueueRange
    BY <1>1, RangeTypes
  <1>5. /\ q_locked.head \in Nat /\ q_locked.tail \in Nat /\ q_safe.head \in Nat
        /\ q_safe.tail \in Nat /\ range[c].head \in Nat /\ snap[c].head \in Nat
    BY <1>1, Sizes DEF QueueRange
  <1>l. {"idle", "gather", "size", "snapshot", "dequeue", "handle", "release", "collect"}
          \subseteq Labels
    BY DEF Labels
  <1>m. i[c] + 1 \in Nat
    BY <1>1
  <1>6. ASSUME Return(c)
        PROVE  pc' \in [Actor -> Labels] /\ snap' \in [Actor -> QueueRange] /\ i' \in [Actor -> Nat]
               /\ num' \in [Consumers -> Int] /\ range' \in [Consumers -> QueueRange]
    BY <1>2, <1>4, <1>6, <1>l, GotoType, SetType DEF Return
  <1>7. CASE GatherBegin(c)
    <2>1. Uint(q_locked.tail - q_safe.tail) \in Int
      BY <1>5, Conversions, Sizes
    <2>2. safe_tail_mtx' \in {0, 1}
      BY <1>7 DEF GatherBegin, TypeOK
    <2>3. pc' \in [Actor -> Labels] /\ num' \in [Consumers -> Int] /\ i' \in [Actor -> Nat]
      BY <1>2, <1>7, <1>l, <2>1, GotoType, SetType DEF GatherBegin
    <2> QED BY <1>7, <2>2, <2>3 DEF TypeOK, GatherBegin
  <1>8. CASE GatherNext(c)
    <2>1. Advance(q_safe) \in QueueRange
      BY <1>1, RangeTypes
    <2>2. i' \in [Actor -> Nat]
      BY <1>2, <1>8, <1>m, SetType DEF GatherNext
    <2> QED BY <1>8, <2>1, <2>2 DEF TypeOK, GatherNext
  <1>9. CASE GatherEnd(c)
    <2>1. pc' \in [Actor -> Labels] /\ num' \in [Consumers -> Int] /\ i' \in [Actor -> Nat]
      BY <1>2, <1>9, <1>l, GotoType, SetType DEF GatherEnd
    <2> QED BY <1>9, <2>1 DEF TypeOK, GatherEnd
  <1>10. CASE SizeCheck(c)
    <2>1. pc' \in [Actor -> Labels] /\ snap' \in [Actor -> QueueRange] /\ i' \in [Actor -> Nat]
          /\ num' \in [Consumers -> Int] /\ range' \in [Consumers -> QueueRange]
      BY <1>2, <1>6, <1>10, <1>l, GotoType DEF SizeCheck
    <2> QED BY <1>10, <2>1 DEF TypeOK, SizeCheck, queueVars
  <1>11. CASE DequeueBegin(c)
    <2>1. pc' \in [Actor -> Labels] /\ snap' \in [Actor -> QueueRange] /\ i' \in [Actor -> Nat]
          /\ num' \in [Consumers -> Int]
      BY <1>1, <1>2, <1>11, <1>l, GotoType, SetType, Sizes DEF DequeueBegin
    <2> QED BY <1>11, <2>1 DEF TypeOK, DequeueBegin, queueVars
  <1>12. ASSUME NEW r \in QueueRange, DequeueReturn(c, r)
         PROVE  pc' \in [Actor -> Labels] /\ snap' \in [Actor -> QueueRange] /\ i' \in [Actor -> Nat]
                /\ num' \in [Consumers -> Int] /\ range' \in [Consumers -> QueueRange]
    <2>1. r.head \in Nat
      BY Sizes DEF QueueRange
    <2> QED BY <1>2, <1>4, <1>12, <1>l, <2>1, GotoType, SetType DEF DequeueReturn
  <1>13. CASE DequeueGivesUp(c)
    BY <1>4, <1>12, <1>13 DEF TypeOK, DequeueGivesUp, queueVars
  <1>14. CASE DequeueCas(c)
    <2> DEFINE n == AtMost(num[c], Length(snap[c]))
               r == [head |-> snap[c].head, tail |-> Ushort(snap[c].head + n)]
    <2>1. n \in Int
      BY <1>1, RangeTypes DEF AtMost
    <2>2. r \in QueueRange /\ [snap[c] EXCEPT !.head = Ushort(snap[c].head + n)] \in QueueRange
      BY <1>1, <2>1, RangeTypes
    <2>3. CASE q_safe = snap[c]
      <3>1. q_safe' \in QueueRange /\ DequeueReturn(c, r)
        BY <1>14, <2>2, <2>3 DEF DequeueCas
      <3> HIDE DEF r, n
      <3> QED BY <1>12, <1>14, <2>2, <3>1 DEF TypeOK, DequeueCas
    <2>4. CASE q_safe # snap[c]
      <3>1. snap' = Set(snap, c, q_safe) /\ num' = Set(num, c, n) /\ i' = Set(i, c, i[c] + 1)
            /\ UNCHANGED <<q_safe, range, pc>>
        BY <1>14, <2>4 DEF DequeueCas
      <3> HIDE DEF r, n
      <3>2. snap' \in [Actor -> QueueRange] /\ i' \in [Actor -> Nat] /\ num' \in [Consumers -> Int]
        BY <1>1, <1>2, <1>m, <2>1, <3>1, SetType
      <3> QED BY <1>14, <3>1, <3>2 DEF TypeOK, DequeueCas
    <2> QED BY <2>3, <2>4
  <1>15. CASE Handle(c)
    <2>1. i' \in [Actor -> Nat] /\ pc' \in [Actor -> Labels]
      <3>1. \/ i' = Set(i, c, i[c] + 1) /\ pc' = pc
            \/ i' = Set(i, c, range[c].head) /\ Goto(c, "release")
        BY <1>15 DEF Handle
      <3> QED BY <1>2, <1>5, <1>l, <1>m, <3>1, SetType, GotoType
    <2>2. got' \in Seq(Message)
      <3>1. queue[Slot(i[c])] \in Message
        <4>1. Slot(i[c]) \in 0 .. N - 1
          BY <1>1, Conversions
        <4> QED BY <4>1 DEF TypeOK
      <3>2. Append(got, queue[Slot(i[c])]) \in Seq(Message)
        BY <3>1 DEF TypeOK
      <3> QED BY <1>15, <3>2 DEF Handle, TypeOK
    <2> QED BY <1>15, <2>1, <2>2 DEF TypeOK, Handle, queueVars
  <1>16. CASE ReleaseNext(c)
    <2>1. Slot(i[c]) \in 0 .. N - 1
      BY <1>1, Conversions
    <2>2. [queue[Slot(i[c])] EXCEPT !.id = 0] \in Message
      <3>1. queue[Slot(i[c])] \in Message /\ 0 \in 0 .. MaxMsgs
        BY <2>1, Sizes DEF TypeOK
      <3> QED BY <3>1 DEF Message
    <2>3. queue' \in [0 .. N - 1 -> Message]
      BY <1>16, <2>2 DEF TypeOK, ReleaseNext
    <2>4. i' \in [Actor -> Nat]
      BY <1>2, <1>16, <1>m, SetType DEF ReleaseNext
    <2> QED BY <1>16, <2>3, <2>4 DEF TypeOK, ReleaseNext
  <1>17. CASE CollectBegin(c)
    <2>1. q_safe.head - q_locked.head \in Int
      BY <1>5
    <2>2. pc' \in [Actor -> Labels] /\ snap' \in [Actor -> QueueRange] /\ i' \in [Actor -> Nat]
          /\ num' \in [Consumers -> Int] /\ range' \in [Consumers -> QueueRange]
      BY <1>2, <1>6, <1>17, <1>l, <2>1, GotoType, SetType DEF CollectBegin
    <2>3. locked_head_mtx' \in {0, 1}
      BY <1>17 DEF CollectBegin, TypeOK
    <2> QED BY <1>17, <2>2, <2>3 DEF TypeOK, CollectBegin
  <1>18. CASE CollectNext(c)
    <2>1. q_locked' \in QueueRange
      <3>1. q_locked' = [q_locked EXCEPT !.head = Ushort(q_locked.head + 1)]
        BY <1>18 DEF CollectNext
      <3>2. 1 \in Int
        OBVIOUS
      <3> QED BY <1>1, <3>1, <3>2, RangeTypes
    <2>2. i' \in [Actor -> Nat]
      BY <1>2, <1>18, <1>m, SetType DEF CollectNext
    <2> QED BY <1>18, <2>1, <2>2 DEF TypeOK, CollectNext
  <1>19. CASE CollectEnd(c)
    BY <1>6, <1>19 DEF TypeOK, CollectEnd
  <1> QED BY <1>7, <1>8, <1>9, <1>10, <1>11, <1>13, <1>14, <1>15, <1>16, <1>17, <1>18, <1>19
          DEF Run

\* TypeOK is inductive.
LEMMA TypesKept ==
  ASSUME TypeOK, [Next]_vars
  PROVE  TypeOK'
  <1>1. CASE EnqueueAtomic
    <2>1. q_locked' \in QueueRange
      BY <1>1, RangeTypes DEF EnqueueAtomic, TypeOK
    <2>2. sent + 1 \in 0 .. MaxMsgs
      BY <1>1, Sizes DEF EnqueueAtomic, TypeOK
    <2>3. [id |-> sent + 1, data |-> sent + 1] \in Message
      BY <2>2 DEF Message
    <2>4. queue' \in [0 .. N - 1 -> Message]
      BY <1>1, <2>3, SetType DEF EnqueueAtomic, TypeOK
    <2> QED BY <1>1, <2>1, <2>2, <2>4 DEF EnqueueAtomic, TypeOK, localVars
  <1>2. CASE UNCHANGED vars
    BY <1>2 DEF vars, queueVars, localVars, TypeOK
  <1> QED BY <1>1, <1>2, ProducerTypes, ConsumerTypes DEF Next

-----------------------------------------------------------------------------
(* The invariant, part by part. *)

\* What the indices are while none has wrapped.
LEMMA Indices ==
  ASSUME TypeOK, RangesNested, ProducersOK, MaxMsgs < W
  PROVE  /\ q_locked.head \in Nat /\ q_locked.tail \in Nat
         /\ q_safe.head \in Nat /\ q_safe.tail \in Nat
         /\ Length(q_safe) = q_safe.tail - q_safe.head
         /\ IsFull(q_locked) <=> q_locked.tail - q_locked.head >= N
         /\ sent < MaxMsgs => Advance(q_locked) = [q_locked EXCEPT !.tail = @ + 1]
         /\ q_safe.tail < q_locked.tail => Advance(q_safe) = [q_safe EXCEPT !.tail = @ + 1]
         /\ \A n \in Nat : q_safe.head + n <= q_safe.tail =>
              Ushort(q_safe.head + n) = q_safe.head + n
         /\ q_locked.head < q_safe.head => Ushort(q_locked.head + 1) = q_locked.head + 1
         /\ Uint(q_locked.tail - q_safe.tail) = q_locked.tail - q_safe.tail
  <1> DEFINE lh == q_locked.head
             lt == q_locked.tail
             sh == q_safe.head
             st == q_safe.tail
  <1>1. /\ lh \in Nat /\ lt \in Nat /\ sh \in Nat /\ st \in Nat
        /\ lh < W /\ lt < W /\ sh < W /\ st < W
    BY Sizes DEF TypeOK, QueueRange
  <1>2. lh <= sh /\ sh <= st /\ st <= lt /\ lt <= lh + N /\ lt = sent /\ sent <= MaxMsgs
    BY DEF RangesNested, ProducersOK, TypeOK
  <1>3. Length(q_locked) = lt - lh /\ Length(q_safe) = st - sh /\ Uint(lt - st) = lt - st
    <2>1. lt - lh \in 0 .. UINT - 1 /\ st - sh \in 0 .. UINT - 1 /\ lt - st \in 0 .. UINT - 1
      BY <1>1, <1>2, Sizes
    <2> QED BY <2>1, NoWrap DEF Length
  <1>4. IsFull(q_locked) <=> lt - lh >= N
    <2>1. (lt - lh) + 1 \in 0 .. UINT - 1
      BY <1>1, <1>2, Sizes
    <2>2. IsFull(q_locked) <=> (lt - lh) + 1 > N
      BY <1>3, <2>1, NoWrap DEF IsFull
    <2> QED BY <1>1, <2>2, Sizes
  <1>5. sent < MaxMsgs => Ushort(lt + 1) = lt + 1
    BY <1>1, <1>2, NoWrap, Sizes
  <1>6. st < lt => Ushort(st + 1) = st + 1
    BY <1>1, <1>2, NoWrap, Sizes
  <1>7. lh < sh => Ushort(lh + 1) = lh + 1
    BY <1>1, <1>2, NoWrap, Sizes
  <1>8. \A n \in Nat : sh + n <= st => Ushort(sh + n) = sh + n
    BY <1>1, <1>2, NoWrap, Sizes
  <1> QED BY <1>1, <1>3, <1>4, <1>5, <1>6, <1>7, <1>8 DEF Advance

\* A step that leaves the indices and the first words alone.
LEMMA QuietSlots ==
  ASSUME RangesNested, SlotsOK, UNCHANGED <<q_locked, q_safe>>, TypeOK,
         \A s \in 0 .. N - 1 : queue'[s].id = queue[s].id
  PROVE  RangesNested' /\ SlotsOK'
  <1>1. RangesNested'
    BY DEF RangesNested
  <1>2. \A k \in q_locked.head .. q_locked.head + N - 1 : Slot(k) \in 0 .. N - 1
    BY Conversions
  <1>3. SlotsOK'
    BY <1>2 DEF SlotsOK
  <1> QED BY <1>1, <1>3

\* A step that leaves the producers and their slots alone.
LEMMA QuietProducers ==
  ASSUME ProducersOK, SnapsOK, TypeOK,
         q_locked'.tail = q_locked.tail, sent' = sent, q_safe'.tail = q_safe.tail,
         \A p \in Producers :
           /\ pc'[p] = pc[p] /\ snap'[p] = snap[p] /\ msg'[p] = msg[p]
           /\ pc[p] = "write_id" => queue'[Slot(snap[p].tail)].id = 0
  PROVE  ProducersOK' /\ SnapsOK'
  <1>1. ProducersOK'
    BY DEF ProducersOK
  <1>2. SnapsOK'
    BY DEF SnapsOK, IsFull, Length
  <1> QED BY <1>1, <1>2

\* A step of a consumer that claims nothing new.
LEMMA ClaimStep ==
  ASSUME ClaimsOK, NEW c \in Consumers,
         \A d \in Consumers : d # c =>
           pc'[d] = pc[d] /\ i'[d] = i[d] /\ range'[d] = range[d] /\ num'[d] = num[d],
         Claimed(c)' \subseteq Claimed(c),
         \A d \in Consumers : \A k \in Claimed(d) : d # c \/ k \in Claimed(c)' =>
           /\ k \in q_locked'.head .. q_safe'.head - 1
           /\ queue'[Slot(k)].id = queue[Slot(k)].id,
         pc'[c] = "handle" => i'[c] >= range'[c].head,
         pc'[c] = "dequeue" => num'[c] > 0
  PROVE  ClaimsOK'
  <1>1. \A d \in Consumers : d # c => Claimed(d)' = Claimed(d)
    BY DEF Claimed
  <1>2. \A d \in Consumers : Claimed(d)' \subseteq Claimed(d)
    BY <1>1
  <1>3. ASSUME NEW d \in Consumers, NEW k \in Claimed(d)'
        PROVE  /\ k \in q_locked'.head .. q_safe'.head - 1
               /\ queue'[Slot(k)].id = k + 1
               /\ \A e \in Consumers : e # d => k \notin Claimed(e)'
    <2>1. k \in Claimed(d) /\ (d # c \/ k \in Claimed(c)')
      BY <1>2
    <2>2. queue[Slot(k)].id = k + 1 /\ \A e \in Consumers : e # d => k \notin Claimed(e)
      BY <2>1 DEF ClaimsOK
    <2>3. k \in q_locked'.head .. q_safe'.head - 1 /\ queue'[Slot(k)].id = queue[Slot(k)].id
      BY <2>1
    <2> QED BY <1>2, <2>2, <2>3
  <1>4. ASSUME NEW d \in Consumers
        PROVE  /\ pc'[d] = "handle" => i'[d] >= range'[d].head
               /\ pc'[d] = "dequeue" => num'[d] > 0
    BY DEF ClaimsOK
  <1> QED BY <1>3, <1>4 DEF ClaimsOK

\* A step that leaves all the consumers alone.
LEMMA QuietClaims ==
  ASSUME ClaimsOK,
         \A d \in Consumers :
           pc'[d] = pc[d] /\ i'[d] = i[d] /\ range'[d] = range[d] /\ num'[d] = num[d],
         q_locked'.head = q_locked.head, q_safe'.head = q_safe.head,
         \A k \in q_locked.head .. q_safe.head - 1 : queue'[Slot(k)].id = queue[Slot(k)].id
  PROVE  ClaimsOK'
  <1>1. \A d \in Consumers : Claimed(d)' = Claimed(d)
    BY DEF Claimed
  <1> QED BY <1>1 DEF ClaimsOK

\* A step of a consumer and the mutexes.
LEMMA MutexStep ==
  ASSUME MutexesOK, NEW c \in Consumers,
         \A d \in Consumers : d # c => pc'[d] = pc[d] /\ i'[d] = i[d] /\ num'[d] = num[d],
         q_locked'.tail = q_locked.tail,
         \A d \in Consumers : d # c /\ pc[d] = "gather" =>
           safe_tail_mtx' = 1 /\ q_safe'.tail = q_safe.tail /\ pc'[c] # "gather",
         \A d \in Consumers : d # c /\ pc[d] = "collect" =>
           /\ locked_head_mtx' = 1 /\ q_locked'.head = q_locked.head /\ pc'[c] # "collect"
           /\ (num[d] - i[d]) + q_locked.head <= q_safe'.head,
         pc'[c] = "gather" =>
           safe_tail_mtx' = 1 /\ (num'[c] - i'[c]) + q_safe'.tail <= q_locked'.tail,
         pc'[c] = "collect" =>
           locked_head_mtx' = 1 /\ (num'[c] - i'[c]) + q_locked'.head <= q_safe'.head
  PROVE  MutexesOK'
  <1>1. ASSUME NEW d \in Consumers
        PROVE  /\ pc'[d] = "gather" =>
                    safe_tail_mtx' = 1 /\ (num'[d] - i'[d]) + q_safe'.tail <= q_locked'.tail
               /\ pc'[d] = "collect" =>
                    locked_head_mtx' = 1 /\ (num'[d] - i'[d]) + q_locked'.head <= q_safe'.head
    BY DEF MutexesOK
  <1>2. ASSUME NEW d \in Consumers, NEW e \in Consumers, pc'[d] = pc'[e],
               pc'[d] \in {"gather", "collect"}
        PROVE  d = e
    BY <1>2 DEF MutexesOK
  <1> QED BY <1>1, <1>2 DEF MutexesOK

\* Within the window of the queue an index has its slot to itself.
LEMMA Window ==
  ASSUME NEW h \in Int, NEW j \in h .. h + N - 1, NEW k \in h .. h + N - 1, j # k
  PROVE  Slot(j) # Slot(k) /\ Slot(j) \in 0 .. N - 1 /\ Slot(k) \in 0 .. N - 1
  <1>1. j \in Int /\ k \in Int
    BY Sizes
  <1>2. CASE j < k
    <2>1. k - j < N
      BY <1>1, Sizes
    <2> QED BY <1>1, <1>2, <2>1, SlotsApart, Conversions
  <1>3. CASE k < j
    <2>1. j - k < N
      BY <1>1, Sizes
    <2> QED BY <1>1, <1>3, <2>1, SlotsApart, Conversions
  <1> QED BY <1>1, <1>2, <1>3

-----------------------------------------------------------------------------
(* enqueue() *)

\* An index is given out, and its slot left free or written.
LEMMA IndexTaken ==
  ASSUME IInv, MaxMsgs < W, ~ IsFull(q_locked), sent < MaxMsgs,
         q_locked' = Advance(q_locked), sent' = sent + 1, q_safe' = q_safe,
         \A s \in 0 .. N - 1 : s # Slot(q_locked.tail) => queue'[s].id = queue[s].id,
         queue'[Slot(q_locked.tail)].id \in {0, q_locked.tail + 1}
  PROVE  /\ RangesNested' /\ SlotsOK'
         /\ q_locked'.head = q_locked.head /\ q_locked'.tail = q_locked.tail + 1
         /\ q_locked.tail - q_locked.head < N
         /\ \A k \in q_locked.head .. q_locked.tail - 1 :
              queue'[Slot(k)].id = queue[Slot(k)].id
  <1>1. /\ TypeOK /\ RangesNested /\ ProducersOK /\ SlotsOK
    BY DEF IInv, QueueInv
  <1> DEFINE lh == q_locked.head
             lt == q_locked.tail
  <1>2. /\ lh \in Nat /\ lt \in Nat /\ q_safe.head \in Nat /\ q_safe.tail \in Nat
        /\ ~(lt - lh >= N) /\ Advance(q_locked) = [q_locked EXCEPT !.tail = @ + 1]
    BY <1>1, Indices
  <1>3. lh <= q_safe.head /\ q_safe.head <= q_safe.tail /\ q_safe.tail <= lt
    BY <1>1 DEF RangesNested
  <1>4. q_locked'.head = lh /\ q_locked'.tail = lt + 1
    BY <1>1, <1>2 DEF TypeOK, QueueRange
  <1>5. lt - lh < N /\ lt \in lh .. lh + N - 1
    BY <1>2, <1>3, Sizes
  <1>6. RangesNested'
    <2>1. lt + 1 <= lh + N /\ q_safe.tail <= lt + 1
      BY <1>2, <1>3, <1>5, Sizes
    <2> QED BY <1>3, <1>4, <2>1 DEF RangesNested
  <1>7. ASSUME NEW k \in lh .. lh + N - 1, k # lt
        PROVE  queue'[Slot(k)].id = queue[Slot(k)].id
    <2>1. Slot(k) # Slot(lt) /\ Slot(k) \in 0 .. N - 1
      BY <1>2, <1>5, <1>7, Window
    <2> QED BY <2>1
  <1>8. SlotsOK'
    <2> SUFFICES ASSUME NEW k \in lh .. lh + N - 1
                 PROVE  /\ k >= lt + 1 => queue'[Slot(k)].id = 0
                        /\ k \in q_safe.head .. q_safe.tail - 1 => queue'[Slot(k)].id = k + 1
                        /\ queue'[Slot(k)].id \in {0, k + 1}
      BY <1>4 DEF SlotsOK
    <2>1. CASE k = lt
      BY <1>2, <1>3, <2>1
    <2>2. CASE k # lt
      <3>1. queue'[Slot(k)].id = queue[Slot(k)].id
        BY <1>7, <2>2
      <3>2. k >= lt + 1 => k >= lt
        BY <1>2, Sizes
      <3> QED BY <1>1, <3>1, <3>2 DEF SlotsOK
    <2> QED BY <2>1, <2>2
  <1>9. \A k \in lh .. lt - 1 : k \in lh .. lh + N - 1 /\ k # lt
    BY <1>2, <1>5, Sizes
  <1> QED BY <1>4, <1>5, <1>6, <1>7, <1>8, <1>9

\* The consumers do not notice that the tail has moved.
LEMMA TailMoved ==
  ASSUME TypeOK, RangesNested, MutexesOK, UNCHANGED <<q_safe, safe_tail_mtx, locked_head_mtx>>,
         q_locked'.head = q_locked.head, q_locked'.tail >= q_locked.tail,
         q_locked'.tail \in Nat,
         \A d \in Consumers : pc'[d] = pc[d] /\ i'[d] = i[d] /\ num'[d] = num[d]
  PROVE  MutexesOK'
  <1>1. ASSUME NEW d \in Consumers
        PROVE  /\ pc'[d] = "gather" =>
                    safe_tail_mtx' = 1 /\ (num'[d] - i'[d]) + q_safe'.tail <= q_locked'.tail
               /\ pc'[d] = "collect" =>
                    locked_head_mtx' = 1 /\ (num'[d] - i'[d]) + q_locked'.head <= q_safe'.head
    <2>1. num[d] \in Int /\ i[d] \in Int
      BY DEF TypeOK, Actor
    <2>2. q_safe.tail \in Int /\ q_locked.tail \in Int
      BY Sizes DEF TypeOK, QueueRange
    <2>3. pc[d] = "gather" =>
            safe_tail_mtx = 1 /\ (num[d] - i[d]) + q_safe.tail <= q_locked.tail
      BY DEF MutexesOK
    <2>4. pc[d] = "gather" => (num[d] - i[d]) + q_safe.tail <= q_locked'.tail
      BY <2>1, <2>2, <2>3
    <2> QED BY <2>3, <2>4 DEF MutexesOK
  <1> QED BY <1>1 DEF MutexesOK

\* enqueue() by an interrupt handler keeps the invariant.
LEMMA AtomicKept ==
  ASSUME IInv, MaxMsgs < W, EnqueueAtomic
  PROVE  IInv'
  <1>1. TypeOK /\ RangesNested /\ SlotsOK /\ ProducersOK /\ ClaimsOK /\ MutexesOK /\ SnapsOK
    BY DEF IInv, QueueInv
  <1>2. TypeOK'
    BY <1>1, TypesKept DEF Next
  <1> DEFINE lh == q_locked.head
             lt == q_locked.tail
  <1>3. /\ lh \in Nat /\ lt \in Nat /\ q_safe.head \in Nat /\ q_safe.tail \in Nat
    BY <1>1, Indices
  <1>4. /\ q_safe' = q_safe /\ sent' = sent + 1 /\ q_locked' = Advance(q_locked)
        /\ UNCHANGED <<pc, snap, i, msg, num, range, safe_tail_mtx, locked_head_mtx>>
        /\ queue' = Set(queue, Slot(lt), [id |-> sent + 1, data |-> sent + 1])
        /\ ~ IsFull(q_locked) /\ sent < MaxMsgs /\ lt = sent
    BY <1>1 DEF EnqueueAtomic, localVars, ProducersOK
  <1>5. Slot(lt) \in 0 .. N - 1
    BY <1>3, Conversions
  <1>6. /\ \A s \in 0 .. N - 1 : s # Slot(lt) => queue'[s].id = queue[s].id
        /\ queue'[Slot(lt)].id = lt + 1
    BY <1>1, <1>4, <1>5 DEF Set, TypeOK
  <1>7. /\ RangesNested' /\ SlotsOK' /\ q_locked'.head = lh /\ q_locked'.tail = lt + 1
        /\ lt - lh < N
        /\ \A k \in lh .. lt - 1 : queue'[Slot(k)].id = queue[Slot(k)].id
    BY <1>4, <1>6, IndexTaken
  <1>8. lh <= q_safe.head /\ q_safe.head <= q_safe.tail /\ q_safe.tail <= lt
    BY <1>1 DEF RangesNested
  <1>9. ProducersOK'
    <2>1. ASSUME NEW p \in Producers, pc[p] = "write_id"
          PROVE  /\ snap[p].tail \in q_safe.tail .. (lt + 1) - 1
                 /\ queue'[Slot(snap[p].tail)].id = 0
      <3>1. snap[p].tail \in q_safe.tail .. lt - 1 /\ queue[Slot(snap[p].tail)].id = 0
        BY <1>1, <2>1 DEF ProducersOK
      <3>2. snap[p].tail \in lh .. lt - 1 /\ snap[p].tail \in q_safe.tail .. (lt + 1) - 1
        BY <1>3, <1>8, <3>1
      <3> QED BY <1>7, <3>1, <3>2
    <2>2. q_locked'.tail = sent'
      BY <1>4, <1>7
    <2> QED BY <1>1, <1>4, <1>7, <2>1, <2>2 DEF ProducersOK
  <1>10. ClaimsOK'
    <2>1. \A k \in lh .. q_safe.head - 1 : k \in lh .. lt - 1
      BY <1>3, <1>8
    <2> QED BY <1>1, <1>4, <1>7, <2>1, QuietClaims
  <1>11. MutexesOK'
    <2>1. q_locked'.tail \in Nat /\ q_locked'.tail >= q_locked.tail
      BY <1>3, <1>7
    <2> QED BY <1>1, <1>4, <1>7, <2>1, TailMoved
  <1>12. SnapsOK'
    BY <1>1, <1>4 DEF SnapsOK, IsFull, Length
  <1> QED BY <1>2, <1>7, <1>9, <1>10, <1>11, <1>12 DEF IInv, QueueInv

\* A thread that enqueues: the snapshot, the swap and the copy.
LEMMA ProducerKept ==
  ASSUME IInv, MaxMsgs < W, NEW p \in Producers, Enqueue(p)
  PROVE  IInv'
  <1>1. TypeOK /\ RangesNested /\ SlotsOK /\ ProducersOK /\ ClaimsOK /\ MutexesOK /\ SnapsOK
    BY DEF IInv, QueueInv
  <1>2. TypeOK'
    BY <1>1, TypesKept DEF Next
  <1>3. /\ \A a \in Actor : a # p => pc'[a] = pc[a] /\ snap'[a] = snap[a] /\ i'[a] = i[a]
                                     /\ msg'[a] = msg[a]
        /\ UNCHANGED <<num, range, q_safe, safe_tail_mtx, locked_head_mtx>>
    BY <1>1, ProducerLocal
  <1>4. \A d \in Consumers :
          pc'[d] = pc[d] /\ i'[d] = i[d] /\ range'[d] = range[d] /\ num'[d] = num[d]
    BY <1>3, ActorsAssumption DEF Actor
  <1>5. \A r \in Producers : r # p => pc'[r] = pc[r] /\ snap'[r] = snap[r] /\ msg'[r] = msg[r]
    BY <1>3 DEF Actor
  <1>6. p \in Actor /\ snap[p] \in QueueRange /\ pc \in [Actor -> Labels]
        /\ snap \in [Actor -> QueueRange] /\ msg \in [Actor -> 0 .. MaxMsgs]
    BY <1>1 DEF TypeOK, Actor
  <1> DEFINE lh == q_locked.head
             lt == q_locked.tail
             w == snap[p].tail
  <1>7. lh \in Nat /\ lt \in Nat /\ q_safe.head \in Nat /\ q_safe.tail \in Nat /\ w \in Nat
    BY <1>1, <1>6, Indices, Sizes DEF QueueRange
  <1>8. /\ lh <= q_safe.head /\ q_safe.head <= q_safe.tail /\ q_safe.tail <= lt
        /\ lt <= lh + N
    BY <1>1 DEF RangesNested
  <1>9. ASSUME UNCHANGED <<q_locked, sent>>,
               \A s \in 0 .. N - 1 : queue'[s].id = queue[s].id,
               pc[p] # "write_id", pc'[p] # "write_id",
               pc'[p] = "cas" => ~ IsFull(snap'[p])
        PROVE  IInv'
    <2>1. RangesNested' /\ SlotsOK'
      BY <1>1, <1>3, <1>9, QuietSlots
    <2>2. ASSUME NEW k \in Int PROVE queue'[Slot(k)].id = queue[Slot(k)].id
      BY <1>9, Conversions
    <2>3. ClaimsOK'
      <3>1. \A k \in lh .. q_safe.head - 1 : queue'[Slot(k)].id = queue[Slot(k)].id
        BY <2>2
      <3> QED BY <1>1, <1>3, <1>4, <1>9, <3>1, QuietClaims
    <2>4. MutexesOK'
      BY <1>1, <1>3, <1>4, <1>7, <1>9, TailMoved
    <2>5. ProducersOK'
      <3>1. \A r \in Producers : pc'[r] = "write_id" => r # p /\ pc[r] = "write_id"
        BY <1>5, <1>9
      <3>2. ASSUME NEW r \in Producers, pc'[r] = "write_id"
            PROVE  queue'[Slot(snap[r].tail)].id = 0
        <4>1. snap[r].tail \in Int
          BY <1>1, Sizes DEF TypeOK, QueueRange, Actor
        <4> QED BY <1>1, <2>2, <3>1, <3>2, <4>1 DEF ProducersOK
      <3> QED BY <1>1, <1>3, <1>5, <1>9, <3>1, <3>2 DEF ProducersOK
    <2>6. SnapsOK'
      BY <1>1, <1>5, <1>9 DEF SnapsOK, IsFull, Length
    <2> QED BY <1>2, <2>1, <2>3, <2>4, <2>5, <2>6 DEF IInv, QueueInv
  <1>10. CASE EnqueueSnapshot(p)
    <2>1. UNCHANGED <<q_locked, queue, sent>> /\ pc[p] # "write_id"
      BY <1>10 DEF EnqueueSnapshot, queueVars
    <2>2. \/ pc'[p] = "idle"
          \/ pc'[p] = "cas" /\ snap'[p] = q_locked /\ ~ IsFull(q_locked)
      BY <1>6, <1>10 DEF EnqueueSnapshot, EnqueueReturn, Goto, Set
    <2>3. pc'[p] = "cas" => ~ IsFull(snap'[p])
      BY <2>1, <2>2 DEF IsFull, Length
    <2> QED BY <1>9, <2>1, <2>2, <2>3
  <1>11. CASE EnqueueCas(p) /\ q_locked # snap[p]
    <2>1. UNCHANGED <<q_locked, queue, sent>> /\ pc[p] # "write_id"
      BY <1>11 DEF EnqueueCas
    <2>2. pc'[p] \in {"idle", "retry"}
      BY <1>6, <1>11 DEF EnqueueCas, EnqueueReturn, Goto
    <2> QED BY <1>9, <2>1, <2>2
  <1>12. CASE EnqueueCas(p) /\ q_locked = snap[p]
    <2>1. /\ pc[p] = "cas" /\ sent < MaxMsgs /\ q_locked' = Advance(q_locked)
          /\ sent' = sent + 1 /\ queue' = queue /\ pc'[p] = "write_id"
          /\ snap' = snap /\ msg'[p] = sent + 1 /\ w = lt /\ lt = sent
      BY <1>1, <1>6, <1>12 DEF EnqueueCas, Goto, Set, ProducersOK
    <2>2. ~ IsFull(q_locked)
      BY <1>1, <1>12, <2>1 DEF SnapsOK
    <2>3. lt \in lh .. lh + N - 1
      <3>1. ~(lt - lh >= N)
        BY <1>1, <2>2, Indices
      <3> QED BY <1>7, <1>8, <3>1, Sizes
    <2>4. queue[Slot(lt)].id = 0
      BY <1>1, <1>7, <2>3 DEF SlotsOK
    <2>5. /\ RangesNested' /\ SlotsOK' /\ q_locked'.head = lh /\ q_locked'.tail = lt + 1
      BY <1>3, <2>1, <2>2, <2>4, IndexTaken
    <2>6. ProducersOK'
      <3>1. lt \in q_safe.tail .. (lt + 1) - 1
        BY <1>7, <1>8
      <3>2. ASSUME NEW r \in Producers, r # p, pc[r] = "write_id"
            PROVE  /\ snap[r].tail \in q_safe.tail .. (lt + 1) - 1
                   /\ snap[r].tail # lt
        <4>1. snap[r].tail \in q_safe.tail .. lt - 1
          BY <1>1, <3>2 DEF ProducersOK
        <4> QED BY <1>7, <4>1
      <3>3. q_locked'.tail = sent'
        BY <2>1, <2>5
      <3>4. ASSUME NEW r \in Producers, pc'[r] = "write_id"
            PROVE  /\ snap'[r].tail \in q_safe'.tail .. q_locked'.tail - 1
                   /\ msg'[r] = snap'[r].tail + 1
                   /\ queue'[Slot(snap'[r].tail)].id = 0
        <4>1. CASE r = p
          BY <1>3, <2>1, <2>4, <2>5, <3>1, <4>1
        <4>2. CASE r # p
          <5>1. pc[r] = "write_id" /\ msg'[r] = msg[r]
            BY <1>5, <3>4, <4>2
          <5>2. msg[r] = snap[r].tail + 1 /\ queue[Slot(snap[r].tail)].id = 0
            BY <1>1, <5>1 DEF ProducersOK
          <5> QED BY <1>3, <2>1, <2>5, <3>2, <4>2, <5>1, <5>2
        <4> QED BY <4>1, <4>2
      <3>5. ASSUME NEW r \in Producers, NEW s \in Producers, s # r, pc'[r] = "write_id",
                   pc'[s] = "write_id"
            PROVE  snap'[s].tail # snap'[r].tail
        <4>1. CASE r = p
          BY <1>5, <2>1, <3>2, <3>5, <4>1
        <4>2. CASE s = p
          BY <1>5, <2>1, <3>2, <3>5, <4>2
        <4>3. CASE r # p /\ s # p
          BY <1>1, <1>5, <2>1, <3>5, <4>3 DEF ProducersOK
        <4> QED BY <4>1, <4>2, <4>3
      <3> QED BY <3>3, <3>4, <3>5 DEF ProducersOK
    <2>7. ClaimsOK'
      BY <1>1, <1>3, <1>4, <2>1, <2>5, QuietClaims
    <2>8. MutexesOK'
      <3>1. q_locked'.tail \in Nat /\ q_locked'.tail >= q_locked.tail
        BY <1>7, <2>5
      <3> QED BY <1>1, <1>3, <1>4, <2>5, <3>1, TailMoved
    <2>9. SnapsOK'
      BY <1>1, <1>5, <2>1 DEF SnapsOK, IsFull, Length
    <2> QED BY <1>2, <2>5, <2>6, <2>7, <2>8, <2>9 DEF IInv, QueueInv
  <1>13. CASE WriteId(p)
    <2>1. /\ pc[p] = "write_id" /\ pc'[p] = "write_data" /\ UNCHANGED <<q_locked, sent, snap, msg>>
          /\ queue' = [queue EXCEPT ![Slot(w)].id = msg[p]]
      BY <1>6, <1>13 DEF WriteId, Goto
    <2>2. w \in q_safe.tail .. lt - 1 /\ msg[p] = w + 1
      BY <1>1, <2>1 DEF ProducersOK
    <2>3. Slot(w) \in 0 .. N - 1
      BY <1>7, Conversions
    <2>4. /\ queue'[Slot(w)].id = w + 1
          /\ \A s \in 0 .. N - 1 : s # Slot(w) => queue'[s].id = queue[s].id
      <3>1. queue[Slot(w)] \in Message
        BY <1>1, <2>3 DEF TypeOK
      <3>2. queue'[Slot(w)] = [queue[Slot(w)] EXCEPT !.id = msg[p]]
        BY <1>1, <2>1, <2>3 DEF TypeOK
      <3>3. queue'[Slot(w)].id = w + 1
        BY <2>2, <3>1, <3>2 DEF Message
      <3> QED BY <1>1, <2>1, <3>3 DEF TypeOK
    <2>5. w \in lh .. lh + N - 1
      BY <1>7, <1>8, <2>2, Sizes
    <2>6. ASSUME NEW k \in lh .. lh + N - 1, k # w
          PROVE  queue'[Slot(k)].id = queue[Slot(k)].id
      <3>1. Slot(k) # Slot(w) /\ Slot(k) \in 0 .. N - 1
        BY <1>7, <2>5, <2>6, Window
      <3> QED BY <2>4, <3>1
    <2>7. RangesNested'
      BY <1>1, <1>3, <2>1 DEF RangesNested
    <2>8. SlotsOK'
      <3> SUFFICES ASSUME NEW k \in lh .. lh + N - 1
                   PROVE  /\ k >= lt => queue'[Slot(k)].id = 0
                          /\ k \in q_safe.head .. q_safe.tail - 1 => queue'[Slot(k)].id = k + 1
                          /\ queue'[Slot(k)].id \in {0, k + 1}
        BY <1>3, <2>1 DEF SlotsOK
      <3>1. CASE k = w
        <4>1. ~(k >= lt)
          BY <1>7, <2>2, <3>1
        <4> QED BY <2>4, <3>1, <4>1
      <3>2. CASE k # w
        BY <1>1, <2>6, <3>2 DEF SlotsOK
      <3> QED BY <3>1, <3>2
    <2>9. ProducersOK'
      <3>1. ASSUME NEW r \in Producers, pc'[r] = "write_id"
            PROVE  pc[r] = "write_id" /\ r # p /\ queue'[Slot(snap[r].tail)].id = 0
        <4>1. pc[r] = "write_id" /\ r # p
          BY <1>5, <2>1, <3>1
        <4>2. /\ snap[r].tail \in q_safe.tail .. lt - 1 /\ snap[r].tail # w
              /\ queue[Slot(snap[r].tail)].id = 0
          BY <1>1, <2>1, <4>1 DEF ProducersOK
        <4>3. snap[r].tail \in lh .. lh + N - 1
          BY <1>7, <1>8, <4>2, Sizes
        <4> QED BY <2>6, <4>1, <4>2, <4>3
      <3> QED BY <1>1, <1>3, <2>1, <3>1 DEF ProducersOK
    <2>10. ClaimsOK'
      <3>1. \A k \in lh .. q_safe.head - 1 : k \in lh .. lh + N - 1 /\ k # w
        BY <1>7, <1>8, <2>2, Sizes
      <3>2. \A k \in lh .. q_safe.head - 1 : queue'[Slot(k)].id = queue[Slot(k)].id
        BY <2>6, <3>1
      <3> QED BY <1>1, <1>3, <1>4, <2>1, <3>2, QuietClaims
    <2>11. MutexesOK'
      BY <1>1, <1>3, <1>4, <1>7, <2>1, TailMoved
    <2>12. SnapsOK'
      BY <1>1, <1>5, <2>1 DEF SnapsOK, IsFull, Length
    <2> QED BY <1>2, <2>7, <2>8, <2>9, <2>10, <2>11, <2>12 DEF IInv, QueueInv
  <1>14. CASE WriteData(p)
    <2>1. /\ pc[p] = "write_data" /\ pc'[p] = "idle" /\ UNCHANGED <<q_locked, sent>>
          /\ queue' = [queue EXCEPT ![Slot(w)].data = msg[p]]
      BY <1>6, <1>14 DEF WriteData, EnqueueReturn, Goto
    <2>2. \A s \in 0 .. N - 1 : queue'[s].id = queue[s].id
      BY <1>1, <2>1 DEF TypeOK, Message
    <2> QED BY <1>9, <2>1, <2>2
  <1> QED BY <1>10, <1>11, <1>12, <1>13, <1>14 DEF Enqueue, Copy

-----------------------------------------------------------------------------
(* The workers *)

\* A step that leaves the queue and its mutexes alone and claims nothing new.
LEMMA LocalKept ==
  ASSUME IInv, NEW c \in Consumers, Run(c),
         UNCHANGED queueVars,
         Claimed(c)' \subseteq Claimed(c),
         pc'[c] = "handle" => i'[c] >= range'[c].head,
         pc'[c] = "dequeue" => num'[c] > 0,
         pc'[c] \notin {"gather", "collect"}
  PROVE  IInv'
  <1>1. TypeOK /\ RangesNested /\ SlotsOK /\ ProducersOK /\ ClaimsOK /\ MutexesOK /\ SnapsOK
    BY DEF IInv, QueueInv
  <1>2. TypeOK'
    BY <1>1, TypesKept DEF Next
  <1>3. UNCHANGED <<q_locked, q_safe, safe_tail_mtx, locked_head_mtx, queue, msg, sent>>
    BY <1>1, ConsumerLocal DEF queueVars
  <1>4. \A d \in Consumers : d # c =>
          pc'[d] = pc[d] /\ i'[d] = i[d] /\ range'[d] = range[d] /\ num'[d] = num[d]
    BY <1>1, ConsumerLocal DEF Actor
  <1>5. \A p \in Producers : pc'[p] = pc[p] /\ snap'[p] = snap[p] /\ msg'[p] = msg[p]
    BY <1>1, <1>3, ConsumerLocal, ActorsAssumption DEF Actor
  <1>6. RangesNested' /\ SlotsOK'
    BY <1>1, <1>3, QuietSlots
  <1>7. ProducersOK' /\ SnapsOK'
    <2>1. \A p \in Producers : pc[p] = "write_id" => queue'[Slot(snap[p].tail)].id = 0
      BY <1>1, <1>3 DEF ProducersOK
    <2> QED BY <1>1, <1>3, <1>5, <2>1, QuietProducers
  <1>8. ClaimsOK'
    <2>1. \A d \in Consumers : \A k \in Claimed(d) :
            /\ k \in q_locked'.head .. q_safe'.head - 1
            /\ queue'[Slot(k)].id = queue[Slot(k)].id
      BY <1>1, <1>3 DEF ClaimsOK
    <2> QED BY <1>1, <1>4, <2>1, ClaimStep
  <1>9. MutexesOK'
    <2>1. \A d \in Consumers : pc[d] = "gather" => safe_tail_mtx' = 1
      BY <1>1, <1>3 DEF MutexesOK
    <2>2. \A d \in Consumers : pc[d] = "collect" =>
            locked_head_mtx' = 1 /\ (num[d] - i[d]) + q_locked.head <= q_safe'.head
      BY <1>1, <1>3 DEF MutexesOK
    <2> QED BY <1>1, <1>3, <1>4, <2>1, <2>2, MutexStep
  <1> QED BY <1>2, <1>6, <1>7, <1>8, <1>9 DEF IInv, QueueInv

\* size(), dequeue() up to its swap, and the loop over the handlers.
LEMMA WorkerLocalKept ==
  ASSUME IInv, NEW c \in Consumers,
         \/ SizeCheck(c) \/ DequeueBegin(c) \/ DequeueGivesUp(c)
         \/ DequeueCas(c) /\ q_safe # snap[c]
         \/ Handle(c)
  PROVE  IInv'
  <1>1. /\ pc \in [Actor -> Labels] /\ i \in [Actor -> Nat] /\ num \in [Consumers -> Int]
        /\ range \in [Consumers -> QueueRange] /\ c \in Actor /\ ClaimsOK
        /\ snap \in [Actor -> QueueRange]
    BY DEF IInv, QueueInv, TypeOK, Actor
  <1>2. Run(c) /\ UNCHANGED queueVars
    BY DEF Run, SizeCheck, DequeueBegin, DequeueGivesUp, DequeueCas, Handle, queueVars
  <1>3. CASE SizeCheck(c)
    <2>1. pc'[c] \in {"idle", "snapshot"}
      BY <1>1, <1>3 DEF SizeCheck, Return, Goto
    <2>2. Claimed(c)' = {}
      BY <2>1 DEF Claimed
    <2> QED BY <1>2, <2>1, <2>2, LocalKept
  <1>4. CASE DequeueBegin(c)
    <2>1. pc'[c] = "dequeue" /\ num'[c] = BATCH
      BY <1>1, <1>4 DEF DequeueBegin, Goto, Set
    <2>2. Claimed(c)' = {}
      BY <2>1 DEF Claimed
    <2> QED BY <1>2, <2>1, <2>2, LocalKept, Sizes
  <1>5. CASE DequeueGivesUp(c)
    <2>1. pc'[c] = "handle" /\ range'[c] = Empty /\ i'[c] = 0
      BY <1>1, <1>5 DEF DequeueGivesUp, DequeueReturn, Goto, Set, Empty
    <2>2. range'[c].head = 0 /\ range'[c].tail = 0
      BY <2>1 DEF Empty
    <2>3. Claimed(c)' = {}
      BY <2>1, <2>2 DEF Claimed
    <2>4. i'[c] >= range'[c].head
      BY <2>1, <2>2
    <2> QED BY <1>2, <2>1, <2>3, <2>4, LocalKept
  <1>6. CASE DequeueCas(c) /\ q_safe # snap[c]
    <2>1. /\ pc[c] = "dequeue" /\ pc'[c] = "dequeue" /\ Length(snap[c]) # 0
          /\ num'[c] = AtMost(num[c], Length(snap[c]))
      BY <1>1, <1>6 DEF DequeueCas, Set
    <2>2. num[c] > 0 /\ num[c] \in Int
      BY <1>1, <2>1 DEF ClaimsOK
    <2>3. Length(snap[c]) \in Nat
      BY <1>1, RangeTypes
    <2>4. num'[c] > 0
      BY <2>1, <2>2, <2>3 DEF AtMost
    <2>5. Claimed(c)' = {}
      BY <2>1 DEF Claimed
    <2> QED BY <1>2, <2>1, <2>4, <2>5, LocalKept
  <1>7. CASE Handle(c)
    <2>1. pc[c] = "handle" /\ range' = range /\ i[c] >= range[c].head
      BY <1>1, <1>7 DEF Handle, ClaimsOK
    <2>2. \/ pc'[c] = "handle" /\ i'[c] = i[c] + 1
          \/ pc'[c] = "release" /\ i'[c] = range[c].head
      BY <1>1, <1>7 DEF Handle, Goto, Set
    <2>3. Claimed(c)' = Claimed(c)
      BY <2>1, <2>2 DEF Claimed
    <2>4. pc'[c] = "handle" => i'[c] >= range'[c].head
      <3>1. i[c] \in Int /\ range[c].head \in Int
        BY <1>1, Sizes DEF QueueRange
      <3> QED BY <2>1, <2>2, <3>1
    <2> QED BY <1>2, <2>2, <2>3, <2>4, LocalKept
  <1> QED BY <1>3, <1>4, <1>5, <1>6, <1>7

\* A worker's step, seen by the others.
LEMMA WorkerFrame ==
  ASSUME IInv, NEW c \in Consumers, Run(c)
  PROVE  /\ TypeOK' /\ UNCHANGED <<msg, sent>>
         /\ \A d \in Consumers : d # c =>
              pc'[d] = pc[d] /\ i'[d] = i[d] /\ range'[d] = range[d] /\ num'[d] = num[d]
         /\ \A p \in Producers : pc'[p] = pc[p] /\ snap'[p] = snap[p] /\ msg'[p] = msg[p]
  <1>1. TypeOK
    BY DEF IInv, QueueInv
  <1>2. TypeOK'
    BY <1>1, TypesKept DEF Next
  <1> QED BY <1>1, <1>2, ConsumerLocal, ActorsAssumption DEF Actor

\* gather_new_data()
LEMMA GatherKept ==
  ASSUME IInv, MaxMsgs < W, NEW c \in Consumers, GatherBegin(c) \/ GatherNext(c) \/ GatherEnd(c)
  PROVE  IInv'
  <1>1. TypeOK /\ RangesNested /\ SlotsOK /\ ProducersOK /\ ClaimsOK /\ MutexesOK /\ SnapsOK
    BY DEF IInv, QueueInv
  <1>2. /\ TypeOK' /\ UNCHANGED <<msg, sent>>
        /\ \A d \in Consumers : d # c =>
             pc'[d] = pc[d] /\ i'[d] = i[d] /\ range'[d] = range[d] /\ num'[d] = num[d]
        /\ \A p \in Producers : pc'[p] = pc[p] /\ snap'[p] = snap[p] /\ msg'[p] = msg[p]
    BY WorkerFrame DEF Run
  <1>3. /\ pc \in [Actor -> Labels] /\ i \in [Actor -> Nat] /\ num \in [Consumers -> Int]
        /\ c \in Actor
    BY <1>1 DEF TypeOK, Actor
  <1> DEFINE lh == q_locked.head
             lt == q_locked.tail
             sh == q_safe.head
             st == q_safe.tail
  <1>4. lh \in Nat /\ lt \in Nat /\ sh \in Nat /\ st \in Nat
    BY <1>1, Indices
  <1>5. lh <= sh /\ sh <= st /\ st <= lt /\ lt <= lh + N
    BY <1>1 DEF RangesNested
  <1>6. UNCHANGED <<q_locked, locked_head_mtx, queue>>
    BY DEF GatherBegin, GatherNext, GatherEnd
  <1>7. /\ pc'[c] \in {"gather", "size"} /\ q_safe'.head = sh
        /\ Claimed(c)' = {}
    <2>1. pc'[c] \in {"gather", "size"}
      BY <1>3 DEF GatherBegin, GatherNext, GatherEnd, Goto
    <2>2. q_safe'.head = sh
      BY <1>1 DEF GatherBegin, GatherNext, GatherEnd, Advance, TypeOK, QueueRange
    <2> QED BY <2>1, <2>2 DEF Claimed
  <1>8. ClaimsOK'
    <2>1. \A d \in Consumers : \A k \in Claimed(d) :
            /\ k \in q_locked'.head .. q_safe'.head - 1
            /\ queue'[Slot(k)].id = queue[Slot(k)].id
      BY <1>1, <1>6, <1>7 DEF ClaimsOK
    <2> QED BY <1>1, <1>2, <1>7, <2>1, ClaimStep
  <1>9. \A d \in Consumers : pc[d] = "collect" =>
          locked_head_mtx' = 1 /\ (num[d] - i[d]) + q_locked.head <= q_safe'.head
    BY <1>1, <1>6, <1>7 DEF MutexesOK
  <1>10. ASSUME q_safe' = q_safe PROVE RangesNested' /\ SlotsOK' /\ ProducersOK' /\ SnapsOK'
    <2>1. RangesNested' /\ SlotsOK'
      BY <1>1, <1>6, <1>10, QuietSlots
    <2>2. \A p \in Producers : pc[p] = "write_id" => queue'[Slot(snap[p].tail)].id = 0
      BY <1>1, <1>6 DEF ProducersOK
    <2> QED BY <1>1, <1>2, <1>6, <1>10, <2>1, <2>2, QuietProducers
  <1>11. CASE GatherBegin(c) /\ safe_tail_mtx = 0
    <2>1. /\ q_safe' = q_safe /\ safe_tail_mtx' = 1 /\ pc'[c] = "gather" /\ i'[c] = 0
          /\ num'[c] = Uint(lt - st)
      BY <1>3, <1>11 DEF GatherBegin, Goto, Set
    <2>2. num'[c] = lt - st
      BY <1>1, <2>1, Indices
    <2>3. (num'[c] - i'[c]) + q_safe'.tail <= q_locked'.tail
      BY <1>4, <1>6, <2>1, <2>2
    <2>4. \A d \in Consumers : pc[d] # "gather"
      BY <1>1, <1>11 DEF MutexesOK
    <2>5. MutexesOK'
      BY <1>1, <1>2, <1>6, <1>9, <2>1, <2>3, <2>4, MutexStep
    <2> QED BY <1>2, <1>8, <1>10, <2>1, <2>5 DEF IInv, QueueInv
  <1>12. CASE GatherBegin(c) /\ safe_tail_mtx # 0
    <2>1. q_safe' = q_safe /\ safe_tail_mtx' = safe_tail_mtx /\ pc'[c] = "size"
      BY <1>3, <1>12 DEF GatherBegin, Goto
    <2>2. \A d \in Consumers : pc[d] = "gather" => safe_tail_mtx' = 1
      BY <1>1, <2>1 DEF MutexesOK
    <2>3. MutexesOK'
      BY <1>1, <1>2, <1>6, <1>9, <2>1, <2>2, MutexStep
    <2> QED BY <1>2, <1>8, <1>10, <2>1, <2>3 DEF IInv, QueueInv
  <1>13. CASE GatherEnd(c)
    <2>1. q_safe' = q_safe /\ safe_tail_mtx' = 0 /\ pc[c] = "gather" /\ pc'[c] = "size"
      BY <1>3, <1>13 DEF GatherEnd, Goto
    <2>2. \A d \in Consumers : d # c => pc[d] # "gather"
      BY <1>1, <2>1 DEF MutexesOK
    <2>3. MutexesOK'
      BY <1>1, <1>2, <1>6, <1>9, <2>1, <2>2, MutexStep
    <2> QED BY <1>2, <1>8, <1>10, <2>1, <2>3 DEF IInv, QueueInv
  <1>14. CASE GatherNext(c)
    <2>1. /\ pc[c] = "gather" /\ pc' = pc /\ q_safe' = Advance(q_safe) /\ num' = num
          /\ i'[c] = i[c] + 1 /\ safe_tail_mtx' = safe_tail_mtx
          /\ i[c] < num[c] /\ queue[Slot(st)].id # 0
      BY <1>3, <1>14 DEF GatherNext, HasData, Set
    <2>2. safe_tail_mtx = 1 /\ (num[c] - i[c]) + st <= lt
      BY <1>1, <2>1 DEF MutexesOK
    <2>3. i[c] \in Int /\ num[c] \in Int
      BY <1>3
    <2>4. st < lt
      BY <1>4, <2>1, <2>2, <2>3
    <2>5. q_safe'.tail = st + 1
      BY <1>1, <2>1, <2>4, Indices DEF TypeOK, QueueRange
    <2>6. RangesNested'
      <3>1. sh <= st + 1 /\ st + 1 <= lt
        BY <1>4, <1>5, <2>4
      <3> QED BY <1>5, <1>6, <1>7, <2>5, <3>1 DEF RangesNested
    <2>7. st \in lh .. lh + N - 1 /\ queue[Slot(st)].id = st + 1
      <3>1. st \in lh .. lh + N - 1
        BY <1>4, <1>5, <2>4, Sizes
      <3> QED BY <1>1, <2>1, <3>1 DEF SlotsOK
    <2>8. SlotsOK'
      <3> SUFFICES ASSUME NEW k \in lh .. lh + N - 1
                   PROVE  /\ k >= lt => queue[Slot(k)].id = 0
                          /\ k \in sh .. (st + 1) - 1 => queue[Slot(k)].id = k + 1
                          /\ queue[Slot(k)].id \in {0, k + 1}
        BY <1>6, <1>7, <2>5 DEF SlotsOK
      <3>1. k \in sh .. (st + 1) - 1 => k \in sh .. st - 1 \/ k = st
        BY <1>4, <1>5
      <3> QED BY <1>1, <2>7, <3>1 DEF SlotsOK
    <2>9. ProducersOK'
      <3>1. ASSUME NEW p \in Producers, pc[p] = "write_id"
            PROVE  snap[p].tail \in st + 1 .. lt - 1
        <4>1. snap[p].tail \in st .. lt - 1 /\ queue[Slot(snap[p].tail)].id = 0
          BY <1>1, <3>1 DEF ProducersOK
        <4>2. snap[p].tail # st
          BY <2>1, <4>1
        <4> QED BY <1>4, <4>1, <4>2
      <3> QED BY <1>1, <1>2, <1>6, <2>5, <3>1 DEF ProducersOK
    <2>10. SnapsOK'
      BY <1>1, <1>2 DEF SnapsOK, IsFull, Length
    <2>11. MutexesOK'
      <3>1. (num'[c] - i'[c]) + q_safe'.tail <= q_locked'.tail
        BY <1>4, <1>6, <2>1, <2>2, <2>3, <2>5
      <3>2. \A d \in Consumers : d # c => pc[d] # "gather"
        BY <1>1, <2>1 DEF MutexesOK
      <3> QED BY <1>1, <1>2, <1>6, <1>9, <2>1, <2>2, <3>1, <3>2, MutexStep
    <2> QED BY <1>2, <1>8, <2>6, <2>8, <2>9, <2>10, <2>11 DEF IInv, QueueInv
  <1> QED BY <1>11, <1>12, <1>13, <1>14

\* The swap of dequeue(): the batch leaves the safe range and becomes a claim.
LEMMA DequeueEffect ==
  ASSUME IInv, MaxMsgs < W, NEW c \in Consumers, DequeueCas(c), q_safe = snap[c]
  PROVE  \E n \in Nat :
           /\ n > 0 /\ q_safe.head + n <= q_safe.tail
           /\ q_safe' = [q_safe EXCEPT !.head = q_safe.head + n]
           /\ range'[c] = [head |-> q_safe.head, tail |-> q_safe.head + n]
           /\ i'[c] = q_safe.head /\ pc[c] = "dequeue" /\ pc'[c] = "handle"
           /\ UNCHANGED <<q_locked, safe_tail_mtx, locked_head_mtx, queue, got>>
  <1> DEFINE n == AtMost(num[c], Length(snap[c]))
  <1>1. TypeOK /\ RangesNested /\ ProducersOK /\ ClaimsOK
    BY DEF IInv, QueueInv
  <1>2. /\ q_safe.head \in Nat /\ q_safe.tail \in Nat
        /\ Length(snap[c]) = q_safe.tail - q_safe.head
    BY <1>1, Indices
  <1>3. /\ pc[c] = "dequeue" /\ Length(snap[c]) # 0 /\ c \in Actor
        /\ pc \in [Actor -> Labels] /\ i \in [Actor -> Nat] /\ range \in [Consumers -> QueueRange]
        /\ num[c] \in Int
    BY <1>1 DEF DequeueCas, TypeOK, Actor
  <1>4. num[c] > 0 /\ q_safe.head <= q_safe.tail
    BY <1>1, <1>3 DEF ClaimsOK, RangesNested
  <1>5. n \in Nat /\ n > 0 /\ q_safe.head + n <= q_safe.tail
    BY <1>2, <1>3, <1>4 DEF AtMost
  <1>6. /\ q_safe' = [q_safe EXCEPT !.head = Ushort(q_safe.head + n)]
        /\ DequeueReturn(c, [head |-> q_safe.head, tail |-> Ushort(q_safe.head + n)])
        /\ UNCHANGED <<q_locked, safe_tail_mtx, locked_head_mtx, queue, got>>
    BY DEF DequeueCas
  <1> HIDE DEF n
  <1>7. Ushort(q_safe.head + n) = q_safe.head + n
    BY <1>1, <1>5, Indices
  <1>8. /\ range'[c] = [head |-> q_safe.head, tail |-> q_safe.head + n]
        /\ i'[c] = q_safe.head /\ pc'[c] = "handle"
    BY <1>3, <1>6, <1>7 DEF DequeueReturn, Goto, Set
  <1> QED BY <1>3, <1>5, <1>6, <1>7, <1>8

\* A batch that is dequeued becomes the claim of its worker alone.
LEMMA DequeueKept ==
  ASSUME IInv, MaxMsgs < W, NEW c \in Consumers, DequeueCas(c), q_safe = snap[c]
  PROVE  IInv'
  <1>1. TypeOK /\ RangesNested /\ SlotsOK /\ ProducersOK /\ ClaimsOK /\ MutexesOK /\ SnapsOK
    BY DEF IInv, QueueInv
  <1>2. /\ TypeOK' /\ UNCHANGED <<msg, sent>>
        /\ \A d \in Consumers : d # c =>
             pc'[d] = pc[d] /\ i'[d] = i[d] /\ range'[d] = range[d] /\ num'[d] = num[d]
        /\ \A p \in Producers : pc'[p] = pc[p] /\ snap'[p] = snap[p] /\ msg'[p] = msg[p]
    BY WorkerFrame DEF Run
  <1> DEFINE lh == q_locked.head
             lt == q_locked.tail
             sh == q_safe.head
             st == q_safe.tail
  <1>3. lh \in Nat /\ lt \in Nat /\ sh \in Nat /\ st \in Nat
    BY <1>1, Indices
  <1>4. lh <= sh /\ sh <= st /\ st <= lt /\ lt <= lh + N
    BY <1>1 DEF RangesNested
  <1>5. PICK n \in Nat :
           /\ n > 0 /\ sh + n <= st
           /\ q_safe' = [q_safe EXCEPT !.head = sh + n]
           /\ range'[c] = [head |-> sh, tail |-> sh + n]
           /\ i'[c] = sh /\ pc[c] = "dequeue" /\ pc'[c] = "handle"
           /\ UNCHANGED <<q_locked, safe_tail_mtx, locked_head_mtx, queue, got>>
    BY DequeueEffect
  <1>6. /\ q_safe'.head = sh + n /\ q_safe'.tail = st
        /\ range'[c].head = sh /\ range'[c].tail = sh + n
    BY <1>1, <1>5 DEF TypeOK, QueueRange
  <1>7. RangesNested'
    <2>1. lh <= sh + n
      BY <1>3, <1>4
    <2> QED BY <1>4, <1>5, <1>6, <2>1 DEF RangesNested
  <1>8. SlotsOK'
    <2>1. \A k \in sh + n .. st - 1 : k \in sh .. st - 1
      BY <1>3
    <2> QED BY <1>1, <1>5, <1>6, <2>1 DEF SlotsOK
  <1>9. ProducersOK' /\ SnapsOK'
    <2>1. \A p \in Producers : pc[p] = "write_id" => queue'[Slot(snap[p].tail)].id = 0
      BY <1>1, <1>5 DEF ProducersOK
    <2> QED BY <1>1, <1>2, <1>5, <1>6, <2>1, QuietProducers
  <1>10. ClaimsOK'
    <2>1. Claimed(c)' = sh .. (sh + n) - 1
      BY <1>5, <1>6 DEF Claimed
    <2>2. \A d \in Consumers : d # c => Claimed(d)' = Claimed(d)
      BY <1>2 DEF Claimed
    <2>3. ASSUME NEW d \in Consumers, d # c, NEW k \in Claimed(d)
          PROVE  /\ k \in lh .. (sh + n) - 1 /\ queue[Slot(k)].id = k + 1 /\ k < sh
                 /\ \A e \in Consumers : e # d => k \notin Claimed(e)
      <3>1. /\ k \in lh .. sh - 1 /\ queue[Slot(k)].id = k + 1
            /\ \A e \in Consumers : e # d => k \notin Claimed(e)
        BY <1>1 DEF ClaimsOK
      <3>2. k \in lh .. (sh + n) - 1 /\ k < sh
        BY <1>3, <3>1
      <3> QED BY <3>1, <3>2
    <2>4. ASSUME NEW k \in sh .. (sh + n) - 1
          PROVE  k \in lh .. (sh + n) - 1 /\ queue[Slot(k)].id = k + 1 /\ ~(k < sh)
      <3>1. k \in lh .. (sh + n) - 1 /\ k \in lh .. lh + N - 1 /\ k \in sh .. st - 1 /\ ~(k < sh)
        BY <1>3, <1>4, <1>5, Sizes
      <3> QED BY <1>1, <3>1 DEF SlotsOK
    <2>5. ASSUME NEW d \in Consumers, NEW k \in Claimed(d)'
          PROVE  /\ k \in q_locked'.head .. q_safe'.head - 1
                 /\ queue'[Slot(k)].id = k + 1
                 /\ \A e \in Consumers : e # d => k \notin Claimed(e)'
      <3>1. CASE d = c
        <4>1. k \in sh .. (sh + n) - 1
          BY <2>1, <3>1
        <4>2. \A e \in Consumers : e # c => k \notin Claimed(e)
          BY <2>3, <2>4, <4>1
        <4> QED BY <1>5, <1>6, <2>2, <2>4, <3>1, <4>1, <4>2
      <3>2. CASE d # c
        <4>1. k \in Claimed(d)
          BY <2>2, <3>2
        <4>2. k \notin Claimed(c)'
          BY <2>1, <2>3, <2>4, <3>2, <4>1
        <4> QED BY <1>5, <1>6, <2>2, <2>3, <3>2, <4>1, <4>2
      <3> QED BY <3>1, <3>2
    <2>6. ASSUME NEW d \in Consumers
          PROVE  /\ pc'[d] = "handle" => i'[d] >= range'[d].head
                 /\ pc'[d] = "dequeue" => num'[d] > 0
      <3>1. CASE d = c
        BY <1>3, <1>5, <1>6, <3>1
      <3>2. CASE d # c
        BY <1>1, <1>2, <3>2 DEF ClaimsOK
      <3> QED BY <3>1, <3>2
    <2> QED BY <2>5, <2>6 DEF ClaimsOK
  <1>11. MutexesOK'
    <2>1. \A d \in Consumers : pc[d] = "gather" => safe_tail_mtx' = 1
      BY <1>1, <1>5 DEF MutexesOK
    <2>2. ASSUME NEW d \in Consumers, pc[d] = "collect"
          PROVE  locked_head_mtx' = 1 /\ (num[d] - i[d]) + lh <= q_safe'.head
      <3>1. locked_head_mtx = 1 /\ (num[d] - i[d]) + lh <= sh
        BY <1>1, <2>2 DEF MutexesOK
      <3>2. num[d] \in Int /\ i[d] \in Int
        BY <1>1 DEF TypeOK, Actor
      <3>3. (num[d] - i[d]) + lh <= sh + n
        BY <1>3, <3>1, <3>2
      <3> QED BY <1>5, <1>6, <3>1, <3>3
    <2> QED BY <1>1, <1>2, <1>5, <1>6, <2>1, <2>2, MutexStep
  <1> QED BY <1>2, <1>7, <1>8, <1>9, <1>10, <1>11 DEF IInv, QueueInv

\* release(): the first word of a claimed slot is cleared.
LEMMA ReleaseKept ==
  ASSUME IInv, MaxMsgs < W, NEW c \in Consumers, ReleaseNext(c)
  PROVE  IInv'
  <1>1. TypeOK /\ RangesNested /\ SlotsOK /\ ProducersOK /\ ClaimsOK /\ MutexesOK /\ SnapsOK
    BY DEF IInv, QueueInv
  <1>2. /\ TypeOK' /\ UNCHANGED <<msg, sent>>
        /\ \A d \in Consumers : d # c =>
             pc'[d] = pc[d] /\ i'[d] = i[d] /\ range'[d] = range[d] /\ num'[d] = num[d]
        /\ \A p \in Producers : pc'[p] = pc[p] /\ snap'[p] = snap[p] /\ msg'[p] = msg[p]
    BY WorkerFrame DEF Run
  <1> DEFINE lh == q_locked.head
             lt == q_locked.tail
             sh == q_safe.head
             st == q_safe.tail
             x == i[c]
  <1>3. lh \in Nat /\ lt \in Nat /\ sh \in Nat /\ st \in Nat
    BY <1>1, Indices
  <1>4. lh <= sh /\ sh <= st /\ st <= lt /\ lt <= lh + N
    BY <1>1 DEF RangesNested
  <1>5. x \in Nat /\ range[c].tail \in Nat
    BY <1>1, Sizes DEF TypeOK, QueueRange, Actor
  <1>6. /\ pc[c] = "release" /\ pc' = pc /\ x < range[c].tail /\ i'[c] = x + 1
        /\ range' = range /\ num' = num
        /\ UNCHANGED <<q_locked, q_safe, safe_tail_mtx, locked_head_mtx>>
        /\ queue' = [queue EXCEPT ![Slot(x)].id = 0]
    BY <1>1 DEF ReleaseNext, InRange, Set, TypeOK, Actor
  <1>7. Claimed(c) = x .. range[c].tail - 1 /\ Claimed(c)' = x + 1 .. range[c].tail - 1
    BY <1>6 DEF Claimed
  <1>8. x \in Claimed(c) /\ x \notin Claimed(c)' /\ Claimed(c)' \subseteq Claimed(c)
    BY <1>5, <1>6, <1>7
  <1>9. x \in lh .. sh - 1 /\ \A d \in Consumers : d # c => x \notin Claimed(d)
    BY <1>1, <1>8 DEF ClaimsOK
  <1>10. x \in lh .. lh + N - 1 /\ Slot(x) \in 0 .. N - 1
    BY <1>3, <1>4, <1>5, <1>9, Conversions, Sizes
  <1>11. /\ queue'[Slot(x)].id = 0
         /\ \A s \in 0 .. N - 1 : s # Slot(x) => queue'[s].id = queue[s].id
    <2>1. queue[Slot(x)] \in Message
      BY <1>1, <1>10 DEF TypeOK
    <2>2. queue'[Slot(x)] = [queue[Slot(x)] EXCEPT !.id = 0]
      BY <1>1, <1>6, <1>10 DEF TypeOK
    <2>3. queue'[Slot(x)].id = 0
      BY <2>1, <2>2 DEF Message
    <2> QED BY <1>1, <1>6, <2>3 DEF TypeOK
  <1>12. ASSUME NEW k \in lh .. lh + N - 1, k # x
         PROVE  queue'[Slot(k)].id = queue[Slot(k)].id
    <2>1. Slot(k) # Slot(x) /\ Slot(k) \in 0 .. N - 1
      BY <1>3, <1>10, <1>12, Window
    <2> QED BY <1>11, <2>1
  <1>13. RangesNested'
    BY <1>1, <1>6 DEF RangesNested
  <1>14. SlotsOK'
    <2> SUFFICES ASSUME NEW k \in lh .. lh + N - 1
                 PROVE  /\ k >= lt => queue'[Slot(k)].id = 0
                        /\ k \in sh .. st - 1 => queue'[Slot(k)].id = k + 1
                        /\ queue'[Slot(k)].id \in {0, k + 1}
      BY <1>6 DEF SlotsOK
    <2>1. CASE k = x
      <3>1. k \notin sh .. st - 1
        BY <1>3, <1>9, <2>1
      <3> QED BY <1>11, <2>1, <3>1
    <2>2. CASE k # x
      BY <1>1, <1>12, <2>2 DEF SlotsOK
    <2> QED BY <2>1, <2>2
  <1>15. ProducersOK' /\ SnapsOK'
    <2>1. ASSUME NEW p \in Producers, pc[p] = "write_id"
          PROVE  queue'[Slot(snap[p].tail)].id = 0
      <3>1. snap[p].tail \in st .. lt - 1 /\ queue[Slot(snap[p].tail)].id = 0
        BY <1>1, <2>1 DEF ProducersOK
      <3>2. snap[p].tail \in lh .. lh + N - 1 /\ snap[p].tail # x
        BY <1>3, <1>4, <1>9, <3>1, Sizes
      <3> QED BY <1>12, <3>1, <3>2
    <2> QED BY <1>1, <1>2, <1>6, <2>1, QuietProducers
  <1>16. ClaimsOK'
    <2>1. ASSUME NEW d \in Consumers, NEW k \in Claimed(d), d # c \/ k \in Claimed(c)'
          PROVE  k \in lh .. sh - 1 /\ queue'[Slot(k)].id = queue[Slot(k)].id
      <3>1. k \in lh .. sh - 1 /\ k # x
        BY <1>1, <1>8, <1>9, <2>1 DEF ClaimsOK
      <3>2. k \in lh .. lh + N - 1
        BY <1>3, <1>4, <3>1, Sizes
      <3> QED BY <1>12, <3>1, <3>2
    <2> QED BY <1>1, <1>2, <1>6, <1>8, <2>1, ClaimStep
  <1>17. MutexesOK'
    <2>1. \A d \in Consumers : pc[d] = "gather" => safe_tail_mtx' = 1
      BY <1>1, <1>6 DEF MutexesOK
    <2>2. \A d \in Consumers : pc[d] = "collect" =>
            locked_head_mtx' = 1 /\ (num[d] - i[d]) + q_locked.head <= q_safe'.head
      BY <1>1, <1>6 DEF MutexesOK
    <2> QED BY <1>1, <1>2, <1>6, <2>1, <2>2, MutexStep
  <1> QED BY <1>2, <1>13, <1>14, <1>15, <1>16, <1>17 DEF IInv, QueueInv

\* garbage_collect(): released slots leave the locked range.
LEMMA CollectKept ==
  ASSUME IInv, MaxMsgs < W, NEW c \in Consumers,
         CollectBegin(c) \/ CollectNext(c) \/ CollectEnd(c)
  PROVE  IInv'
  <1>1. TypeOK /\ RangesNested /\ SlotsOK /\ ProducersOK /\ ClaimsOK /\ MutexesOK /\ SnapsOK
    BY DEF IInv, QueueInv
  <1>2. /\ TypeOK' /\ UNCHANGED <<msg, sent>>
        /\ \A d \in Consumers : d # c =>
             pc'[d] = pc[d] /\ i'[d] = i[d] /\ range'[d] = range[d] /\ num'[d] = num[d]
        /\ \A p \in Producers : pc'[p] = pc[p] /\ snap'[p] = snap[p] /\ msg'[p] = msg[p]
    BY WorkerFrame DEF Run
  <1>3. /\ pc \in [Actor -> Labels] /\ i \in [Actor -> Nat] /\ num \in [Consumers -> Int]
        /\ c \in Actor
    BY <1>1 DEF TypeOK, Actor
  <1> DEFINE lh == q_locked.head
             lt == q_locked.tail
             sh == q_safe.head
             st == q_safe.tail
  <1>4. lh \in Nat /\ lt \in Nat /\ sh \in Nat /\ st \in Nat
    BY <1>1, Indices
  <1>5. lh <= sh /\ sh <= st /\ st <= lt /\ lt <= lh + N
    BY <1>1 DEF RangesNested
  <1>6. UNCHANGED <<q_safe, safe_tail_mtx, queue>>
    BY DEF CollectBegin, CollectNext, CollectEnd
  <1>7. pc'[c] \in {"collect", "idle"} /\ Claimed(c)' = {}
    <2>1. pc'[c] \in {"collect", "idle"}
      BY <1>3 DEF CollectBegin, CollectNext, CollectEnd, Return, Goto
    <2> QED BY <2>1 DEF Claimed
  <1>8. ProducersOK' /\ SnapsOK'
    <2>1. \A p \in Producers : pc[p] = "write_id" => queue'[Slot(snap[p].tail)].id = 0
      BY <1>1, <1>6 DEF ProducersOK
    <2>2. q_locked'.tail = lt
      BY <1>1 DEF CollectBegin, CollectNext, CollectEnd, TypeOK, QueueRange
    <2> QED BY <1>1, <1>2, <1>6, <2>1, <2>2, QuietProducers
  <1>9. \A d \in Consumers : pc[d] = "gather" => safe_tail_mtx' = 1
    BY <1>1, <1>6 DEF MutexesOK
  <1>10. ASSUME q_locked' = q_locked PROVE RangesNested' /\ SlotsOK' /\ ClaimsOK'
    <2>1. RangesNested' /\ SlotsOK'
      BY <1>1, <1>6, <1>10, QuietSlots
    <2>2. \A d \in Consumers : \A k \in Claimed(d) :
            /\ k \in q_locked'.head .. q_safe'.head - 1
            /\ queue'[Slot(k)].id = queue[Slot(k)].id
      BY <1>1, <1>6, <1>10 DEF ClaimsOK
    <2> QED BY <1>1, <1>2, <1>7, <2>1, <2>2, ClaimStep
  <1>11. CASE CollectBegin(c) /\ locked_head_mtx = 0
    <2>1. /\ q_locked' = q_locked /\ locked_head_mtx' = 1 /\ pc'[c] = "collect" /\ i'[c] = 0
          /\ num'[c] = sh - lh
      BY <1>3, <1>11 DEF CollectBegin, Goto, Set
    <2>2. (num'[c] - i'[c]) + q_locked'.head <= q_safe'.head
      BY <1>4, <1>6, <2>1
    <2>3. \A d \in Consumers : pc[d] # "collect"
      BY <1>1, <1>11 DEF MutexesOK
    <2>4. MutexesOK'
      BY <1>1, <1>2, <1>6, <1>9, <2>1, <2>2, <2>3, MutexStep
    <2> QED BY <1>2, <1>8, <1>10, <2>1, <2>4 DEF IInv, QueueInv
  <1>12. CASE CollectBegin(c) /\ locked_head_mtx # 0
    <2>1. q_locked' = q_locked /\ locked_head_mtx' = locked_head_mtx /\ pc'[c] = "idle"
      BY <1>3, <1>12 DEF CollectBegin, Return, Goto
    <2>2. \A d \in Consumers : pc[d] = "collect" =>
            locked_head_mtx' = 1 /\ (num[d] - i[d]) + q_locked.head <= q_safe'.head
      BY <1>1, <1>6, <2>1 DEF MutexesOK
    <2>3. MutexesOK'
      BY <1>1, <1>2, <1>6, <1>9, <2>1, <2>2, MutexStep
    <2> QED BY <1>2, <1>8, <1>10, <2>1, <2>3 DEF IInv, QueueInv
  <1>13. CASE CollectEnd(c)
    <2>1. q_locked' = q_locked /\ locked_head_mtx' = 0 /\ pc[c] = "collect" /\ pc'[c] = "idle"
      BY <1>3, <1>13 DEF CollectEnd, Return, Goto
    <2>2. \A d \in Consumers : d # c => pc[d] # "collect"
      BY <1>1, <2>1 DEF MutexesOK
    <2>3. MutexesOK'
      BY <1>1, <1>2, <1>6, <1>9, <2>1, <2>2, MutexStep
    <2> QED BY <1>2, <1>8, <1>10, <2>1, <2>3 DEF IInv, QueueInv
  <1>14. CASE CollectNext(c)
    <2>1. /\ pc[c] = "collect" /\ pc' = pc /\ num' = num /\ i'[c] = i[c] + 1
          /\ q_locked' = [q_locked EXCEPT !.head = Ushort(lh + 1)]
          /\ locked_head_mtx' = locked_head_mtx
          /\ i[c] < num[c] /\ queue[Slot(lh)].id = 0
      BY <1>3, <1>14 DEF CollectNext, IsReleased, Set
    <2>2. locked_head_mtx = 1 /\ (num[c] - i[c]) + lh <= sh
      BY <1>1, <2>1 DEF MutexesOK
    <2>3. i[c] \in Int /\ num[c] \in Int
      BY <1>3
    <2>4. lh < sh
      BY <1>4, <2>1, <2>2, <2>3
    <2>5. q_locked'.head = lh + 1 /\ q_locked'.tail = lt
      BY <1>1, <2>1, <2>4, Indices DEF TypeOK, QueueRange
    <2>6. RangesNested'
      <3>1. lh + 1 <= sh /\ lt <= (lh + 1) + N
        BY <1>4, <1>5, <2>4, Sizes
      <3> QED BY <1>5, <1>6, <2>5, <3>1 DEF RangesNested
    <2>7. SlotsOK'
      <3> SUFFICES ASSUME NEW k \in lh + 1 .. (lh + 1) + N - 1
                   PROVE  /\ k >= lt => queue[Slot(k)].id = 0
                          /\ k \in sh .. st - 1 => queue[Slot(k)].id = k + 1
                          /\ queue[Slot(k)].id \in {0, k + 1}
        BY <1>6, <2>5 DEF SlotsOK
      <3>1. CASE k = lh + N
        <4>1. Slot(k) = Slot(lh)
          BY <1>4, <3>1, SlotAgain
        <4>2. k \notin sh .. st - 1
          BY <1>4, <1>5, <3>1, Sizes
        <4> QED BY <2>1, <4>1, <4>2
      <3>2. CASE k # lh + N
        <4>1. k \in lh .. lh + N - 1
          BY <1>4, <3>2, Sizes
        <4> QED BY <1>1, <4>1 DEF SlotsOK
      <3> QED BY <3>1, <3>2
    <2>8. ClaimsOK'
      <3>1. ASSUME NEW d \in Consumers, NEW k \in Claimed(d)
            PROVE  k \in q_locked'.head .. q_safe'.head - 1
                   /\ queue'[Slot(k)].id = queue[Slot(k)].id
        <4>1. k \in lh .. sh - 1 /\ queue[Slot(k)].id = k + 1
          BY <1>1 DEF ClaimsOK
        <4>2. k # lh
          BY <1>4, <2>1, <4>1
        <4>3. k \in lh + 1 .. sh - 1
          BY <1>4, <4>1, <4>2
        <4> QED BY <1>6, <2>5, <4>3
      <3> QED BY <1>1, <1>2, <1>7, <3>1, ClaimStep
    <2>9. MutexesOK'
      <3>1. (num'[c] - i'[c]) + q_locked'.head <= q_safe'.head
        BY <1>4, <1>6, <2>1, <2>2, <2>3, <2>5
      <3>2. \A d \in Consumers : d # c => pc[d] # "collect"
        BY <1>1, <2>1 DEF MutexesOK
      <3> QED BY <1>1, <1>2, <1>6, <1>9, <2>1, <2>2, <2>5, <3>1, <3>2, MutexStep
    <2> QED BY <1>2, <1>8, <2>6, <2>7, <2>8, <2>9 DEF IInv, QueueInv
  <1> QED BY <1>11, <1>12, <1>13, <1>14

-----------------------------------------------------------------------------
(* The theorems. *)

\* IInv is inductive.
LEMMA InvInductive ==
  ASSUME MaxMsgs < W
  PROVE  /\ Init => IInv
         /\ IInv /\ [Next]_vars => IInv'
  <1>1. ASSUME Init PROVE IInv
    <2>1. TypeOK
      BY <1>1, InitTypes
    <2>2. q_locked.head = 0 /\ q_locked.tail = 0 /\ q_safe.head = 0 /\ q_safe.tail = 0 /\ sent = 0
      BY <1>1 DEF Init, Empty
    <2>3. \A a \in Actor : pc[a] = "idle"
      BY <1>1 DEF Init
    <2>4. RangesNested
      BY <2>2, Sizes DEF RangesNested
    <2>5. SlotsOK
      <3>1. \A k \in 0 .. 0 + N - 1 : Slot(k) \in 0 .. N - 1
        BY Conversions
      <3>2. \A k \in 0 .. 0 + N - 1 : queue[Slot(k)].id = 0
        BY <1>1, <3>1 DEF Init
      <3>3. \A k \in 0 .. 0 + N - 1 : k \notin 0 .. 0 - 1
        OBVIOUS
      <3> QED BY <2>2, <3>2, <3>3 DEF SlotsOK
    <2>6. ProducersOK /\ SnapsOK
      BY <2>2, <2>3 DEF ProducersOK, SnapsOK, Actor
    <2>7. ClaimsOK /\ MutexesOK
      BY <2>3 DEF ClaimsOK, Claimed, MutexesOK, Actor
    <2> QED BY <2>1, <2>4, <2>5, <2>6, <2>7 DEF IInv, QueueInv
  <1>2. ASSUME IInv, [Next]_vars PROVE IInv'
    <2>1. ASSUME NEW c \in Consumers, Run(c) PROVE IInv'
      BY <1>2, <2>1, GatherKept, WorkerLocalKept, DequeueKept, ReleaseKept, CollectKept DEF Run
    <2>2. CASE UNCHANGED vars
      BY <1>2, <2>2 DEF vars, queueVars, localVars, IInv, QueueInv, TypeOK, RangesNested, SlotsOK,
         ProducersOK, ClaimsOK, Claimed, MutexesOK, SnapsOK, IsFull, Length
    <2> QED BY <1>2, <2>1, <2>2, AtomicKept, ProducerKept DEF Next
  <1> QED BY <1>1, <1>2

\* While the indices have not wrapped, no slot is reused before its message has
\* been handled and released, the four indices keep their order, and a dequeued
\* message has one owner: whatever producers and consumers do between a snapshot
\* and its compare-and-swap, for every size of the queue and of a batch.
THEOREM QueueSafe ==
  ASSUME MaxMsgs < W
  PROVE  Spec => []QueueInv
  <1>1. IInv => QueueInv
    BY DEF IInv
  <1> QED BY <1>1, InvInductive, PTL DEF Spec

-----------------------------------------------------------------------------
(* The channel that the queue implements. *)

Waiting == [j \in 1 .. q_locked.tail - q_safe.head |-> q_safe.head + j]
Pending == UNION {Unhandled(c) : c \in Consumers}
Handled == [j \in 1 .. Len(got) |-> got[j].id]

\* Consecutive numbers, with one more at the end, or without the first ones.
LEMMA Consecutive ==
  ASSUME NEW h \in Nat, NEW n \in Nat
  PROVE  LET w == [j \in 1 .. n |-> h + j] IN
         /\ w \in Seq(Nat) /\ Len(w) = n
         /\ Append(w, (h + n) + 1) = [j \in 1 .. n + 1 |-> h + j]
         /\ \A m \in 1 .. n : /\ SubSeq(w, m + 1, n) = [j \in 1 .. n - m |-> (h + m) + j]
                              /\ {w[j] : j \in 1 .. m} = h + 1 .. h + m
  <1> DEFINE w == [j \in 1 .. n |-> h + j]
  <1>1. w \in Seq(Nat) /\ Len(w) = n
    <2>1. \A j \in 1 .. n : h + j \in Nat
      OBVIOUS
    <2> QED BY <2>1
  <1>2. Append(w, (h + n) + 1) = [j \in 1 .. n + 1 |-> h + j]
    <2> DEFINE a == Append(w, (h + n) + 1)
    <2>1. /\ a \in Seq(Nat) /\ Len(a) = n + 1 /\ a[n + 1] = (h + n) + 1
          /\ \A j \in 1 .. n : a[j] = w[j]
      BY <1>1
    <2>2. \A j \in 1 .. n + 1 : a[j] = h + j
      <3>1. \A j \in 1 .. n + 1 : j \in 1 .. n \/ j = n + 1
        OBVIOUS
      <3>2. \A j \in 1 .. n : w[j] = h + j
        OBVIOUS
      <3>3. (h + n) + 1 = h + (n + 1)
        OBVIOUS
      <3> HIDE DEF a, w
      <3> QED BY <2>1, <3>1, <3>2, <3>3
    <2>3. a = [j \in 1 .. Len(a) |-> a[j]]
      <3> HIDE DEF a
      <3> QED BY <2>1
    <2> HIDE DEF a
    <2>4. a = [j \in 1 .. n + 1 |-> h + j]
      BY <2>1, <2>2, <2>3
    <2> QED BY <2>4 DEF a
  <1>3. ASSUME NEW m \in 1 .. n
        PROVE  SubSeq(w, m + 1, n) = [j \in 1 .. n - m |-> (h + m) + j]
    <2> DEFINE s == SubSeq(w, m + 1, n)
    <2>1. \A j \in m + 1 .. n : w[j] \in Nat
      OBVIOUS
    <2> HIDE DEF w
    <2>2. m + 1 \in Int /\ n \in Int
      OBVIOUS
    <2>3. /\ s \in Seq(Nat)
          /\ Len(s) = IF m + 1 <= n THEN (n - (m + 1)) + 1 ELSE 0
          /\ \A j \in 1 .. (n - (m + 1)) + 1 : s[j] = w[(m + 1) + (j - 1)]
      BY <1>1
    <2>4. Len(s) = n - m /\ (n - (m + 1)) + 1 = n - m
      BY <2>3
    <2>5. ASSUME NEW j \in 1 .. n - m PROVE s[j] = (h + m) + j
      <3>1. (m + 1) + (j - 1) = m + j /\ m + j \in 1 .. n /\ h + (m + j) = (h + m) + j
        OBVIOUS
      <3>2. w[m + j] = h + (m + j)
        BY <3>1 DEF w
      <3> HIDE DEF s
      <3> QED BY <2>3, <2>4, <3>1, <3>2
    <2> HIDE DEF s
    <2>6. s = [j \in 1 .. Len(s) |-> s[j]]
      BY <2>3
    <2>7. s = [j \in 1 .. n - m |-> (h + m) + j]
      BY <2>4, <2>5, <2>6
    <2> QED BY <2>7 DEF s
  <1>4. ASSUME NEW m \in 1 .. n
        PROVE  {w[j] : j \in 1 .. m} = h + 1 .. h + m
    <2>1. \A j \in 1 .. m : w[j] = h + j
      OBVIOUS
    <2>2. ASSUME NEW x \in h + 1 .. h + m PROVE x - h \in 1 .. m /\ x = h + (x - h)
      OBVIOUS
    <2>3. \A j \in 1 .. m : h + j \in h + 1 .. h + m
      OBVIOUS
    <2> HIDE DEF w
    <2> QED BY <2>1, <2>2, <2>3
  <1> QED BY <1>1, <1>2, <1>3, <1>4

\* What is unhandled was claimed.
LEMMA UnhandledClaimed ==
  ASSUME IInv, NEW c \in Consumers, NEW x \in Unhandled(c)
  PROVE  x - 1 \in Claimed(c) /\ x \in Int /\ pc[c] = "handle"
  <1>1. /\ i[c] \in Int /\ range[c].head \in Int /\ range[c].tail \in Int
    BY Sizes DEF IInv, QueueInv, TypeOK, Actor, QueueRange
  <1>2. pc[c] = "handle" /\ x \in i[c] + 1 .. range[c].tail
    BY DEF Unhandled
  <1>3. i[c] >= range[c].head
    BY <1>2 DEF IInv, QueueInv, ClaimsOK
  <1>4. x - 1 \in range[c].head .. range[c].tail - 1 /\ x \in Int
    BY <1>1, <1>2, <1>3
  <1> QED BY <1>2, <1>4 DEF Claimed

\* Claimed messages take up room between the two heads.
LEMMA PendingBound ==
  ASSUME IInv, MaxMsgs < W
  PROVE  /\ IsFiniteSet(Pending)
         /\ Cardinality(Pending) \in Nat
         /\ Cardinality(Pending) <= q_safe.head - q_locked.head
  <1> DEFINE lh == q_locked.head
             sh == q_safe.head
  <1>1. lh \in Nat /\ sh \in Nat /\ lh <= sh
    BY Indices DEF IInv, QueueInv, RangesNested
  <1>2. Pending \subseteq lh + 1 .. sh
    <2> SUFFICES ASSUME NEW c \in Consumers, NEW x \in Unhandled(c) PROVE x \in lh + 1 .. sh
      BY DEF Pending
    <2>1. x - 1 \in Claimed(c) /\ x \in Int
      BY UnhandledClaimed
    <2>2. x - 1 \in lh .. sh - 1
      BY <2>1 DEF IInv, QueueInv, ClaimsOK
    <2> QED BY <1>1, <2>1, <2>2
  <1>3. IsFiniteSet(lh + 1 .. sh) /\ Cardinality(lh + 1 .. sh) = sh - lh
    <2>1. lh + 1 \in Int /\ sh \in Int
      BY <1>1
    <2>2. /\ IsFiniteSet(lh + 1 .. sh)
          /\ Cardinality(lh + 1 .. sh) = IF lh + 1 > sh THEN 0 ELSE (sh - (lh + 1)) + 1
      BY <2>1, FS_Interval
    <2>3. (IF lh + 1 > sh THEN 0 ELSE (sh - (lh + 1)) + 1) = sh - lh
      BY <1>1
    <2> QED BY <2>2, <2>3
  <1>4. IsFiniteSet(Pending) /\ Cardinality(Pending) <= Cardinality(lh + 1 .. sh)
    BY <1>2, <1>3, FS_Subset
  <1>5. Cardinality(Pending) \in Nat
    BY <1>4, FS_CardinalityType
  <1> QED BY <1>3, <1>4, <1>5

\* The channel counts with the cardinality of its own module.
LEMMA SameCount == Channel!Cardinality(Pending) = Cardinality(Pending)
  BY Zenon DEF Channel!Cardinality, Cardinality

\* An accepted message is put into the channel, which had room for it.
LEMMA PutStep ==
  ASSUME IInv, MaxMsgs < W, ~ IsFull(q_locked), sent < MaxMsgs,
         q_locked' = Advance(q_locked), sent' = sent + 1, UNCHANGED <<q_safe, got>>,
         \A d \in Consumers : pc'[d] = pc[d] /\ i'[d] = i[d] /\ range'[d] = range[d]
  PROVE  Channel!Put
  <1> DEFINE lh == q_locked.head
             lt == q_locked.tail
             sh == q_safe.head
  <1>1. TypeOK /\ RangesNested /\ ProducersOK
    BY DEF IInv, QueueInv
  <1>2. /\ lh \in Nat /\ lt \in Nat /\ sh \in Nat /\ ~(lt - lh >= N)
        /\ Advance(q_locked) = [q_locked EXCEPT !.tail = @ + 1]
    BY <1>1, Indices
  <1>3. q_locked'.tail = lt + 1 /\ lt = sent /\ lh <= sh /\ sh <= lt
    BY <1>1, <1>2 DEF TypeOK, QueueRange, ProducersOK, RangesNested
  <1>4. lt - sh \in Nat /\ (lt - sh) + 1 = (lt + 1) - sh /\ (sh + (lt - sh)) + 1 = sent + 1
    BY <1>2, <1>3
  <1>5. /\ Waiting \in Seq(Nat) /\ Len(Waiting) = lt - sh
        /\ Append(Waiting, sent + 1) = [j \in 1 .. (lt + 1) - sh |-> sh + j]
    <2> DEFINE n == lt - sh
               w == [j \in 1 .. n |-> sh + j]
    <2>1. Waiting = w
      BY DEF Waiting
    <2>2. n \in Nat /\ n + 1 = (lt + 1) - sh /\ (sh + n) + 1 = sent + 1
      BY <1>4
    <2>3. w \in Seq(Nat) /\ Len(w) = n /\ Append(w, (sh + n) + 1) = [j \in 1 .. n + 1 |-> sh + j]
      <3> HIDE DEF n
      <3> QED BY <1>2, <2>2, Consecutive
    <2> HIDE DEF w
    <2> QED BY <2>1, <2>2, <2>3
  <1>6. Waiting' = Append(Waiting, sent')
    BY <1>3, <1>5 DEF Waiting
  <1>7. Pending' = Pending /\ Handled' = Handled
    <2>1. \A d \in Consumers : Unhandled(d)' = Unhandled(d)
      BY DEF Unhandled
    <2> QED BY <2>1 DEF Pending, Handled
  <1>8. Len(Waiting) + Cardinality(Pending) < N
    <2>1. Cardinality(Pending) \in Nat /\ Cardinality(Pending) <= sh - lh /\ Len(Waiting) = lt - sh
      BY <1>5, PendingBound
    <2>2. ASSUME NEW a, NEW b \in Nat, a = lt - sh, b <= sh - lh PROVE a + b < N
      BY <1>2, <1>3, <2>2, Sizes
    <2> QED BY <2>1, <2>2, Zenon
  <1>9. Len(Waiting) + Channel!Cardinality(Pending) < N
    BY <1>8, SameCount
  <1>10. sent' = sent + 1
    OBVIOUS
  <1> QED BY <1>6, <1>7, <1>9, <1>10, Zenon DEF Channel!Put, Waiting, Pending, Handled

\* dequeue() takes the batch from the channel.
LEMMA TakeStep ==
  ASSUME IInv, MaxMsgs < W, NEW c \in Consumers, DequeueCas(c), q_safe = snap[c]
  PROVE  \E k \in 1 .. Len(Waiting) : Channel!Take(k)
  <1> DEFINE lt == q_locked.tail
             sh == q_safe.head
             st == q_safe.tail
  <1>1. TypeOK /\ RangesNested /\ ProducersOK
    BY DEF IInv, QueueInv
  <1>2. lt \in Nat /\ sh \in Nat /\ st \in Nat /\ st <= lt
    BY <1>1, Indices DEF RangesNested
  <1>3. PICK n \in Nat :
           /\ n > 0 /\ sh + n <= st
           /\ q_safe' = [q_safe EXCEPT !.head = sh + n]
           /\ range'[c] = [head |-> sh, tail |-> sh + n]
           /\ i'[c] = sh /\ pc[c] = "dequeue" /\ pc'[c] = "handle"
           /\ UNCHANGED <<q_locked, safe_tail_mtx, locked_head_mtx, queue, got>>
    BY DequeueEffect
  <1>4. q_safe'.head = sh + n /\ range'[c].tail = sh + n
    BY <1>1, <1>3 DEF TypeOK, QueueRange
  <1>5. lt - sh \in Nat /\ n \in 1 .. lt - sh /\ (lt - sh) - n = lt - (sh + n)
    BY <1>2, <1>3
  <1>6. /\ Len(Waiting) = lt - sh
        /\ SubSeq(Waiting, n + 1, lt - sh) = [j \in 1 .. (lt - sh) - n |-> (sh + n) + j]
        /\ {Waiting[j] : j \in 1 .. n} = sh + 1 .. sh + n
    <2> DEFINE l == lt - sh
               w == [j \in 1 .. l |-> sh + j]
    <2>1. Waiting = w
      BY DEF Waiting
    <2>2. /\ Len(w) = l
          /\ SubSeq(w, n + 1, l) = [j \in 1 .. l - n |-> (sh + n) + j]
          /\ {w[j] : j \in 1 .. n} = sh + 1 .. sh + n
      <3>1. l \in Nat /\ n \in 1 .. l
        BY <1>5
      <3> HIDE DEF l
      <3> DEFINE h == sh
      <3>2. h \in Nat
        BY <1>2
      <3> HIDE DEF l, h
      <3>3. /\ Len([j \in 1 .. l |-> h + j]) = l
            /\ \A m \in 1 .. l :
                 /\ SubSeq([j \in 1 .. l |-> h + j], m + 1, l) = [j \in 1 .. l - m |-> (h + m) + j]
                 /\ {[k \in 1 .. l |-> h + k][j] : j \in 1 .. m} = h + 1 .. h + m
        BY <3>1, <3>2, Consecutive
      <3>4. /\ Len([j \in 1 .. l |-> h + j]) = l
            /\ SubSeq([j \in 1 .. l |-> h + j], n + 1, l) = [j \in 1 .. l - n |-> (h + n) + j]
            /\ {[k \in 1 .. l |-> h + k][j] : j \in 1 .. n} = h + 1 .. h + n
        BY <3>1, <3>3
      <3> QED BY <3>4 DEF h
    <2> HIDE DEF w
    <2> QED BY <2>1, <2>2
  <1>7. Waiting' = SubSeq(Waiting, n + 1, Len(Waiting))
    <2>1. Waiting' = [j \in 1 .. lt - (sh + n) |-> (sh + n) + j]
      BY <1>3, <1>4 DEF Waiting
    <2>2. SubSeq(Waiting, n + 1, Len(Waiting)) = [j \in 1 .. (lt - sh) - n |-> (sh + n) + j]
      BY <1>6
    <2>3. (lt - sh) - n = lt - (sh + n)
      BY <1>5
    <2> QED BY <2>1, <2>2, <2>3, Zenon
  <1>8. \A d \in Consumers : d # c => pc'[d] = pc[d] /\ i'[d] = i[d] /\ range'[d] = range[d]
    BY WorkerFrame DEF Run
  <1>9. /\ Unhandled(c) = {} /\ Unhandled(c)' = sh + 1 .. sh + n
        /\ \A d \in Consumers : d # c => Unhandled(d)' = Unhandled(d)
    BY <1>3, <1>4, <1>8 DEF Unhandled
  <1>10. Pending' = Pending \cup {Waiting[j] : j \in 1 .. n}
    <2> DEFINE B == sh + 1 .. sh + n
    <2>1. /\ Unhandled(c) = {} /\ Unhandled(c)' = B
          /\ \A d \in Consumers : d # c => Unhandled(d)' = Unhandled(d)
      BY <1>9
    <2> HIDE DEF B
    <2>2. \A x : x \in Pending' <=> \E d \in Consumers : x \in Unhandled(d)'
      BY DEF Pending
    <2>3. \A x : x \in Pending <=> \E d \in Consumers : x \in Unhandled(d)
      BY DEF Pending
    <2>4. Pending' = Pending \cup B
      BY <2>1, <2>2, <2>3
    <2>5. {Waiting[j] : j \in 1 .. n} = B
      BY <1>6 DEF B
    <2> QED BY <2>4, <2>5
  <1>11. Handled' = Handled /\ sent' = sent
    BY <1>3, WorkerFrame DEF Handled, Run
  <1>12. n \in 1 .. Len(Waiting) /\ Channel!Take(n)
    BY <1>5, <1>6, <1>7, <1>10, <1>11 DEF Channel!Take, Waiting, Pending, Handled
  <1> QED BY <1>12

\* The loop of a worker handles a claimed message, which no other worker has.
LEMMA HandleStep ==
  ASSUME IInv, MaxMsgs < W, NEW c \in Consumers, Handle(c), InRange(c)
  PROVE  \E m \in Pending : Channel!HandleOne(m)
  <1> DEFINE x == i[c]
  <1>1. TypeOK /\ ClaimsOK
    BY DEF IInv, QueueInv
  <1>2. /\ x \in Nat /\ range[c].head \in Nat /\ range[c].tail \in Nat /\ c \in Actor
        /\ i \in [Actor -> Nat] /\ got \in Seq(Message)
    BY <1>1, Sizes DEF TypeOK, Actor, QueueRange
  <1>3. /\ pc[c] = "handle" /\ pc' = pc /\ range' = range /\ i'[c] = x + 1 /\ x < range[c].tail
        /\ got' = Append(got, queue[Slot(x)]) /\ UNCHANGED <<q_locked, q_safe, queue, sent>>
    BY <1>2 DEF Handle, InRange, Set, queueVars
  <1>4. x >= range[c].head
    BY <1>1, <1>3 DEF ClaimsOK
  <1>5. x \in Claimed(c)
    BY <1>2, <1>3, <1>4 DEF Claimed
  <1>6. queue[Slot(x)].id = x + 1
    BY <1>1, <1>5 DEF ClaimsOK
  <1>7. \A d \in Consumers : d # c => Unhandled(d)' = Unhandled(d) /\ x + 1 \notin Unhandled(d)
    <2> SUFFICES ASSUME NEW d \in Consumers, d # c
                 PROVE  Unhandled(d)' = Unhandled(d) /\ x + 1 \notin Unhandled(d)
      OBVIOUS
    <2>1. pc'[d] = pc[d] /\ i'[d] = i[d] /\ range'[d] = range[d]
      BY WorkerFrame DEF Run
    <2>2. Unhandled(d)' = Unhandled(d)
      BY <2>1 DEF Unhandled
    <2>3. x \notin Claimed(d)
      BY <1>1, <1>5 DEF ClaimsOK
    <2>4. (x + 1) - 1 = x
      BY <1>2
    <2> QED BY <2>2, <2>3, <2>4, UnhandledClaimed
  <1>8. x + 1 \in Unhandled(c) /\ Unhandled(c)' = Unhandled(c) \ {x + 1}
    <2>1. Unhandled(c) = x + 1 .. range[c].tail /\ Unhandled(c)' = (x + 1) + 1 .. range[c].tail
      BY <1>3 DEF Unhandled
    <2>2. x + 1 \in x + 1 .. range[c].tail
          /\ (x + 1) + 1 .. range[c].tail = (x + 1 .. range[c].tail) \ {x + 1}
      BY <1>2, <1>3
    <2> QED BY <2>1, <2>2
  <1>9. x + 1 \in Pending /\ Pending' = Pending \ {x + 1}
    BY <1>7, <1>8 DEF Pending
  <1>10. Handled' = Append(Handled, x + 1)
    <2>1. queue[Slot(x)] \in Message
      BY <1>1, <1>2, Conversions DEF TypeOK
    <2>2. /\ Len(got') = Len(got) + 1 /\ got'[Len(got) + 1] = queue[Slot(x)] /\ Len(got) \in Nat
          /\ \A j \in 1 .. Len(got) : got'[j] = got[j]
      BY <1>2, <1>3, <2>1
    <2>3. Handled \in Seq(Nat) /\ Len(Handled) = Len(got)
      <3>1. \A j \in 1 .. Len(got) : got[j].id \in Nat
        <4>1. \A j \in 1 .. Len(got) : got[j] \in Message
          BY <1>2
        <4> QED BY <4>1, Sizes DEF Message
      <3> QED BY <2>2, <3>1 DEF Handled
    <2> DEFINE a == Append(Handled, x + 1)
    <2>4. /\ a \in Seq(Nat) /\ Len(a) = Len(got) + 1 /\ a[Len(got) + 1] = x + 1
          /\ \A j \in 1 .. Len(got) : a[j] = Handled[j]
      BY <1>2, <2>3
    <2> HIDE DEF a
    <2>5. a = [j \in 1 .. Len(a) |-> a[j]]
      BY <2>4
    <2>6. \A j \in 1 .. Len(got) + 1 : a[j] = got'[j].id
      <3>1. \A j \in 1 .. Len(got) : Handled[j] = got[j].id
        BY DEF Handled
      <3>2. \A j \in 1 .. Len(got) + 1 : j \in 1 .. Len(got) \/ j = Len(got) + 1
        BY <2>2
      <3> QED BY <1>6, <2>2, <2>4, <3>1, <3>2
    <2>7. a = [j \in 1 .. Len(got') |-> got'[j].id]
      BY <2>2, <2>4, <2>5, <2>6
    <2> QED BY <2>7 DEF a, Handled
  <1>11. Waiting' = Waiting
    BY <1>3 DEF Waiting
  <1> DEFINE m == x + 1
  <1>12. /\ m \in Pending /\ Pending' = Pending \ {m} /\ Handled' = Append(Handled, m)
         /\ Waiting' = Waiting /\ sent' = sent
    BY <1>3, <1>9, <1>10, <1>11
  <1> HIDE DEF m
  <1>13. \E k \in Pending : /\ k \in Pending /\ Pending' = Pending \ {k}
                            /\ Handled' = Append(Handled, k)
                            /\ Waiting' = Waiting /\ sent' = sent
    BY <1>12
  <1> QED BY <1>13 DEF Channel!HandleOne, Waiting, Pending, Handled

\* Any other step of a worker is none of the channel.
LEMMA WorkerStutters ==
  ASSUME IInv, NEW c \in Consumers, Run(c),
         ~(DequeueCas(c) /\ q_safe = snap[c]), ~(Handle(c) /\ InRange(c))
  PROVE  UNCHANGED <<Waiting, Pending, Handled, sent>>
  <1>1. /\ q_locked \in QueueRange /\ q_safe \in QueueRange
        /\ pc \in [Actor -> Labels] /\ i \in [Actor -> Nat] /\ c \in Actor
        /\ range \in [Consumers -> QueueRange]
    BY DEF IInv, QueueInv, TypeOK, Actor
  <1>2. sent' = sent /\ \A d \in Consumers : d # c => Unhandled(d)' = Unhandled(d)
    BY WorkerFrame DEF Unhandled
  <1>3. ASSUME got' = got, q_locked'.tail = q_locked.tail, q_safe'.head = q_safe.head,
               Unhandled(c) = {}, Unhandled(c)' = {}
        PROVE  UNCHANGED <<Waiting, Pending, Handled, sent>>
    <2>1. Pending' = Pending
      BY <1>2, <1>3 DEF Pending
    <2> QED BY <1>2, <1>3, <2>1 DEF Waiting, Handled
  <1>4. CASE GatherBegin(c) \/ GatherNext(c) \/ GatherEnd(c)
    <2>1. got' = got /\ q_locked'.tail = q_locked.tail /\ q_safe'.head = q_safe.head
      BY <1>1, <1>4 DEF GatherBegin, GatherNext, GatherEnd, Advance, QueueRange
    <2>2. pc[c] # "handle" /\ pc'[c] # "handle"
      BY <1>1, <1>4 DEF GatherBegin, GatherNext, GatherEnd, Goto
    <2> QED BY <1>3, <2>1, <2>2 DEF Unhandled
  <1>5. CASE SizeCheck(c) \/ DequeueBegin(c) \/ DequeueCas(c)
    <2>1. UNCHANGED <<got, q_locked, q_safe>>
      BY <1>5 DEF SizeCheck, DequeueBegin, DequeueCas, queueVars
    <2>2. pc[c] # "handle" /\ pc'[c] # "handle"
      BY <1>1, <1>5 DEF SizeCheck, DequeueBegin, DequeueCas, Return, Goto
    <2> QED BY <1>3, <2>1, <2>2 DEF Unhandled
  <1>6. CASE DequeueGivesUp(c)
    <2>1. UNCHANGED <<got, q_locked, q_safe>> /\ pc[c] # "handle"
      BY <1>6 DEF DequeueGivesUp, queueVars
    <2>2. range'[c].tail = 0 /\ i'[c] = 0
      BY <1>1, <1>6 DEF DequeueGivesUp, DequeueReturn, Set, Empty
    <2>3. Unhandled(c)' = {}
      BY <2>2 DEF Unhandled
    <2> QED BY <1>3, <2>1, <2>3 DEF Unhandled
  <1>7. CASE Handle(c)
    <2>1. UNCHANGED <<got, q_locked, q_safe>> /\ pc'[c] = "release" /\ ~(i[c] < range[c].tail)
      BY <1>1, <1>7 DEF Handle, Goto, InRange, queueVars
    <2>2. i[c] \in Int /\ range[c].tail \in Int
      BY <1>1, Sizes DEF QueueRange
    <2>3. Unhandled(c) = {}
      BY <2>1, <2>2 DEF Unhandled
    <2> QED BY <1>3, <2>1, <2>3 DEF Unhandled
  <1>8. CASE ReleaseNext(c) \/ CollectBegin(c) \/ CollectNext(c) \/ CollectEnd(c)
    <2>1. got' = got /\ q_locked'.tail = q_locked.tail /\ q_safe'.head = q_safe.head
      BY <1>1, <1>8 DEF ReleaseNext, CollectBegin, CollectNext, CollectEnd, QueueRange
    <2>2. pc[c] # "handle" /\ pc'[c] # "handle"
      BY <1>1, <1>8 DEF ReleaseNext, CollectBegin, CollectNext, CollectEnd, Return, Goto
    <2> QED BY <1>3, <2>1, <2>2 DEF Unhandled
  <1> QED BY <1>4, <1>5, <1>6, <1>7, <1>8 DEF Run

\* A step of enqueue() puts a message into the channel or is none of it.
LEMMA ProducerRefines ==
  ASSUME IInv, MaxMsgs < W, NEW p \in Producers, Enqueue(p)
  PROVE  Channel!Put \/ UNCHANGED <<Waiting, Pending, Handled, sent>>
  <1>1. TypeOK /\ SnapsOK
    BY DEF IInv, QueueInv
  <1>2. /\ \A a \in Actor : a # p => pc'[a] = pc[a] /\ i'[a] = i[a]
        /\ UNCHANGED <<range, q_safe, got>>
    BY <1>1, ProducerLocal
  <1>3. \A d \in Consumers : pc'[d] = pc[d] /\ i'[d] = i[d] /\ range'[d] = range[d]
    BY <1>2, ActorsAssumption DEF Actor
  <1>4. CASE EnqueueCas(p) /\ q_locked = snap[p]
    <2>1. pc[p] = "cas" /\ sent < MaxMsgs /\ q_locked' = Advance(q_locked) /\ sent' = sent + 1
      BY <1>4 DEF EnqueueCas
    <2>2. ~ IsFull(q_locked)
      BY <1>1, <1>4, <2>1 DEF SnapsOK
    <2> QED BY <1>2, <1>3, <2>1, <2>2, PutStep
  <1>5. CASE ~(EnqueueCas(p) /\ q_locked = snap[p])
    <2>1. UNCHANGED <<q_locked, sent>>
      BY <1>5 DEF Enqueue, Copy, EnqueueSnapshot, EnqueueCas, WriteId, WriteData, queueVars
    <2>2. Waiting' = Waiting /\ Handled' = Handled
      BY <1>2, <2>1 DEF Waiting, Handled
    <2>3. \A d \in Consumers : Unhandled(d)' = Unhandled(d)
      BY <1>3 DEF Unhandled
    <2>4. Pending' = Pending
      BY <2>3 DEF Pending
    <2> QED BY <2>1, <2>2, <2>4
  <1> QED BY <1>4, <1>5

\* Every step of the queue is a step of the channel or none of it.
LEMMA StepRefines ==
  ASSUME IInv, MaxMsgs < W, [Next]_vars
  PROVE  [Channel!Next]_(Channel!vars)
  <1>1. ASSUME UNCHANGED <<Waiting, Pending, Handled, sent>> PROVE UNCHANGED Channel!vars
    BY <1>1 DEF Channel!vars, Waiting, Pending, Handled
  <1>2. CASE EnqueueAtomic
    <2>1. /\ ~ IsFull(q_locked) /\ sent < MaxMsgs /\ q_locked' = Advance(q_locked)
          /\ sent' = sent + 1 /\ UNCHANGED <<q_safe, got>>
          /\ \A d \in Consumers : pc'[d] = pc[d] /\ i'[d] = i[d] /\ range'[d] = range[d]
      BY <1>2 DEF EnqueueAtomic, localVars
    <2> QED BY <2>1, PutStep DEF Channel!Next
  <1>3. ASSUME NEW p \in Producers, Enqueue(p) PROVE [Channel!Next]_(Channel!vars)
    BY <1>1, <1>3, ProducerRefines DEF Channel!Next
  <1>4. ASSUME NEW c \in Consumers, Run(c) PROVE [Channel!Next]_(Channel!vars)
    <2>1. CASE DequeueCas(c) /\ q_safe = snap[c]
      BY <2>1, TakeStep DEF Channel!Next, Waiting
    <2>2. CASE Handle(c) /\ InRange(c)
      BY <2>2, HandleStep DEF Channel!Next, Pending
    <2>3. CASE ~(DequeueCas(c) /\ q_safe = snap[c]) /\ ~(Handle(c) /\ InRange(c))
      BY <1>1, <1>4, <2>3, WorkerStutters
    <2> QED BY <2>1, <2>2, <2>3
  <1>5. CASE UNCHANGED vars
    <2>1. UNCHANGED <<q_locked, q_safe, pc, i, range, got, sent>>
      BY <1>5 DEF vars, queueVars, localVars
    <2>2. UNCHANGED <<Waiting, Pending, Handled, sent>>
      BY <2>1 DEF Waiting, Pending, Handled, Unhandled
    <2> QED BY <1>1, <2>2
  <1> QED BY <1>2, <1>3, <1>4, <1>5 DEF Next

\* While the indices have not wrapped, enqueue(), dequeue() and the workers'
\* loops are a bounded channel: an accepted message finds room, messages are
\* given out in the order they were accepted, and each is handled exactly once by
\* the worker that claimed it.
THEOREM QueueImplementsChannel ==
  ASSUME MaxMsgs < W
  PROVE  Spec => ImplementsChannel
  <1>1. Init => Channel!Init
    <2> SUFFICES ASSUME Init PROVE Channel!Init
      OBVIOUS
    <2>1. q_locked.tail = 0 /\ q_safe.head = 0 /\ got = <<>> /\ sent = 0
          /\ \A c \in Consumers : pc[c] = "idle"
      BY DEF Init, Empty, Actor
    <2>2. [j \in 1 .. q_locked.tail - q_safe.head |-> q_safe.head + j] = <<>>
      BY <2>1
    <2>3. UNION {Unhandled(c) : c \in Consumers} = {}
      BY <2>1 DEF Unhandled
    <2>4. [j \in 1 .. Len(got) |-> got[j].id] = <<>>
      BY <2>1
    <2> QED BY <2>1, <2>2, <2>3, <2>4 DEF Channel!Init
  <1>2. IInv /\ [Next]_vars => [Channel!Next]_(Channel!vars)
    BY StepRefines
  <1> QED BY <1>1, <1>2, InvInductive, PTL DEF Spec, ImplementsChannel, Channel!Spec
=============================================================================
