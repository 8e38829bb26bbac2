--------------------------- MODULE MessagesProofs ---------------------------
(***************************************************************************)
(* Messages and characters arrive in order and are announced by their      *)
(* semaphores, for every number of processes, every capacity of the        *)
(* queues and every batch.                                                 *)
(*                                                                         *)
(* Each property has an inductive invariant of its own, over the types.    *)
(***************************************************************************)
EXTENDS Messages, TLAPS

Queue == [slot : [0 .. MAX_PROC_MSGS - 1 -> Message],
          locked_head : Int, safe_head : Int, tail : Nat]
Input == [buf : [0 .. MAX_INPUT_BUFFER - 1 -> Chars], head : Nat, tail : Nat]
Sender == [pc : {"idle", "write", "advance", "signal"}, msg : Message, to : Procs \cup {0}]
Handling == {"handle", "key", "tail", "notify"}
Receiver == [pc : {"subscribe", "monitor", "asleep", "subtract", "size", "take"} \cup Handling,
             load : Nat, num : Int, i : Int, end : Int, key : Chars]
Reader == [pc : {"monitor", "asleep", "subtract", "char", "head", "return"},
           load : Nat, char : Chars, len : Int]

\* The types of the variables that the properties speak of.
SenderType ==
  /\ events \in Seq(Message) /\ focus \in Procs \cup {0}
  /\ sender \in Sender /\ (sender.pc # "idle" => sender.to \in Procs)
QueueType == msgQueue \in [Procs -> Queue] /\ msg_signal \in [Procs -> Nat]
ReceiverType == receiver \in [Procs -> Receiver]
InputType == terminal \in [Procs -> Input] /\ in_signal \in [Procs -> Nat]
ReaderType == reader \in [Procs -> Reader]
HistoryType ==
  /\ sent \in [Procs -> Seq(Message)] /\ handled \in [Procs -> Seq(Message)]
  /\ stored \in [Procs -> Seq(Chars)] /\ taken \in [Procs -> Seq(Chars)]
  /\ overrun \in [Procs -> BOOLEAN]
  /\ lost \in [Procs -> Int] /\ missed \in [Procs -> Int]

TypeInv ==
  SenderType /\ QueueType /\ ReceiverType /\ InputType /\ ReaderType /\ HistoryType

\* What SizesAssumption says, one fact at a time.
LEMMA Sizes ==
  /\ 0 \notin Procs /\ "NL" \in Chars /\ NoMsg \in Message
  /\ MAX_PROC_MSGS \in Nat /\ MAX_PROC_MSGS > 0
  /\ MAX_INPUT_BUFFER \in Nat /\ MAX_INPUT_BUFFER > 0
  /\ BATCH \in Nat /\ BATCH > 0 /\ MaxLine \in Nat /\ MaxLine > 1
  BY SizesAssumption DEF NoMsg, Message

-----------------------------------------------------------------------------
(* What a step may do to the variables of each thread. *)

SenderStep ==
  \/ \E m \in Message : NewUserEvent(m)
  \/ \E p \in Procs \cup {0} : Focus(p)
  \/ TakeEvent \/ EnqueueWrite \/ EnqueueAdvance \/ RaiseSignal

ReceiverStep(p) ==
  \/ SubscribeKeys(p) \/ MonitorSleep(p) \/ MonitorWake(p) \/ MonitorLoad(p)
  \/ MonitorSubtract(p) \/ DequeueSize(p) \/ DequeueTake(p) \/ HandleMessage(p)
  \/ Release(p) \/ KeyDrop(p) \/ KeyStore(p) \/ KeyTail(p) \/ KeyNotify(p)

ReaderStep(p) ==
  \/ ReadSleep(p) \/ ReadWake(p) \/ ReadLoad(p) \/ ReadSubtract(p)
  \/ ReadChar(p) \/ ReadHead(p) \/ ReadReturn(p)

\* A step is one of the kernel, of an event thread or of a main thread.
LEMMA Steps ==
  ASSUME [Next]_vars
  PROVE  \/ SenderStep
         \/ \E p \in Procs : ReceiverStep(p)
         \/ \E p \in Procs : ReaderStep(p)
         \/ UNCHANGED vars
  BY DEF Next, SenderStep, ReceiverStep, ReaderStep

\* The kernel leaves the threads of a process alone.
LEMMA SenderFrame ==
  ASSUME SenderStep
  PROVE  UNCHANGED <<receiver, handled, lost, terminal, in_signal, stored, reader, taken, missed>>
  BY DEF SenderStep, NewUserEvent, Focus, TakeEvent, EnqueueWrite, EnqueueAdvance, RaiseSignal,
         receiverVars, terminalVars, readerVars

\* The event thread of a process leaves the kernel and the main thread alone.
LEMMA ReceiverFrame ==
  ASSUME NEW p \in Procs, ReceiverStep(p)
  PROVE  UNCHANGED <<events, focus, sender, sent, overrun, reader, taken, missed>>
  BY DEF ReceiverStep, SubscribeKeys, MonitorSleep, MonitorWake, MonitorLoad, MonitorSubtract,
         DequeueSize, DequeueTake, HandleMessage, Release, KeyDrop, KeyStore, KeyTail, KeyNotify,
         kernelVars, queueVars, readerVars, terminalVars

\* The main thread leaves the kernel and the event thread alone.
LEMMA ReaderFrame ==
  ASSUME NEW p \in Procs, ReaderStep(p)
  PROVE  UNCHANGED <<events, focus, sender, msgQueue, msg_signal, sent, overrun,
                     receiver, handled, lost, stored>>
  BY DEF ReaderStep, ReadSleep, ReadWake, ReadLoad, ReadSubtract, ReadChar, ReadHead, ReadReturn,
         kernelVars, queueVars, receiverVars, terminalVars

-----------------------------------------------------------------------------
(* Types *)

\* The types hold at the start.
LEMMA InitTypes == Init => TypeInv
  <1> SUFFICES ASSUME Init PROVE TypeInv
    OBVIOUS
  <1>1. SenderType
    BY Sizes DEF Init, SenderType, Sender
  <1>2. QueueType
    BY Sizes DEF Init, QueueType, Queue
  <1>3. ReceiverType /\ ReaderType
    BY Sizes DEF Init, ReceiverType, ReaderType, Receiver, Reader, Resting, Handling
  <1>4. InputType
    BY Sizes DEF Init, InputType, Input
  <1>5. HistoryType
    <2>1. <<>> \in Seq(Message) /\ <<>> \in Seq(Chars)
      OBVIOUS
    <2> QED BY <2>1 DEF Init, HistoryType
  <1> QED BY <1>1, <1>2, <1>3, <1>4, <1>5 DEF TypeInv

\* The kernel keeps the types.
LEMMA SenderTypes ==
  ASSUME TypeInv, SenderStep
  PROVE  TypeInv'
  <1>1. ReceiverType' /\ InputType' /\ ReaderType'
    BY SenderFrame DEF TypeInv, ReceiverType, InputType, ReaderType
  <1>2. SenderType /\ QueueType /\ HistoryType
    BY DEF TypeInv
  <1>h. UNCHANGED <<handled, lost, stored, taken, missed>>
    BY SenderFrame
  <1>3. ASSUME NEW m \in Message, NewUserEvent(m) PROVE TypeInv'
    <2>1. SenderType'
      BY <1>2, <1>3 DEF NewUserEvent, SenderType
    <2>2. QueueType' /\ HistoryType'
      BY <1>2, <1>3, <1>h DEF NewUserEvent, QueueType, HistoryType, queueVars
    <2> QED BY <1>1, <2>1, <2>2 DEF TypeInv
  <1>4. ASSUME NEW p \in Procs \cup {0}, Focus(p) PROVE TypeInv'
    <2>1. SenderType'
      BY <1>2, <1>4 DEF Focus, SenderType
    <2>2. QueueType' /\ HistoryType'
      BY <1>2, <1>4, <1>h DEF Focus, QueueType, HistoryType, queueVars
    <2> QED BY <1>1, <2>1, <2>2 DEF TypeInv
  <1>5. CASE TakeEvent
    <2>1. Head(events) \in Message /\ Tail(events) \in Seq(Message)
      BY <1>2, <1>5 DEF TakeEvent, SenderType
    <2>2. SenderType'
      <3>1. sender' \in Sender /\ (sender'.pc # "idle" => sender'.to \in Procs)
        BY <1>2, <1>5, <2>1 DEF TakeEvent, SenderType, Sender
      <3> QED BY <1>2, <1>5, <2>1, <3>1 DEF TakeEvent, SenderType
    <2>3. QueueType' /\ HistoryType'
      BY <1>2, <1>5, <1>h DEF TakeEvent, QueueType, HistoryType, queueVars
    <2> QED BY <1>1, <2>2, <2>3 DEF TypeInv
  <1>6. CASE EnqueueWrite
    <2>1. SenderType'
      BY <1>2, <1>6 DEF EnqueueWrite, SenderType, Sender
    <2>2. QueueType'
      BY <1>2, <1>6, Sizes DEF EnqueueWrite, QueueType, SenderType, Sender, Queue
    <2>3. HistoryType'
      BY <1>2, <1>6, <1>h DEF EnqueueWrite, HistoryType
    <2> QED BY <1>1, <2>1, <2>2, <2>3 DEF TypeInv
  <1>7. CASE EnqueueAdvance
    <2>1. SenderType'
      BY <1>2, <1>7 DEF EnqueueAdvance, SenderType, Sender
    <2>2. QueueType'
      <3>1. sender.to \in Procs
        BY <1>2, <1>7 DEF EnqueueAdvance, SenderType
      <3>2. msgQueue[sender.to] \in Queue
        BY <1>2, <3>1 DEF QueueType
      <3>3. [msgQueue[sender.to] EXCEPT !.tail = @ + 1] \in Queue
        BY <3>2 DEF Queue
      <3> QED BY <1>2, <1>7, <3>1, <3>3 DEF EnqueueAdvance, QueueType
    <2>3. HistoryType'
      BY <1>2, <1>7, <1>h DEF EnqueueAdvance, HistoryType, SenderType, Sender
    <2> QED BY <1>1, <2>1, <2>2, <2>3 DEF TypeInv
  <1>8. CASE RaiseSignal
    <2>1. SenderType'
      BY <1>2, <1>8, Sizes DEF RaiseSignal, SenderType, Sender
    <2>2. QueueType'
      BY <1>2, <1>8 DEF RaiseSignal, QueueType, SenderType
    <2>3. HistoryType'
      BY <1>2, <1>8, <1>h DEF RaiseSignal, HistoryType
    <2> QED BY <1>1, <2>1, <2>2, <2>3 DEF TypeInv
  <1> QED BY <1>3, <1>4, <1>5, <1>6, <1>7, <1>8 DEF SenderStep

\* The clamped subtraction takes off at most d.
LEMMA LowerType ==
  ASSUME NEW n \in Nat, NEW d \in Nat
  PROVE  Lower(n, d) \in Nat /\ Lower(n, d) <= n /\ n <= Lower(n, d) + d
  BY DEF Lower

\* An event thread keeps the types.
LEMMA ReceiverTypes ==
  ASSUME TypeInv, NEW p \in Procs, ReceiverStep(p)
  PROVE  TypeInv'
  <1>1. SenderType' /\ ReaderType'
    BY ReceiverFrame DEF TypeInv, SenderType, ReaderType
  <1>2. QueueType /\ InputType /\ ReceiverType /\ HistoryType
    BY DEF TypeInv
  <1>3. receiver[p] \in Receiver /\ msgQueue[p] \in Queue /\ terminal[p] \in Input
        /\ msg_signal[p] \in Nat /\ in_signal[p] \in Nat
    BY <1>2 DEF QueueType, ReceiverType, InputType
  <1>4. Unread(p) \in Int
    BY <1>3 DEF Unread, Queue
  <1>5. Taken(p) \in Int
    BY <1>3, <1>4 DEF Taken, Receiver
  <1>6. msgQueue[p].slot[receiver[p].i % MAX_PROC_MSGS] \in Message
    <2>1. receiver[p].i % MAX_PROC_MSGS \in 0 .. MAX_PROC_MSGS - 1
      BY <1>3, Sizes DEF Receiver
    <2> QED BY <1>3, <2>1 DEF Queue
  <1>7. ReceiverType'
    <2>1. CASE SubscribeKeys(p) \/ MonitorSleep(p) \/ MonitorWake(p) \/ KeyDrop(p)
               \/ KeyStore(p) \/ KeyTail(p) \/ KeyNotify(p)
      <3>1. PICK to \in {"monitor", "asleep", "size"} \cup Handling :
              receiver' = [receiver EXCEPT ![p].pc = to]
        BY <2>1 DEF Receives, SubscribeKeys, MonitorSleep, MonitorWake, KeyDrop, KeyStore,
                    KeyTail, KeyNotify, Handling
      <3>2. [receiver[p] EXCEPT !.pc = to] \in Receiver
        BY <1>3 DEF Receiver
      <3> QED BY <1>2, <3>1, <3>2 DEF ReceiverType
    <2>2. CASE MonitorLoad(p)
      BY <1>2, <1>3, <2>2 DEF ReceiverType, Receiver, MonitorLoad
    <2>3. CASE MonitorSubtract(p)
      BY <1>2, <2>3 DEF ReceiverType, Receiver, MonitorSubtract
    <2>4. CASE DequeueSize(p)
      <3> DEFINE to == IF Unread(p) = 0 THEN "monitor" ELSE "take"
                 n == IF BATCH <= Unread(p) THEN BATCH ELSE 0
      <3>1. receiver' = [receiver EXCEPT ![p].pc = to, ![p].num = n]
        BY <2>4 DEF DequeueSize
      <3>2. to \in {"monitor", "take"} /\ n \in Int
        BY Sizes
      <3> HIDE DEF to, n
      <3>3. [receiver[p] EXCEPT !.pc = to, !.num = n] \in Receiver
        BY <1>3, <3>2 DEF Receiver
      <3> QED BY <1>2, <3>1, <3>3 DEF ReceiverType
    <2>5. CASE DequeueTake(p)
      <3>1. msgQueue[p].safe_head \in Int /\ msgQueue[p].safe_head + Taken(p) \in Int
        BY <1>3, <1>5 DEF Queue
      <3>2. PICK n \in Int, j \in Int, e \in Int :
              receiver' = [receiver EXCEPT ![p].pc = "handle", ![p].num = n,
                                           ![p].i = j, ![p].end = e]
        BY <1>5, <2>5, <3>1 DEF DequeueTake
      <3>3. [receiver[p] EXCEPT !.pc = "handle", !.num = n, !.i = j, !.end = e] \in Receiver
        BY <1>3 DEF Receiver, Handling
      <3> QED BY <1>2, <3>2, <3>3 DEF ReceiverType
    <2>6. CASE HandleMessage(p)
      <3>1. msgQueue[p].slot[receiver[p].i % MAX_PROC_MSGS].char \in Chars
        BY <1>6 DEF Message
      <3>2. PICK c \in Chars, to \in {"key", "handle"} :
              receiver' = [receiver EXCEPT ![p].i = @ + 1, ![p].key = c, ![p].pc = to]
        BY <2>6, <3>1 DEF HandleMessage
      <3>3. [receiver[p] EXCEPT !.i = @ + 1, !.key = c, !.pc = to] \in Receiver
        <4>1. receiver[p].i + 1 \in Int
          BY <1>3 DEF Receiver
        <4> QED BY <1>3, <4>1 DEF Receiver, Handling
      <3> QED BY <1>2, <3>2, <3>3 DEF ReceiverType
    <2>7. CASE Release(p)
      BY <1>2, <2>7, Sizes DEF ReceiverType, Receiver, Release, Resting
    <2> QED BY <2>1, <2>2, <2>3, <2>4, <2>5, <2>6, <2>7 DEF ReceiverStep
  <1>8. QueueType'
    <2>1. CASE MonitorWake(p)
      BY <1>2, <1>3, <2>1, LowerType, Sizes DEF QueueType, MonitorWake
    <2>2. CASE MonitorSubtract(p)
      <3>1. Lower(receiver[p].load, BATCH) \in Nat
        BY <1>3, LowerType, Sizes DEF Receiver
      <3> QED BY <1>2, <2>2, <3>1 DEF QueueType, MonitorSubtract
    <2>3. CASE DequeueTake(p)
      <3>1. [msgQueue[p] EXCEPT !.safe_head = @ + Taken(p)] \in Queue
        BY <1>3, <1>5 DEF Queue
      <3> QED BY <1>2, <2>3, <3>1 DEF QueueType, DequeueTake
    <2>4. CASE Release(p)
      <3>1. [msgQueue[p] EXCEPT !.locked_head = @ + receiver[p].num] \in Queue
        <4>1. receiver[p].num \in Int
          BY <1>3 DEF Receiver
        <4>2. msgQueue[p] \in Queue
          BY <1>3
        <4> QED BY <4>1, <4>2 DEF Queue
      <3> QED BY <1>2, <2>4, <3>1 DEF QueueType, Release
    <2>5. CASE UNCHANGED <<msgQueue, msg_signal>>
      BY <1>2, <2>5 DEF QueueType
    <2> QED BY <2>1, <2>2, <2>3, <2>4, <2>5
            DEF ReceiverStep, SubscribeKeys, MonitorSleep, MonitorLoad, DequeueSize,
                HandleMessage, KeyDrop, KeyStore, KeyTail, KeyNotify, queueVars
  <1>9. InputType'
    <2>1. CASE KeyStore(p)
      <3>1. terminal[p].tail % MAX_INPUT_BUFFER \in 0 .. MAX_INPUT_BUFFER - 1
        BY <1>3, Sizes DEF Input
      <3>2. [terminal[p] EXCEPT !.buf[terminal[p].tail % MAX_INPUT_BUFFER] = receiver[p].key]
              \in Input
        BY <1>3, <3>1 DEF Input, Receiver
      <3> QED BY <1>2, <2>1, <3>2 DEF InputType, KeyStore
    <2>2. CASE KeyTail(p)
      <3>1. [terminal[p] EXCEPT !.tail = @ + 1] \in Input
        BY <1>3 DEF Input
      <3> QED BY <1>2, <2>2, <3>1 DEF InputType, KeyTail
    <2>3. CASE KeyNotify(p)
      BY <1>2, <2>3 DEF InputType, KeyNotify
    <2>4. CASE UNCHANGED <<terminal, in_signal>>
      BY <1>2, <2>4 DEF InputType
    <2> QED BY <2>1, <2>2, <2>3, <2>4
            DEF ReceiverStep, SubscribeKeys, MonitorSleep, MonitorWake, MonitorLoad,
                MonitorSubtract, DequeueSize, DequeueTake, HandleMessage, Release, KeyDrop,
                terminalVars
  <1>10. HistoryType'
    <2>1. CASE MonitorSubtract(p)
      <3>1. lost[p] + msg_signal[p] - receiver[p].load \in Int
        BY <1>2, <1>3 DEF HistoryType, Receiver
      <3> QED BY <1>2, <2>1, <3>1, ReceiverFrame
              DEF HistoryType, MonitorSubtract, terminalVars
    <2>2. CASE HandleMessage(p)
      <3>1. Append(handled[p], msgQueue[p].slot[receiver[p].i % MAX_PROC_MSGS]) \in Seq(Message)
        BY <1>2, <1>6 DEF HistoryType
      <3> QED BY <1>2, <2>2, <3>1, ReceiverFrame
              DEF HistoryType, HandleMessage, terminalVars
    <2>3. CASE KeyTail(p)
      <3>1. Append(stored[p], receiver[p].key) \in Seq(Chars)
        BY <1>2, <1>3 DEF HistoryType, Receiver
      <3> QED BY <1>2, <2>3, <3>1, ReceiverFrame DEF HistoryType, KeyTail
    <2>4. CASE UNCHANGED <<handled, lost, stored>>
      BY <1>2, <2>4, ReceiverFrame DEF HistoryType
    <2> QED BY <2>1, <2>2, <2>3, <2>4
            DEF ReceiverStep, SubscribeKeys, MonitorSleep, MonitorWake, MonitorLoad,
                DequeueSize, DequeueTake, Release, KeyDrop, KeyStore, KeyNotify, terminalVars
  <1> QED BY <1>1, <1>7, <1>8, <1>9, <1>10 DEF TypeInv

\* The length of a line stays a number.
LEMMA EditedType ==
  ASSUME NEW len \in Int, NEW c PROVE Edited(len, c) \in Int
  BY Sizes DEF Edited, Capped

\* A main thread keeps the types.
LEMMA ReaderTypes ==
  ASSUME TypeInv, NEW p \in Procs, ReaderStep(p)
  PROVE  TypeInv'
  <1>1. SenderType' /\ QueueType' /\ ReceiverType'
    BY ReaderFrame DEF TypeInv, SenderType, QueueType, ReceiverType
  <1>2. InputType /\ ReaderType /\ HistoryType
    BY DEF TypeInv
  <1>3. reader[p] \in Reader /\ terminal[p] \in Input /\ in_signal[p] \in Nat
    BY <1>2 DEF ReaderType, InputType
  <1>4. terminal[p].buf[terminal[p].head % MAX_INPUT_BUFFER] \in Chars
    BY <1>3, Sizes DEF Input
  <1>5. ReaderType'
    <2>1. CASE ReadSleep(p) \/ ReadWake(p)
      BY <1>2, <2>1 DEF ReaderType, Reader, Reads, ReadSleep, ReadWake
    <2>2. CASE ReadLoad(p)
      BY <1>2, <1>3, <2>2 DEF ReaderType, Reader, ReadLoad
    <2>3. CASE ReadSubtract(p) \/ ReadReturn(p)
      BY <1>2, <2>3 DEF ReaderType, Reader, ReadSubtract, ReadReturn
    <2>4. CASE ReadChar(p)
      BY <1>2, <1>4, <2>4 DEF ReaderType, Reader, ReadChar
    <2>5. CASE ReadHead(p)
      <3>1. Edited(reader[p].len, reader[p].char) \in Int
        BY <1>3, EditedType DEF Reader
      <3>2. PICK to \in {"return", "monitor"} :
              reader' = [reader EXCEPT ![p].pc = to, ![p].char = "NL",
                                       ![p].len = Edited(reader[p].len, reader[p].char)]
        BY <2>5 DEF ReadHead
      <3>3. [reader[p] EXCEPT !.pc = to, !.len = Edited(reader[p].len, reader[p].char),
                              !.char = "NL"] \in Reader
        BY <1>3, <3>1, Sizes DEF Reader
      <3> QED BY <1>2, <3>2, <3>3 DEF ReaderType
    <2> QED BY <2>1, <2>2, <2>3, <2>4, <2>5 DEF ReaderStep
  <1>6. InputType'
    <2>1. CASE ReadWake(p)
      BY <1>2, <1>3, <2>1, LowerType DEF InputType, ReadWake
    <2>2. CASE ReadSubtract(p)
      <3>1. Lower(reader[p].load, 1) \in Nat
        BY <1>3, LowerType DEF Reader
      <3> QED BY <1>2, <2>2, <3>1 DEF InputType, ReadSubtract
    <2>3. CASE ReadHead(p)
      <3>1. [terminal[p] EXCEPT !.head = @ + 1] \in Input
        BY <1>3 DEF Input
      <3> QED BY <1>2, <2>3, <3>1 DEF InputType, ReadHead
    <2>4. CASE UNCHANGED <<terminal, in_signal>>
      BY <1>2, <2>4 DEF InputType
    <2> QED BY <2>1, <2>2, <2>3, <2>4
            DEF ReaderStep, ReadSleep, ReadLoad, ReadChar, ReadReturn, terminalVars
  <1>7. HistoryType'
    <2>1. CASE ReadSubtract(p)
      <3>1. missed[p] + in_signal[p] - reader[p].load \in Int
        BY <1>2, <1>3 DEF HistoryType, Reader
      <3> QED BY <1>2, <2>1, <3>1, ReaderFrame DEF HistoryType, ReadSubtract
    <2>2. CASE ReadChar(p)
      <3>1. Append(taken[p], terminal[p].buf[terminal[p].head % MAX_INPUT_BUFFER]) \in Seq(Chars)
        BY <1>2, <1>4 DEF HistoryType
      <3> QED BY <1>2, <2>2, <3>1, ReaderFrame DEF HistoryType, ReadChar
    <2>3. CASE UNCHANGED <<taken, missed>>
      BY <1>2, <2>3, ReaderFrame DEF HistoryType
    <2> QED BY <2>1, <2>2, <2>3
            DEF ReaderStep, ReadSleep, ReadWake, ReadLoad, ReadHead, ReadReturn
  <1> QED BY <1>1, <1>5, <1>6, <1>7 DEF TypeInv

\* TypeInv is inductive.
LEMMA TypesKept ==
  ASSUME TypeInv, [Next]_vars PROVE TypeInv'
  <1>1. CASE UNCHANGED vars
    BY <1>1 DEF TypeInv, SenderType, QueueType, ReceiverType, InputType, ReaderType, HistoryType,
                vars, kernelVars, queueVars, receiverVars, terminalVars, readerVars
  <1> QED BY <1>1, Steps, SenderTypes, ReceiverTypes, ReaderTypes

-----------------------------------------------------------------------------
(* What a step does to a process p. *)

\* The kernel event thread: a slot, the tail, the signal.
LEMMA SenderEffect ==
  ASSUME TypeInv, SenderStep, NEW p \in Procs
  PROVE  LET q == msgQueue[p]
             q2 == msgQueue'[p]
             Same == q2.tail = q.tail /\ sent'[p] = sent[p]
             Quiet == q2.slot = q.slot /\ overrun'[p] = overrun[p]
             Held == msg_signal'[p] = msg_signal[p]
         IN
         /\ q2.safe_head = q.safe_head /\ q2.locked_head = q.locked_head
         /\ \/ /\ sender.pc = "write" /\ sender.to = p /\ Same /\ Held
               /\ q2.slot = [q.slot EXCEPT ![q.tail % MAX_PROC_MSGS] = sender.msg]
               /\ overrun'[p] = (overrun[p] \/ q.tail - q.locked_head >= MAX_PROC_MSGS)
               /\ sender' = [sender EXCEPT !.pc = "advance"]
            \/ /\ sender.pc = "advance" /\ sender.to = p /\ Quiet /\ Held
               /\ q2.tail = q.tail + 1 /\ sent'[p] = Append(sent[p], sender.msg)
               /\ sender' = [sender EXCEPT !.pc = "signal"]
            \/ /\ sender.pc = "signal" /\ sender.to = p /\ Same /\ Quiet
               /\ msg_signal'[p] = msg_signal[p] + 1
               /\ sender'.pc = "idle"
            \/ /\ Same /\ Quiet /\ Held
               /\ sender' = sender \/ sender'.pc \in {"idle", "write"} \/ sender'.to # p
               /\ sender' = sender \/ sender.pc = "idle" \/ sender.to # p
  <1>1. SenderType /\ QueueType /\ HistoryType
    BY DEF TypeInv
  <1>2. CASE \/ \E m \in Message : NewUserEvent(m)
             \/ \E f \in Procs \cup {0} : Focus(f)
    BY <1>2 DEF NewUserEvent, Focus, queueVars
  <1>3. CASE TakeEvent
    BY <1>3 DEF TakeEvent, queueVars
  <1>4. CASE EnqueueWrite
    <2>1. CASE sender.to = p
      <3>1. msgQueue'[p] = [msgQueue[p] EXCEPT
              !.slot[msgQueue[p].tail % MAX_PROC_MSGS] = sender.msg]
        BY <1>1, <1>4, <2>1 DEF EnqueueWrite, QueueType
      <3>2. overrun'[p] = (overrun[p] \/ msgQueue[p].tail - msgQueue[p].locked_head
                                           >= MAX_PROC_MSGS)
        BY <1>1, <1>4, <2>1 DEF EnqueueWrite, HistoryType
      <3>3. msgQueue[p] \in Queue
        BY <1>1 DEF QueueType
      <3> QED BY <1>4, <2>1, <3>1, <3>2, <3>3 DEF EnqueueWrite, Queue
    <2>2. CASE sender.to # p
      <3>1. msgQueue'[p] = msgQueue[p] /\ overrun'[p] = overrun[p]
        BY <1>1, <1>4, <2>2 DEF EnqueueWrite, QueueType, HistoryType
      <3>2. sender'.to # p
        BY <1>1, <1>4, <2>2 DEF EnqueueWrite, SenderType, Sender
      <3> QED BY <1>4, <2>2, <3>1, <3>2 DEF EnqueueWrite
    <2> QED BY <2>1, <2>2
  <1>5. CASE EnqueueAdvance
    <2>1. CASE sender.to = p
      <3>1. msgQueue'[p] = [msgQueue[p] EXCEPT !.tail = @ + 1]
        BY <1>1, <1>5, <2>1 DEF EnqueueAdvance, QueueType
      <3>2. sent'[p] = Append(sent[p], sender.msg)
        BY <1>1, <1>5, <2>1 DEF EnqueueAdvance, HistoryType
      <3>3. msgQueue[p] \in Queue
        BY <1>1 DEF QueueType
      <3> QED BY <1>5, <2>1, <3>1, <3>2, <3>3 DEF EnqueueAdvance, Queue
    <2>2. CASE sender.to # p
      <3>1. msgQueue'[p] = msgQueue[p] /\ sent'[p] = sent[p]
        BY <1>1, <1>5, <2>2 DEF EnqueueAdvance, QueueType, HistoryType
      <3>2. sender'.to # p
        BY <1>1, <1>5, <2>2 DEF EnqueueAdvance, SenderType, Sender
      <3> QED BY <1>5, <2>2, <3>1, <3>2 DEF EnqueueAdvance
    <2> QED BY <2>1, <2>2
  <1>6. CASE RaiseSignal
    BY <1>1, <1>6 DEF RaiseSignal, QueueType
  <1> QED BY <1>2, <1>3, <1>4, <1>5, <1>6 DEF SenderStep

\* A thread of another process does nothing to p.
LEMMA ReceiverOfOther ==
  ASSUME TypeInv, NEW p \in Procs, NEW r \in Procs, r # p, ReceiverStep(r)
  PROVE  /\ receiver'[p] = receiver[p] /\ handled'[p] = handled[p] /\ lost'[p] = lost[p]
         /\ msgQueue'[p] = msgQueue[p] /\ msg_signal'[p] = msg_signal[p]
         /\ terminal'[p] = terminal[p] /\ in_signal'[p] = in_signal[p]
         /\ stored'[p] = stored[p]
  BY DEF TypeInv, ReceiverType, QueueType, InputType, HistoryType,
         ReceiverStep, SubscribeKeys, MonitorSleep, MonitorWake, MonitorLoad, MonitorSubtract,
         DequeueSize, DequeueTake, HandleMessage, Release, KeyDrop, KeyStore, KeyTail, KeyNotify,
         Receives, queueVars, terminalVars

\* The same for a main thread.
LEMMA ReaderOfOther ==
  ASSUME TypeInv, NEW p \in Procs, NEW r \in Procs, r # p, ReaderStep(r)
  PROVE  /\ reader'[p] = reader[p] /\ taken'[p] = taken[p] /\ missed'[p] = missed[p]
         /\ terminal'[p] = terminal[p] /\ in_signal'[p] = in_signal[p]
  BY DEF TypeInv, ReaderType, InputType, HistoryType,
         ReaderStep, ReadSleep, ReadWake, ReadLoad, ReadSubtract, ReadChar, ReadHead, ReadReturn,
         Reads, terminalVars

-----------------------------------------------------------------------------
(* The semaphore of the messages. *)

\* UnreadSignalled for a process, and what makes it inductive: a signal that
\* monitor() has read is not lowered by anybody else, and a batch that dequeue()
\* has decided on is there.
SignalAt(p) ==
  /\ lost[p] >= 0
  /\ receiver[p].pc = "subtract" => receiver[p].load <= msg_signal[p]
  /\ Unread(p) >= 0
  /\ receiver[p].pc = "take" => receiver[p].num \in {0, BATCH} /\ receiver[p].num <= Unread(p)
  /\ Unread(p) <= msg_signal[p] + lost[p] + Bit(sender.pc = "signal" /\ sender.to = p)
                    + (IF receiver[p].pc \in {"size", "take"} THEN BATCH ELSE 0)

SignalInv == \A p \in Procs : SignalAt(p)

\* The terms of SignalAt are numbers.
LEMMA SignalTypes ==
  ASSUME TypeInv, NEW p \in Procs
  PROVE  /\ receiver[p] \in Receiver /\ msgQueue[p] \in Queue
         /\ msg_signal[p] \in Nat /\ lost[p] \in Int /\ Unread(p) \in Int
  <1>1. receiver[p] \in Receiver /\ msgQueue[p] \in Queue
        /\ msg_signal[p] \in Nat /\ lost[p] \in Int
    BY DEF TypeInv, ReceiverType, QueueType, HistoryType
  <1> QED BY <1>1 DEF Unread, Queue

\* The event thread of p keeps SignalAt(p).
LEMMA SignalReceiver ==
  ASSUME TypeInv, NEW p \in Procs, SignalAt(p), ReceiverStep(p)
  PROVE  SignalAt(p)'
  <1>1. receiver[p] \in Receiver /\ msgQueue[p] \in Queue
        /\ msg_signal[p] \in Nat /\ lost[p] \in Int /\ Unread(p) \in Int
    BY SignalTypes
  <1>2. sender' = sender
    BY ReceiverFrame
  <1>3. QueueType /\ ReceiverType /\ HistoryType
    BY DEF TypeInv
  <1> DEFINE Announced == msg_signal[p] + lost[p] + Bit(sender.pc = "signal" /\ sender.to = p)
  <1>4. Announced \in Nat
    BY <1>1 DEF SignalAt, Bit
  <1>5. CASE /\ UNCHANGED <<msgQueue, msg_signal, lost>>
             /\ receiver[p].pc \notin {"size", "take"}
             /\ receiver'[p].pc \notin {"subtract", "size", "take"}
    BY <1>1, <1>2, <1>5 DEF SignalAt, Unread
  <1>6. CASE SubscribeKeys(p) \/ MonitorSleep(p) \/ KeyDrop(p) \/ KeyStore(p) \/ KeyTail(p)
             \/ KeyNotify(p)
    <2>1. /\ receiver[p].pc \notin {"size", "take"}
          /\ receiver'[p].pc \notin {"subtract", "size", "take"}
      BY <1>3, <1>6 DEF Receives, SubscribeKeys, MonitorSleep, KeyDrop, KeyStore, KeyTail,
                        KeyNotify, ReceiverType, Receiver
    <2>2. UNCHANGED <<msgQueue, msg_signal, lost>>
      BY <1>6 DEF SubscribeKeys, MonitorSleep, KeyDrop, KeyStore, KeyTail, KeyNotify, queueVars
    <2> QED BY <1>5, <2>1, <2>2
  <1>7. CASE HandleMessage(p)
    <2>1. /\ receiver[p].pc \notin {"size", "take"}
          /\ receiver'[p].pc \notin {"subtract", "size", "take"}
      BY <1>3, <1>7 DEF HandleMessage, ReceiverType, Receiver
    <2> QED BY <1>5, <1>7, <2>1 DEF HandleMessage, queueVars
  <1>8. CASE MonitorWake(p)
    <2>1. /\ receiver[p].pc = "asleep" /\ receiver'[p].pc = "size"
          /\ msg_signal'[p] = Lower(msg_signal[p], BATCH)
          /\ UNCHANGED <<msgQueue, lost>>
      BY <1>3, <1>8 DEF MonitorWake, Receives, ReceiverType, Receiver, QueueType
    <2>2. msg_signal'[p] \in Nat /\ msg_signal[p] <= msg_signal'[p] + BATCH
      BY <1>1, <2>1, LowerType, Sizes
    <2> QED BY <1>1, <1>2, <2>1, <2>2, Sizes DEF SignalAt, Unread, Bit
  <1>9. CASE MonitorLoad(p)
    <2>1. /\ receiver[p].pc = "monitor" /\ receiver'[p].pc = "subtract"
          /\ receiver'[p].load = msg_signal[p]
          /\ UNCHANGED <<msgQueue, msg_signal, lost>>
      BY <1>3, <1>9 DEF MonitorLoad, ReceiverType, Receiver, queueVars
    <2> QED BY <1>1, <1>2, <2>1 DEF SignalAt, Unread
  <1>10. CASE MonitorSubtract(p)
    <2>1. /\ receiver[p].pc = "subtract" /\ receiver'[p].pc = "size"
          /\ msg_signal'[p] = Lower(receiver[p].load, BATCH)
          /\ lost'[p] = lost[p] + msg_signal[p] - receiver[p].load
          /\ UNCHANGED msgQueue
      BY <1>3, <1>10 DEF MonitorSubtract, ReceiverType, Receiver, QueueType, HistoryType
    <2>2. receiver[p].load \in Nat
      BY <1>1 DEF Receiver
    <2>3. msg_signal'[p] \in Nat /\ receiver[p].load <= msg_signal'[p] + BATCH
      BY <2>1, <2>2, LowerType, Sizes
    <2> QED BY <1>1, <1>2, <2>1, <2>2, <2>3, Sizes DEF SignalAt, Unread, Bit
  <1>11. CASE DequeueSize(p)
    <2>1. /\ receiver[p].pc = "size"
          /\ receiver'[p].pc = IF Unread(p) = 0 THEN "monitor" ELSE "take"
          /\ receiver'[p].num = IF BATCH <= Unread(p) THEN BATCH ELSE 0
          /\ UNCHANGED <<msgQueue, msg_signal, lost>>
      BY <1>3, <1>11 DEF DequeueSize, ReceiverType, Receiver, queueVars
    <2>2. Unread(p)' = Unread(p)
      BY <2>1 DEF Unread
    <2> QED BY <1>1, <1>2, <2>1, <2>2, Sizes DEF SignalAt, Bit
  <1>12. CASE DequeueTake(p)
    <2>1. /\ receiver[p].pc = "take" /\ receiver'[p].pc = "handle"
          /\ msgQueue'[p].safe_head = msgQueue[p].safe_head + Taken(p)
          /\ msgQueue'[p].tail = msgQueue[p].tail
          /\ UNCHANGED <<msg_signal, lost>>
      BY <1>3, <1>12 DEF DequeueTake, ReceiverType, Receiver, QueueType, Queue
    <2>2. Taken(p) = IF receiver[p].num = 0 THEN Unread(p) ELSE BATCH
      BY <2>1 DEF Taken, SignalAt
    <2>3. Unread(p)' = Unread(p) - Taken(p)
      BY <1>1, <2>1, <2>2, Sizes DEF Unread, Queue
    <2> QED BY <1>1, <1>2, <2>1, <2>2, <2>3, Sizes DEF SignalAt, Bit
  <1>13. CASE Release(p)
    <2>1. /\ receiver[p].pc = "handle" /\ receiver'[p].pc = "monitor"
          /\ msgQueue'[p].safe_head = msgQueue[p].safe_head
          /\ msgQueue'[p].tail = msgQueue[p].tail
          /\ UNCHANGED <<msg_signal, lost>>
      BY <1>3, <1>13 DEF Release, ReceiverType, Receiver, QueueType, Queue, Resting
    <2> QED BY <1>1, <1>2, <2>1 DEF SignalAt, Unread
  <1> QED BY <1>6, <1>7, <1>8, <1>9, <1>10, <1>11, <1>12, <1>13 DEF ReceiverStep

\* SignalInv is inductive, over the types.
LEMMA SignalKept ==
  ASSUME TypeInv, SignalInv, [Next]_vars
  PROVE  SignalInv'
  <1> SUFFICES ASSUME NEW p \in Procs PROVE SignalAt(p)'
    BY DEF SignalInv
  <1>1. SignalAt(p)
    BY DEF SignalInv
  <1>2. CASE SenderStep
    <2>1. UNCHANGED <<receiver, lost>>
      BY <1>2, SenderFrame
    <2>2. receiver[p] \in Receiver /\ msgQueue[p] \in Queue
          /\ msg_signal[p] \in Nat /\ lost[p] \in Int /\ Unread(p) \in Int
      BY SignalTypes
    <2>3. sender \in Sender
      BY DEF TypeInv, SenderType
    <2> DEFINE Now == Bit(sender.pc = "signal" /\ sender.to = p)
               Then == Bit(sender'.pc = "signal" /\ sender'.to = p)
    <2>4. /\ msgQueue'[p].safe_head = msgQueue[p].safe_head
          /\ \/ /\ msgQueue'[p].tail = msgQueue[p].tail + 1 /\ Now = 0 /\ Then = 1
                /\ msg_signal'[p] = msg_signal[p]
             \/ /\ msgQueue'[p].tail = msgQueue[p].tail /\ Now = 1 /\ Then = 0
                /\ msg_signal'[p] = msg_signal[p] + 1
             \/ /\ msgQueue'[p].tail = msgQueue[p].tail /\ Now = Then
                /\ msg_signal'[p] = msg_signal[p]
      <3> DEFINE q == msgQueue[p]
                 q2 == msgQueue'[p]
      <3>1. /\ q2.safe_head = q.safe_head
            /\ \/ /\ sender.pc = "write" /\ sender.to = p /\ q2.tail = q.tail
                  /\ msg_signal'[p] = msg_signal[p] /\ sender' = [sender EXCEPT !.pc = "advance"]
               \/ /\ sender.pc = "advance" /\ sender.to = p /\ q2.tail = q.tail + 1
                  /\ msg_signal'[p] = msg_signal[p] /\ sender' = [sender EXCEPT !.pc = "signal"]
               \/ /\ sender.pc = "signal" /\ sender.to = p /\ q2.tail = q.tail
                  /\ msg_signal'[p] = msg_signal[p] + 1 /\ sender'.pc = "idle"
               \/ /\ q2.tail = q.tail /\ msg_signal'[p] = msg_signal[p]
                  /\ sender' = sender \/ sender'.pc \in {"idle", "write"} \/ sender'.to # p
                  /\ sender' = sender \/ sender.pc = "idle" \/ sender.to # p
        BY <1>2, SenderEffect
      <3>2. \A at : LET s == [sender EXCEPT !.pc = at] IN s.pc = at /\ s.to = sender.to
        BY <2>3 DEF Sender
      <3> DEFINE W == /\ sender.pc = "write" /\ sender.to = p /\ q2.tail = q.tail
                      /\ msg_signal'[p] = msg_signal[p]
                      /\ sender' = [sender EXCEPT !.pc = "advance"]
                 A == /\ sender.pc = "advance" /\ sender.to = p /\ q2.tail = q.tail + 1
                      /\ msg_signal'[p] = msg_signal[p]
                      /\ sender' = [sender EXCEPT !.pc = "signal"]
      <3>3. CASE W
        BY <3>1, <3>2, <3>3 DEF Bit
      <3>4. CASE A
        BY <3>1, <3>2, <3>4 DEF Bit
      <3>5. CASE ~ W /\ ~ A
        BY <3>1, <3>5 DEF Bit
      <3> QED BY <3>3, <3>4, <3>5
    <2>5. /\ \/ Unread(p)' = Unread(p) + 1 /\ Now = 0 /\ Then = 1
                /\ msg_signal'[p] = msg_signal[p]
             \/ Unread(p)' = Unread(p) /\ Now = 1 /\ Then = 0
                /\ msg_signal'[p] = msg_signal[p] + 1
             \/ Unread(p)' = Unread(p) /\ Now = Then /\ msg_signal'[p] = msg_signal[p]
      BY <2>2, <2>4 DEF Unread, Queue
    <2>6. Now \in Nat /\ Then \in Nat
      BY DEF Bit
    <2>7. /\ SignalAt(p) <=>
               /\ lost[p] >= 0
               /\ receiver[p].pc = "subtract" => receiver[p].load <= msg_signal[p]
               /\ Unread(p) >= 0
               /\ receiver[p].pc = "take" =>
                    receiver[p].num \in {0, BATCH} /\ receiver[p].num <= Unread(p)
               /\ Unread(p) <= msg_signal[p] + lost[p] + Now
                    + (IF receiver[p].pc \in {"size", "take"} THEN BATCH ELSE 0)
          /\ SignalAt(p)' <=>
               /\ lost[p] >= 0
               /\ receiver[p].pc = "subtract" => receiver[p].load <= msg_signal'[p]
               /\ Unread(p)' >= 0
               /\ receiver[p].pc = "take" =>
                    receiver[p].num \in {0, BATCH} /\ receiver[p].num <= Unread(p)'
               /\ Unread(p)' <= msg_signal'[p] + lost[p] + Then
                    + (IF receiver[p].pc \in {"size", "take"} THEN BATCH ELSE 0)
      BY <2>1 DEF SignalAt
    <2> HIDE DEF Now, Then
    <2>8. receiver[p].load \in Nat /\ receiver[p].num \in Int
      BY <2>2 DEF Receiver
    <2> QED BY <1>1, <2>2, <2>5, <2>6, <2>7, <2>8, Sizes
  <1>3. ASSUME NEW r \in Procs, ReceiverStep(r) PROVE SignalAt(p)'
    <2>1. CASE r = p
      BY <1>1, <1>3, <2>1, SignalReceiver
    <2>2. CASE r # p
      <3>1. /\ receiver'[p] = receiver[p] /\ lost'[p] = lost[p]
            /\ msgQueue'[p] = msgQueue[p] /\ msg_signal'[p] = msg_signal[p]
            /\ sender' = sender
        BY <1>3, <2>2, ReceiverOfOther, ReceiverFrame
      <3> QED BY <1>1, <3>1 DEF SignalAt, Unread
    <2> QED BY <2>1, <2>2
  <1>4. ASSUME NEW r \in Procs, ReaderStep(r) PROVE SignalAt(p)'
    BY <1>1, <1>4, ReaderFrame DEF SignalAt, Unread
  <1>5. CASE UNCHANGED vars
    BY <1>1, <1>5 DEF SignalAt, Unread, vars, kernelVars, queueVars, receiverVars
  <1> QED BY <1>2, <1>3, <1>4, <1>5, Steps

-----------------------------------------------------------------------------
(* Characters: key_handler() and read() on the ring of the terminal. *)

\* Two positions less than a ring apart are in different cells.
LEMMA CellsApart ==
  ASSUME NEW n \in Nat, n > 0, NEW j \in Int, NEW k \in Int, j < k, k - j < n
  PROVE  j % n # k % n
  <1> SUFFICES ASSUME j % n = k % n PROVE FALSE
    OBVIOUS
  <1> DEFINE d == (k \div n) - (j \div n)
  <1>1. j = n * (j \div n) + (j % n) /\ k = n * (k \div n) + (k % n)
    OBVIOUS
  <1>2. d \in Int
    OBVIOUS
  <1>3. k - j = n * d
    BY <1>1
  <1> HIDE DEF d
  <1>4. n * d > 0 /\ n * d < n
    BY <1>3
  <1>5. d > 0 /\ d < 1
    BY <1>2, <1>4
  <1> QED BY <1>2, <1>5

\* CharsSignalled for a process; a signal that monitor() has read is positive, and
\* not lowered by anybody else.
InputAt(p) ==
  /\ missed[p] >= 0
  /\ reader[p].pc = "subtract" => 1 <= reader[p].load /\ reader[p].load <= in_signal[p]
  /\ terminal[p].tail - terminal[p].head
       = in_signal[p] + missed[p] + Bit(receiver[p].pc = "notify")
           + Bit(reader[p].pc \in {"char", "head"})

\* The ring holds what was stored and not taken; the cell that key_handler() has
\* written is not one of those.
RingAt(p) ==
  LET t == terminal[p] IN
  /\ t.tail - t.head <= MAX_INPUT_BUFFER
  /\ receiver[p].pc = "tail" => /\ t.tail - t.head < MAX_INPUT_BUFFER
                                /\ t.buf[t.tail % MAX_INPUT_BUFFER] = receiver[p].key
  /\ Len(stored[p]) = t.tail
  /\ Len(taken[p]) = t.head + Bit(reader[p].pc = "head")
  /\ \A k \in t.head .. t.tail - 1 : t.buf[k % MAX_INPUT_BUFFER] = stored[p][k + 1]
  /\ \A k \in 1 .. Len(taken[p]) : taken[p][k] = stored[p][k]

CharInv == \A p \in Procs : InputAt(p) /\ RingAt(p)

\* The terms of InputAt and RingAt.
LEMMA CharTypes ==
  ASSUME TypeInv, NEW p \in Procs
  PROVE  /\ receiver[p] \in Receiver /\ reader[p] \in Reader /\ terminal[p] \in Input
         /\ in_signal[p] \in Nat /\ missed[p] \in Int
         /\ stored[p] \in Seq(Chars) /\ taken[p] \in Seq(Chars)
         /\ terminal[p].head \in Nat /\ terminal[p].tail \in Nat
  <1>1. /\ receiver[p] \in Receiver /\ reader[p] \in Reader /\ terminal[p] \in Input
        /\ in_signal[p] \in Nat /\ missed[p] \in Int
        /\ stored[p] \in Seq(Chars) /\ taken[p] \in Seq(Chars)
    BY DEF TypeInv, ReceiverType, ReaderType, InputType, HistoryType
  <1> QED BY <1>1 DEF Input

\* key_handler() keeps the ring and its signal.
LEMMA CharReceiver ==
  ASSUME TypeInv, NEW p \in Procs, InputAt(p), RingAt(p), ReceiverStep(p)
  PROVE  InputAt(p)' /\ RingAt(p)'
  <1>1. /\ receiver[p] \in Receiver /\ terminal[p] \in Input
        /\ in_signal[p] \in Nat /\ missed[p] \in Int
        /\ stored[p] \in Seq(Chars) /\ taken[p] \in Seq(Chars)
        /\ terminal[p].head \in Nat /\ terminal[p].tail \in Nat
    BY CharTypes
  <1>2. UNCHANGED <<reader, taken, missed>>
    BY ReceiverFrame
  <1>3. ReceiverType /\ InputType /\ HistoryType
    BY DEF TypeInv
  <1>4. CASE KeyStore(p)
    <2>1. /\ receiver[p].pc = "key" /\ receiver'[p] = [receiver[p] EXCEPT !.pc = "tail"]
          /\ terminal'[p] = [terminal[p] EXCEPT
               !.buf[terminal[p].tail % MAX_INPUT_BUFFER] = receiver[p].key]
          /\ terminal[p].tail - terminal[p].head < MAX_INPUT_BUFFER
          /\ UNCHANGED <<in_signal, stored>>
      BY <1>1, <1>3, <1>4, Sizes DEF KeyStore, Receives, ReceiverType, InputType, InputFull
    <2>2. /\ terminal'[p].head = terminal[p].head /\ terminal'[p].tail = terminal[p].tail
          /\ terminal'[p].buf = [terminal[p].buf EXCEPT
               ![terminal[p].tail % MAX_INPUT_BUFFER] = receiver[p].key]
          /\ receiver'[p].pc = "tail" /\ receiver'[p].key = receiver[p].key
      BY <1>1, <2>1 DEF Input, Receiver
    <2>3. terminal[p].buf \in [0 .. MAX_INPUT_BUFFER - 1 -> Chars]
      BY <1>1 DEF Input
    <2>4. terminal[p].tail % MAX_INPUT_BUFFER \in 0 .. MAX_INPUT_BUFFER - 1
      BY <1>1, Sizes
    <2>5. ASSUME NEW k \in terminal[p].head .. terminal[p].tail - 1
          PROVE  terminal'[p].buf[k % MAX_INPUT_BUFFER] = stored[p][k + 1]
      <3>1. k % MAX_INPUT_BUFFER # terminal[p].tail % MAX_INPUT_BUFFER
        <4>1. k \in Int /\ k < terminal[p].tail /\ terminal[p].tail - k < MAX_INPUT_BUFFER
              /\ terminal[p].tail \in Int
          <5>1. terminal[p].head \in Nat /\ terminal[p].tail \in Nat
            BY <1>1
          <5>2. terminal[p].tail - terminal[p].head < MAX_INPUT_BUFFER
            BY <2>1
          <5> QED BY <5>1, <5>2, Sizes
        <4> QED BY <4>1, CellsApart, Sizes
      <3>2. k % MAX_INPUT_BUFFER \in 0 .. MAX_INPUT_BUFFER - 1
        BY <1>1, Sizes
      <3> QED BY <2>2, <2>3, <3>1, <3>2 DEF RingAt
    <2>6. InputAt(p)'
      BY <1>2, <2>1, <2>2 DEF InputAt, Bit
    <2> QED BY <1>1, <1>2, <2>1, <2>2, <2>3, <2>4, <2>5, <2>6 DEF RingAt
  <1>5. CASE KeyTail(p)
    <2>1. /\ receiver[p].pc = "tail" /\ receiver'[p].pc = "notify"
          /\ terminal'[p].head = terminal[p].head
          /\ terminal'[p].tail = terminal[p].tail + 1
          /\ terminal'[p].buf = terminal[p].buf
          /\ stored'[p] = Append(stored[p], receiver[p].key)
          /\ UNCHANGED in_signal
      BY <1>1, <1>3, <1>5 DEF KeyTail, Receives, ReceiverType, Receiver, InputType, Input,
                              HistoryType
    <2>2. InputAt(p)'
      <3> DEFINE Taking == Bit(reader[p].pc \in {"char", "head"})
                 Now == Bit(receiver[p].pc = "notify")
                 Then == Bit(receiver'[p].pc = "notify")
      <3>1. Now = 0 /\ Then = 1 /\ Taking \in Nat
        BY <2>1 DEF Bit
      <3>2. /\ terminal[p].tail - terminal[p].head = in_signal[p] + missed[p] + Now + Taking
            /\ missed[p] >= 0
            /\ reader[p].pc = "subtract" => 1 <= reader[p].load /\ reader[p].load <= in_signal[p]
        BY DEF InputAt
      <3>3. InputAt(p)' <=>
              /\ missed[p] >= 0
              /\ reader[p].pc = "subtract" => 1 <= reader[p].load /\ reader[p].load <= in_signal[p]
              /\ terminal'[p].tail - terminal'[p].head = in_signal[p] + missed[p] + Then + Taking
        BY <1>2, <2>1 DEF InputAt
      <3> HIDE DEF Now, Then, Taking
      <3>4. terminal'[p].tail - terminal'[p].head = (terminal[p].tail - terminal[p].head) + 1
        <4>1. \A h, t \in Nat : (t + 1) - h = (t - h) + 1
          OBVIOUS
        <4>2. terminal[p].head \in Nat /\ terminal[p].tail \in Nat
          BY <1>1
        <4> QED BY <2>1, <4>1, <4>2, Zenon
      <3>5. terminal'[p].tail - terminal'[p].head = in_signal[p] + missed[p] + Then + Taking
        BY <1>1, <3>1, <3>2, <3>4
      <3> QED BY <3>2, <3>3, <3>5
    <2>3. /\ Len(stored'[p]) = terminal[p].tail + 1
          /\ stored'[p][terminal[p].tail + 1] = receiver[p].key
          /\ \A k \in 1 .. terminal[p].tail : stored'[p][k] = stored[p][k]
      <3>1. receiver[p].key \in Chars
        BY <1>1 DEF Receiver
      <3> QED BY <1>1, <2>1, <3>1 DEF RingAt
    <2>4. ASSUME NEW k \in terminal[p].head .. terminal[p].tail
          PROVE  terminal[p].buf[k % MAX_INPUT_BUFFER] = stored'[p][k + 1]
      BY <1>1, <2>1, <2>3 DEF RingAt
    <2>5. Len(taken[p]) <= terminal[p].tail
      <3> DEFINE Storing == Bit(receiver[p].pc = "notify")
                 Ahead == Bit(reader[p].pc = "head")
                 Taking == Bit(reader[p].pc \in {"char", "head"})
      <3>1. Storing \in Nat /\ Ahead \in Nat /\ Taking \in Nat /\ Ahead <= Taking
        BY DEF Bit
      <3>2. missed[p] >= 0
            /\ terminal[p].tail - terminal[p].head = in_signal[p] + missed[p] + Storing + Taking
        BY DEF InputAt
      <3>3. Len(taken[p]) = terminal[p].head + Ahead
        BY DEF RingAt
      <3>4. /\ terminal[p].tail \in Nat /\ terminal[p].head \in Nat
            /\ in_signal[p] \in Nat /\ missed[p] \in Int
        BY <1>1
      <3> HIDE DEF Storing, Ahead, Taking
      <3>5. \A a, b, c, d \in Nat : a - b = c + d => b + d <= a
        OBVIOUS
      <3>6. terminal[p].tail - terminal[p].head = (in_signal[p] + missed[p] + Storing) + Taking
        BY <3>1, <3>2, <3>4
      <3>7. in_signal[p] + missed[p] + Storing \in Nat
        BY <3>1, <3>2, <3>4
      <3>8. terminal[p].head + Taking <= terminal[p].tail
        BY <3>1, <3>4, <3>5, <3>6, <3>7, Zenon
      <3> QED BY <3>1, <3>3, <3>4, <3>8
    <2>6. ASSUME NEW k \in 1 .. Len(taken[p]) PROVE taken[p][k] = stored'[p][k]
      <3>1. taken[p][k] = stored[p][k]
        BY DEF RingAt
      <3>2. Len(taken[p]) \in Nat
        BY <1>1
      <3>3. k \in 1 .. terminal[p].tail
        BY <1>1, <2>5, <3>2
      <3> QED BY <2>3, <3>1, <3>3
    <2>7. /\ (terminal[p].tail + 1) - terminal[p].head <= MAX_INPUT_BUFFER
          /\ terminal[p].head .. (terminal[p].tail + 1) - 1 = terminal[p].head .. terminal[p].tail
          /\ Len(taken[p]) = terminal[p].head + Bit(reader[p].pc = "head")
      <3>1. /\ terminal[p].tail - terminal[p].head < MAX_INPUT_BUFFER
            /\ Len(taken[p]) = terminal[p].head + Bit(reader[p].pc = "head")
        BY <2>1 DEF RingAt
      <3>2. terminal[p].tail \in Nat /\ terminal[p].head \in Nat
        BY <1>1
      <3>3. \A h, t, m \in Nat : t - h < m => (t + 1) - h <= m /\ h .. (t + 1) - 1 = h .. t
        OBVIOUS
      <3> QED BY <3>1, <3>2, <3>3, Sizes, Zenon
    <2>8. /\ terminal'[p].tail - terminal'[p].head <= MAX_INPUT_BUFFER
          /\ Len(stored'[p]) = terminal'[p].tail
          /\ \A k \in terminal'[p].head .. terminal'[p].tail - 1 :
               terminal'[p].buf[k % MAX_INPUT_BUFFER] = stored'[p][k + 1]
      <3>1. terminal'[p].tail - terminal'[p].head <= MAX_INPUT_BUFFER
        <4>1. terminal'[p].tail = terminal[p].tail + 1 /\ terminal'[p].head = terminal[p].head
          BY <2>1
        <4>2. (terminal[p].tail + 1) - terminal[p].head <= MAX_INPUT_BUFFER
          BY <2>7
        <4> QED BY <4>1, <4>2
      <3>2. Len(stored'[p]) = terminal'[p].tail
        BY <2>1, <2>3, Zenon
      <3>3. ASSUME NEW k \in terminal'[p].head .. terminal'[p].tail - 1
            PROVE  terminal'[p].buf[k % MAX_INPUT_BUFFER] = stored'[p][k + 1]
        <4>1. k \in terminal[p].head .. terminal[p].tail
          BY <2>1, <2>7, Zenon
        <4>2. terminal'[p].buf = terminal[p].buf
          BY <2>1
        <4> QED BY <2>4, <4>1, <4>2, Zenon
      <3> QED BY <3>1, <3>2, <3>3
    <2>9. receiver'[p].pc # "tail"
      BY <2>1
    <2>10. Len(taken[p]) = terminal'[p].head + Bit(reader[p].pc = "head")
      BY <2>1, <2>7
    <2>11. RingAt(p)'
      BY <1>2, <2>6, <2>8, <2>9, <2>10 DEF RingAt
    <2> QED BY <2>2, <2>11
  <1>6. CASE KeyNotify(p)
    <2>1. /\ receiver[p].pc = "notify" /\ receiver'[p].pc = "handle"
          /\ in_signal'[p] = in_signal[p] + 1
          /\ UNCHANGED <<terminal, stored>>
      BY <1>3, <1>6 DEF KeyNotify, Receives, ReceiverType, Receiver, InputType
    <2>2. InputAt(p)'
      <3> DEFINE Taking == Bit(reader[p].pc \in {"char", "head"})
                 Now == Bit(receiver[p].pc = "notify")
                 Then == Bit(receiver'[p].pc = "notify")
      <3>1. Now = 1 /\ Then = 0 /\ Taking \in Nat
        BY <2>1 DEF Bit
      <3>2. /\ terminal[p].tail - terminal[p].head = in_signal[p] + missed[p] + Now + Taking
            /\ missed[p] >= 0
            /\ reader[p].pc = "subtract" => 1 <= reader[p].load /\ reader[p].load <= in_signal[p]
        BY DEF InputAt
      <3>3. InputAt(p)' <=>
              /\ missed[p] >= 0
              /\ reader[p].pc = "subtract" => 1 <= reader[p].load /\ reader[p].load <= in_signal'[p]
              /\ terminal[p].tail - terminal[p].head = in_signal'[p] + missed[p] + Then + Taking
        BY <1>2, <2>1 DEF InputAt
      <3> HIDE DEF Now, Then, Taking
      <3>4. reader[p].load \in Nat
        BY CharTypes DEF Reader
      <3> QED BY <1>1, <2>1, <3>1, <3>2, <3>3, <3>4
    <2> QED BY <1>2, <2>1, <2>2 DEF RingAt
  <1>7. CASE /\ UNCHANGED <<terminal, in_signal, stored>>
             /\ receiver[p].pc # "notify" /\ receiver'[p].pc \notin {"tail", "notify"}
    BY <1>2, <1>7 DEF InputAt, RingAt
  <1>8. CASE SubscribeKeys(p) \/ MonitorSleep(p) \/ MonitorWake(p) \/ KeyDrop(p)
    <2>1. receiver[p].pc # "notify" /\ receiver'[p].pc \notin {"tail", "notify"}
      BY <1>3, <1>8 DEF Receives, SubscribeKeys, MonitorSleep, MonitorWake, KeyDrop,
                        ReceiverType, Receiver
    <2> QED BY <1>7, <1>8, <2>1 DEF SubscribeKeys, MonitorSleep, MonitorWake, KeyDrop,
                                    terminalVars
  <1>9. CASE MonitorLoad(p) \/ MonitorSubtract(p) \/ DequeueSize(p) \/ DequeueTake(p)
             \/ HandleMessage(p) \/ Release(p)
    <2>1. receiver[p].pc # "notify" /\ receiver'[p].pc \notin {"tail", "notify"}
      <3>1. CASE MonitorLoad(p) \/ MonitorSubtract(p)
        BY <1>3, <3>1 DEF MonitorLoad, MonitorSubtract, ReceiverType, Receiver
      <3>2. CASE DequeueSize(p) \/ DequeueTake(p)
        BY <1>3, <3>2 DEF DequeueSize, DequeueTake, Resting, ReceiverType, Receiver
      <3>3. CASE HandleMessage(p)
        BY <1>3, <3>3 DEF HandleMessage, ReceiverType, Receiver
      <3>4. CASE Release(p)
        BY <1>3, <3>4 DEF Release, Resting, ReceiverType, Receiver
      <3> QED BY <1>9, <3>1, <3>2, <3>3, <3>4
    <2> QED BY <1>7, <1>9, <2>1 DEF MonitorLoad, MonitorSubtract, DequeueSize, DequeueTake,
                                    HandleMessage, Release, terminalVars
  <1> QED BY <1>4, <1>5, <1>6, <1>8, <1>9 DEF ReceiverStep

\* read() keeps the ring and its signal.
LEMMA CharReader ==
  ASSUME TypeInv, NEW p \in Procs, InputAt(p), RingAt(p), ReaderStep(p)
  PROVE  InputAt(p)' /\ RingAt(p)'
  <1>1. /\ reader[p] \in Reader /\ terminal[p] \in Input
        /\ in_signal[p] \in Nat /\ missed[p] \in Int
        /\ stored[p] \in Seq(Chars) /\ taken[p] \in Seq(Chars)
        /\ terminal[p].head \in Nat /\ terminal[p].tail \in Nat
    BY CharTypes
  <1>2. UNCHANGED <<receiver, stored>>
    BY ReaderFrame
  <1>3. ReaderType /\ InputType /\ HistoryType
    BY DEF TypeInv
  <1>4. CASE ReadSleep(p)
    <2>1. /\ reader[p].pc = "monitor" /\ reader'[p].pc = "asleep"
          /\ UNCHANGED <<terminal, in_signal, taken, missed>>
      BY <1>3, <1>4 DEF ReadSleep, Reads, ReaderType, Reader, terminalVars
    <2> QED BY <1>2, <2>1 DEF InputAt, RingAt, Bit
  <1>5. CASE ReadWake(p)
    <2>1. /\ reader[p].pc = "asleep" /\ reader'[p].pc = "char" /\ in_signal[p] > 0
          /\ in_signal'[p] = Lower(in_signal[p], 1)
          /\ UNCHANGED <<terminal, taken, missed>>
      BY <1>3, <1>5 DEF ReadWake, Reads, ReaderType, Reader, InputType
    <2>2. in_signal'[p] = in_signal[p] - 1
      BY <1>1, <2>1 DEF Lower
    <2> QED BY <1>1, <1>2, <2>1, <2>2 DEF InputAt, RingAt, Bit
  <1>6. CASE ReadLoad(p)
    <2>1. /\ reader[p].pc = "monitor" /\ reader'[p].pc = "subtract" /\ in_signal[p] > 0
          /\ reader'[p].load = in_signal[p]
          /\ UNCHANGED <<terminal, in_signal, taken, missed>>
      BY <1>3, <1>6 DEF ReadLoad, ReaderType, Reader, terminalVars
    <2> QED BY <1>1, <1>2, <2>1 DEF InputAt, RingAt, Bit
  <1>7. CASE ReadSubtract(p)
    <2>1. /\ reader[p].pc = "subtract" /\ reader'[p].pc = "char"
          /\ in_signal'[p] = Lower(reader[p].load, 1)
          /\ missed'[p] = missed[p] + in_signal[p] - reader[p].load
          /\ UNCHANGED <<terminal, taken>>
      BY <1>3, <1>7 DEF ReadSubtract, ReaderType, Reader, InputType, HistoryType
    <2>2. reader[p].load \in Nat
      BY <1>1 DEF Reader
    <2>3. in_signal'[p] = reader[p].load - 1
      BY <2>1, <2>2 DEF Lower, InputAt
    <2>4. InputAt(p)'
      BY <1>1, <1>2, <2>1, <2>2, <2>3 DEF InputAt, Bit
    <2>5. RingAt(p)'
      BY <1>2, <2>1 DEF RingAt, Bit
    <2> QED BY <2>4, <2>5
  <1>8. CASE ReadChar(p)
    <2>1. /\ reader[p].pc = "char" /\ reader'[p].pc = "head"
          /\ taken'[p] = Append(taken[p], terminal[p].buf[terminal[p].head % MAX_INPUT_BUFFER])
          /\ UNCHANGED <<terminal, in_signal, missed>>
      BY <1>3, <1>8 DEF ReadChar, ReaderType, Reader, HistoryType, terminalVars
    <2>2. InputAt(p)'
      BY <1>2, <2>1 DEF InputAt, Bit
    <2>3. terminal[p].head < terminal[p].tail
      <3>1. Bit(reader[p].pc \in {"char", "head"}) = 1 /\ Bit(receiver[p].pc = "notify") \in Nat
        BY <2>1 DEF Bit
      <3>2. /\ missed[p] >= 0
            /\ terminal[p].tail - terminal[p].head
                 = in_signal[p] + missed[p] + Bit(receiver[p].pc = "notify")
                     + Bit(reader[p].pc \in {"char", "head"})
        BY DEF InputAt
      <3>3. /\ terminal[p].tail \in Nat /\ terminal[p].head \in Nat
            /\ in_signal[p] \in Nat /\ missed[p] \in Int
        BY <1>1
      <3> QED BY <3>1, <3>2, <3>3
    <2>4. terminal[p].buf[terminal[p].head % MAX_INPUT_BUFFER] = stored[p][terminal[p].head + 1]
      <3>1. terminal[p].head \in terminal[p].head .. terminal[p].tail - 1
        BY <1>1, <2>3
      <3> QED BY <3>1 DEF RingAt
    <2>5. Len(taken[p]) = terminal[p].head
      BY <1>1, <2>1 DEF RingAt, Bit
    <2>6. /\ Len(taken'[p]) = terminal[p].head + 1
          /\ taken'[p][terminal[p].head + 1] = stored[p][terminal[p].head + 1]
          /\ \A k \in 1 .. terminal[p].head : taken'[p][k] = taken[p][k]
      <3>1. terminal[p].buf[terminal[p].head % MAX_INPUT_BUFFER] \in Chars
        <4>1. terminal[p].head % MAX_INPUT_BUFFER \in 0 .. MAX_INPUT_BUFFER - 1
          BY <1>1, Sizes
        <4>2. terminal[p].buf \in [0 .. MAX_INPUT_BUFFER - 1 -> Chars]
          BY <1>1 DEF Input
        <4> QED BY <4>1, <4>2
      <3> QED BY <1>1, <2>1, <2>4, <2>5, <3>1
    <2>7. \A k \in 1 .. Len(taken'[p]) : taken'[p][k] = stored[p][k]
      <3>1. \A k \in 1 .. terminal[p].head : taken[p][k] = stored[p][k]
        BY <2>5 DEF RingAt
      <3>2. \A k \in 1 .. terminal[p].head + 1 :
              k \in 1 .. terminal[p].head \/ k = terminal[p].head + 1
        BY <1>1
      <3> QED BY <2>6, <3>1, <3>2
    <2>8. Bit(reader'[p].pc = "head") = 1
      BY <2>1 DEF Bit
    <2> QED BY <1>1, <1>2, <2>1, <2>2, <2>6, <2>7, <2>8 DEF RingAt
  <1>9. CASE ReadHead(p)
    <2>1. /\ reader[p].pc = "head" /\ reader'[p].pc \in {"return", "monitor"}
          /\ terminal'[p].head = terminal[p].head + 1
          /\ terminal'[p].tail = terminal[p].tail
          /\ terminal'[p].buf = terminal[p].buf
          /\ UNCHANGED <<in_signal, taken, missed>>
      BY <1>1, <1>3, <1>9 DEF ReadHead, ReaderType, Reader, InputType, Input
    <2>2. InputAt(p)'
      <3> DEFINE Storing == Bit(receiver[p].pc = "notify")
                 Now == Bit(reader[p].pc \in {"char", "head"})
                 Then == Bit(reader'[p].pc \in {"char", "head"})
      <3>1. Now = 1 /\ Then = 0 /\ Storing \in Nat
        BY <2>1 DEF Bit
      <3>2. /\ terminal[p].tail - terminal[p].head = in_signal[p] + missed[p] + Storing + Now
            /\ missed[p] >= 0
        BY DEF InputAt
      <3>3. InputAt(p)' <=>
              /\ missed[p] >= 0
              /\ terminal'[p].tail - terminal'[p].head = in_signal[p] + missed[p] + Storing + Then
        BY <1>2, <2>1 DEF InputAt
      <3> HIDE DEF Now, Then, Storing
      <3>4. terminal'[p].tail - terminal'[p].head = (terminal[p].tail - terminal[p].head) - 1
        <4>1. \A h, t \in Nat : t - (h + 1) = (t - h) - 1
          OBVIOUS
        <4>2. terminal[p].head \in Nat /\ terminal[p].tail \in Nat
          BY <1>1
        <4> QED BY <2>1, <4>1, <4>2, Zenon
      <3>5. terminal'[p].tail - terminal'[p].head = in_signal[p] + missed[p] + Storing + Then
        BY <1>1, <3>1, <3>2, <3>4
      <3> QED BY <3>2, <3>3, <3>5
    <2>3. Bit(reader[p].pc = "head") = 1 /\ Bit(reader'[p].pc = "head") = 0
      BY <2>1 DEF Bit
    <2>4. /\ Len(taken[p]) = terminal'[p].head + Bit(reader'[p].pc = "head")
          /\ terminal'[p].tail - terminal'[p].head < MAX_INPUT_BUFFER
          /\ terminal'[p].tail - terminal'[p].head <= MAX_INPUT_BUFFER
      <3>1. /\ Len(taken[p]) = terminal[p].head + Bit(reader[p].pc = "head")
            /\ terminal[p].tail - terminal[p].head <= MAX_INPUT_BUFFER
        BY DEF RingAt
      <3>2. terminal'[p].head = terminal[p].head + 1 /\ terminal'[p].tail = terminal[p].tail
        BY <2>1
      <3> QED BY <1>1, <2>3, <3>1, <3>2, Sizes
    <2>5. ASSUME NEW k \in terminal'[p].head .. terminal'[p].tail - 1
          PROVE  terminal'[p].buf[k % MAX_INPUT_BUFFER] = stored[p][k + 1]
      <3>1. k \in terminal[p].head .. terminal[p].tail - 1
        BY <1>1, <2>1
      <3> QED BY <2>1, <3>1 DEF RingAt
    <2>6. RingAt(p)'
      BY <1>2, <2>1, <2>4, <2>5 DEF RingAt
    <2> QED BY <2>2, <2>6
  <1>10. CASE ReadReturn(p)
    <2>1. /\ reader[p].pc = "return" /\ reader'[p].pc = "monitor"
          /\ UNCHANGED <<terminal, in_signal, taken, missed>>
      BY <1>3, <1>10 DEF ReadReturn, ReaderType, Reader, terminalVars
    <2> QED BY <1>2, <2>1 DEF InputAt, RingAt, Bit
  <1> QED BY <1>4, <1>5, <1>6, <1>7, <1>8, <1>9, <1>10 DEF ReaderStep

\* CharInv is inductive, over the types.
LEMMA CharsKept ==
  ASSUME TypeInv, CharInv, [Next]_vars
  PROVE  CharInv'
  <1> SUFFICES ASSUME NEW p \in Procs PROVE InputAt(p)' /\ RingAt(p)'
    BY DEF CharInv
  <1>1. InputAt(p) /\ RingAt(p)
    BY DEF CharInv
  <1>2. CASE SenderStep
    BY <1>1, <1>2, SenderFrame DEF InputAt, RingAt
  <1>3. ASSUME NEW r \in Procs, ReceiverStep(r) PROVE InputAt(p)' /\ RingAt(p)'
    <2>1. CASE r = p
      BY <1>1, <1>3, <2>1, CharReceiver
    <2>2. CASE r # p
      BY <1>1, <1>3, <2>2, ReceiverOfOther, ReceiverFrame DEF InputAt, RingAt
    <2> QED BY <2>1, <2>2
  <1>4. ASSUME NEW r \in Procs, ReaderStep(r) PROVE InputAt(p)' /\ RingAt(p)'
    <2>1. CASE r = p
      BY <1>1, <1>4, <2>1, CharReader
    <2>2. CASE r # p
      BY <1>1, <1>4, <2>2, ReaderOfOther, ReaderFrame DEF InputAt, RingAt
    <2> QED BY <2>1, <2>2
  <1>5. CASE UNCHANGED vars
    BY <1>1, <1>5 DEF InputAt, RingAt, vars, receiverVars, terminalVars, readerVars
  <1> QED BY <1>2, <1>3, <1>4, <1>5, Steps

-----------------------------------------------------------------------------
(* Messages: enqueue(), dequeue(), get() and release() on the ring of a process. *)

\* Where the event thread is between the two heads: the messages from locked_head
\* to safe_head are the batch it handles, and handled[p] ends at its index i.
PlacesAt(p) ==
  LET q == msgQueue[p]  r == receiver[p] IN
  /\ Len(sent[p]) = q.tail
  /\ 0 <= q.locked_head /\ q.locked_head <= q.safe_head
  /\ r.pc \in Handling =>
       /\ r.end = q.safe_head /\ r.num = q.safe_head - q.locked_head
       /\ q.locked_head <= r.i /\ r.i <= r.end
       /\ Len(handled[p]) = r.i
  /\ r.pc \notin Handling =>
       q.locked_head = q.safe_head /\ Len(handled[p]) = q.safe_head

\* Until the queue overruns, the ring holds what was sent and not released, and the
\* slot that enqueue() has written is not one of those.
HeldAt(p) ==
  LET q == msgQueue[p] IN
  ~overrun[p] =>
    /\ q.tail - q.locked_head <= MAX_PROC_MSGS
    /\ \A k \in q.locked_head .. q.tail - 1 : q.slot[k % MAX_PROC_MSGS] = sent[p][k + 1]
    /\ \A k \in 1 .. Len(handled[p]) : handled[p][k] = sent[p][k]
    /\ sender.pc = "advance" /\ sender.to = p =>
         /\ q.tail - q.locked_head < MAX_PROC_MSGS
         /\ q.slot[q.tail % MAX_PROC_MSGS] = sender.msg

OrderInv == \A p \in Procs : PlacesAt(p) /\ HeldAt(p)

\* The terms of PlacesAt and HeldAt.
LEMMA OrderTypes ==
  ASSUME TypeInv, NEW p \in Procs
  PROVE  /\ receiver[p] \in Receiver /\ msgQueue[p] \in Queue
         /\ sent[p] \in Seq(Message) /\ handled[p] \in Seq(Message)
         /\ msgQueue[p].locked_head \in Int /\ msgQueue[p].safe_head \in Int
         /\ msgQueue[p].tail \in Nat
         /\ msgQueue[p].slot \in [0 .. MAX_PROC_MSGS - 1 -> Message]
         /\ receiver[p].i \in Int /\ receiver[p].end \in Int /\ receiver[p].num \in Int
  <1>1. /\ receiver[p] \in Receiver /\ msgQueue[p] \in Queue
        /\ sent[p] \in Seq(Message) /\ handled[p] \in Seq(Message)
    BY DEF TypeInv, ReceiverType, QueueType, HistoryType
  <1> QED BY <1>1 DEF Receiver, Queue

\* The handler is never ahead of the sender.
LEMMA HandledBound ==
  ASSUME TypeInv, NEW p \in Procs, SignalAt(p), PlacesAt(p)
  PROVE  /\ msgQueue[p].safe_head <= msgQueue[p].tail
         /\ Len(handled[p]) <= msgQueue[p].tail /\ Len(handled[p]) \in Nat
  <1>1. msgQueue[p].safe_head <= msgQueue[p].tail
    BY OrderTypes DEF SignalAt, Unread
  <1>2. Len(handled[p]) <= msgQueue[p].safe_head
    BY OrderTypes DEF PlacesAt
  <1>3. Len(handled[p]) \in Nat
    BY OrderTypes
  <1> QED BY <1>1, <1>2, <1>3, OrderTypes

\* enqueue() and the signal.
LEMMA OrderSender ==
  ASSUME TypeInv, NEW p \in Procs, SignalAt(p), PlacesAt(p), HeldAt(p), SenderStep
  PROVE  PlacesAt(p)' /\ HeldAt(p)'
  <1> DEFINE q == msgQueue[p]
             q2 == msgQueue'[p]
  <1>1. UNCHANGED <<receiver, handled>>
    BY SenderFrame
  <1>2. /\ q.locked_head \in Int /\ q.safe_head \in Int /\ q.tail \in Nat
        /\ q.slot \in [0 .. MAX_PROC_MSGS - 1 -> Message]
        /\ sent[p] \in Seq(Message) /\ handled[p] \in Seq(Message)
    BY OrderTypes
  <1>3. sender \in Sender /\ sender.msg \in Message
    BY DEF TypeInv, SenderType, Sender
  <1>4. q2.safe_head = q.safe_head /\ q2.locked_head = q.locked_head
    BY SenderEffect
  <1>5. q.safe_head <= q.tail /\ Len(handled[p]) <= q.tail /\ Len(handled[p]) \in Nat
    BY HandledBound
  <1>6. CASE /\ sender.pc = "write" /\ sender.to = p /\ q2.tail = q.tail /\ sent'[p] = sent[p]
             /\ q2.slot = [q.slot EXCEPT ![q.tail % MAX_PROC_MSGS] = sender.msg]
             /\ overrun'[p] = (overrun[p] \/ q.tail - q.locked_head >= MAX_PROC_MSGS)
             /\ sender' = [sender EXCEPT !.pc = "advance"]
    <2>1. PlacesAt(p)'
      BY <1>1, <1>4, <1>6 DEF PlacesAt
    <2>2. SUFFICES ASSUME ~overrun'[p] PROVE HeldAt(p)'
      BY <2>1 DEF HeldAt
    <2>3. ~overrun[p] /\ q.tail - q.locked_head < MAX_PROC_MSGS
      <3>1. ~overrun[p] /\ ~(q.tail - q.locked_head >= MAX_PROC_MSGS)
        BY <1>6, <2>2, Zenon
      <3> QED BY <1>2, <3>1, Sizes
    <2>4. q.tail % MAX_PROC_MSGS \in 0 .. MAX_PROC_MSGS - 1
      BY <1>2, Sizes
    <2>5. q2.slot[q.tail % MAX_PROC_MSGS] = sender.msg
      BY <1>2, <1>6, <2>4
    <2>6. ASSUME NEW k \in q.locked_head .. q.tail - 1
          PROVE  q2.slot[k % MAX_PROC_MSGS] = sent[p][k + 1]
      <3>1. k \in Int /\ k < q.tail /\ q.tail - k < MAX_PROC_MSGS /\ q.tail \in Int
        BY <1>2, <2>3, Sizes
      <3>2. k % MAX_PROC_MSGS # q.tail % MAX_PROC_MSGS
        BY <3>1, CellsApart, Sizes
      <3>3. k % MAX_PROC_MSGS \in 0 .. MAX_PROC_MSGS - 1
        BY <3>1, Sizes
      <3>4. q2.slot[k % MAX_PROC_MSGS] = q.slot[k % MAX_PROC_MSGS]
        BY <1>2, <1>6, <3>2, <3>3
      <3> QED BY <2>3, <3>4 DEF HeldAt
    <2>7. sender'.msg = sender.msg
      BY <1>3, <1>6 DEF Sender
    <2>8. q.tail - q.locked_head <= MAX_PROC_MSGS
      BY <1>2, <2>3, Sizes
    <2>9. \A k \in 1 .. Len(handled[p]) : handled[p][k] = sent[p][k]
      BY <2>3 DEF HeldAt
    <2>10. \A k \in q2.locked_head .. q2.tail - 1 :
             q2.slot[k % MAX_PROC_MSGS] = sent'[p][k + 1]
      BY <1>4, <1>6, <2>6
    <2>11. q2.tail = q.tail /\ q2.locked_head = q.locked_head /\ sent'[p] = sent[p]
      BY <1>4, <1>6
    <2> HIDE DEF q2
    <2> QED BY <1>1, <2>3, <2>5, <2>7, <2>8, <2>9, <2>10, <2>11 DEF HeldAt, q2
  <1>7. CASE /\ sender.pc = "advance" /\ sender.to = p /\ q2.slot = q.slot
             /\ overrun'[p] = overrun[p]
             /\ q2.tail = q.tail + 1 /\ sent'[p] = Append(sent[p], sender.msg)
             /\ sender' = [sender EXCEPT !.pc = "signal"]
    <2>1. Len(sent[p]) = q.tail
      BY DEF PlacesAt
    <2>2. /\ Len(sent'[p]) = q.tail + 1 /\ sent'[p][q.tail + 1] = sender.msg
          /\ \A k \in 1 .. q.tail : sent'[p][k] = sent[p][k]
      BY <1>2, <1>3, <1>7, <2>1
    <2>3. PlacesAt(p)'
      BY <1>1, <1>4, <1>7, <2>2 DEF PlacesAt
    <2>4. SUFFICES ASSUME ~overrun'[p] PROVE HeldAt(p)'
      BY <2>3 DEF HeldAt
    <2>5. ~overrun[p]
      BY <1>7, <2>4
    <2>6. q.tail - q.locked_head < MAX_PROC_MSGS /\ q.slot[q.tail % MAX_PROC_MSGS] = sender.msg
      BY <1>7, <2>5 DEF HeldAt
    <2>7. ASSUME NEW k \in q.locked_head .. q.tail
          PROVE  q.slot[k % MAX_PROC_MSGS] = sent'[p][k + 1]
      <3>1. CASE k = q.tail
        BY <2>2, <2>6, <3>1
      <3>2. CASE k # q.tail
        <4>1. k \in q.locked_head .. q.tail - 1 /\ k + 1 \in 1 .. q.tail
          BY <1>2, <3>2 DEF PlacesAt
        <4>2. q.slot[k % MAX_PROC_MSGS] = sent[p][k + 1]
          BY <2>5, <4>1 DEF HeldAt
        <4> QED BY <2>2, <4>1, <4>2
      <3> QED BY <3>1, <3>2
    <2>8. ASSUME NEW k \in 1 .. Len(handled[p])
          PROVE  handled[p][k] = sent'[p][k]
      <3>1. k \in 1 .. q.tail
        BY <1>2, <1>5
      <3> QED BY <2>2, <2>5, <3>1 DEF HeldAt
    <2>9. (q.tail + 1) - q.locked_head <= MAX_PROC_MSGS
          /\ q.locked_head .. (q.tail + 1) - 1 = q.locked_head .. q.tail
      BY <1>2, <2>6, Sizes
    <2>10. sender'.pc # "advance"
      BY <1>3, <1>7 DEF Sender
    <2>11. /\ q2.tail - q2.locked_head <= MAX_PROC_MSGS
           /\ \A k \in q2.locked_head .. q2.tail - 1 :
                q2.slot[k % MAX_PROC_MSGS] = sent'[p][k + 1]
      BY <1>4, <1>7, <2>7, <2>9
    <2> QED BY <1>1, <2>8, <2>10, <2>11 DEF HeldAt
  <1>8. CASE /\ q2.tail = q.tail /\ sent'[p] = sent[p]
             /\ q2.slot = q.slot /\ overrun'[p] = overrun[p]
             /\ sender' = sender \/ sender'.pc \in {"idle", "write"} \/ sender'.to # p
    <2>1. PlacesAt(p)'
      BY <1>1, <1>4, <1>8 DEF PlacesAt
    <2>2. HeldAt(p)'
      BY <1>1, <1>4, <1>8 DEF HeldAt
    <2> QED BY <2>1, <2>2
  <1> QED BY <1>6, <1>7, <1>8, SenderEffect

\* dequeue(), the loop over the batch and release().
LEMMA OrderReceiver ==
  ASSUME TypeInv, NEW p \in Procs, SignalAt(p), PlacesAt(p), HeldAt(p), ReceiverStep(p)
  PROVE  PlacesAt(p)' /\ HeldAt(p)'
  <1> DEFINE q == msgQueue[p]
             q2 == msgQueue'[p]
             r == receiver[p]
             r2 == receiver'[p]
  <1>1. UNCHANGED <<sender, sent, overrun>>
    BY ReceiverFrame
  <1>2. /\ r \in Receiver /\ q \in Queue
        /\ q.locked_head \in Int /\ q.safe_head \in Int /\ q.tail \in Nat
        /\ q.slot \in [0 .. MAX_PROC_MSGS - 1 -> Message]
        /\ sent[p] \in Seq(Message) /\ handled[p] \in Seq(Message)
        /\ r.i \in Int /\ r.end \in Int /\ r.num \in Int
    BY OrderTypes
  <1>3. ReceiverType /\ QueueType /\ HistoryType
    BY DEF TypeInv
  <1>4. q.safe_head <= q.tail /\ Len(handled[p]) <= q.tail /\ Len(handled[p]) \in Nat
    BY HandledBound
  <1>5. CASE /\ q2 = q /\ handled' = handled
             /\ \/ r.pc \in Handling /\ r2.pc \in Handling
                   /\ r2.i = r.i /\ r2.end = r.end /\ r2.num = r.num
                \/ r.pc \notin Handling /\ r2.pc \notin Handling
    <2>1. PlacesAt(p)'
      BY <1>1, <1>5 DEF PlacesAt
    <2>2. HeldAt(p)'
      BY <1>1, <1>5 DEF HeldAt
    <2> QED BY <2>1, <2>2
  <1>6. CASE SubscribeKeys(p) \/ MonitorSleep(p) \/ MonitorWake(p) \/ MonitorLoad(p)
             \/ MonitorSubtract(p) \/ DequeueSize(p)
    <2>1. r.pc \notin Handling /\ r2.pc \notin Handling
      BY <1>3, <1>6 DEF SubscribeKeys, MonitorSleep, MonitorWake, MonitorLoad, MonitorSubtract,
                        DequeueSize, Receives, ReceiverType, Receiver, Handling
    <2>2. q2 = q /\ handled' = handled
      BY <1>6 DEF SubscribeKeys, MonitorSleep, MonitorWake, MonitorLoad, MonitorSubtract,
                  DequeueSize, queueVars
    <2> QED BY <1>5, <2>1, <2>2
  <1>7. CASE KeyDrop(p) \/ KeyStore(p) \/ KeyTail(p) \/ KeyNotify(p)
    <2>1. /\ r.pc \in Handling /\ r2.pc \in Handling
          /\ r2.i = r.i /\ r2.end = r.end /\ r2.num = r.num
      BY <1>3, <1>7 DEF KeyDrop, KeyStore, KeyTail, KeyNotify, Receives, ReceiverType, Receiver,
                        Handling
    <2>2. q2 = q /\ handled' = handled
      BY <1>7 DEF KeyDrop, KeyStore, KeyTail, KeyNotify, queueVars
    <2> QED BY <1>5, <2>1, <2>2
  <1>8. CASE DequeueTake(p)
    <2>1. /\ r.pc = "take" /\ r2.pc = "handle" /\ r2.num = Taken(p)
          /\ r2.i = q.safe_head /\ r2.end = q.safe_head + Taken(p)
          /\ handled' = handled
      BY <1>3, <1>8 DEF DequeueTake, ReceiverType, Receiver
    <2>2. /\ q2.safe_head = q.safe_head + Taken(p) /\ q2.locked_head = q.locked_head
          /\ q2.tail = q.tail /\ q2.slot = q.slot
      BY <1>2, <1>3, <1>8 DEF DequeueTake, QueueType, Queue
    <2>3. Taken(p) \in Nat
      <3>1. Unread(p) \in Nat
        BY SignalTypes DEF SignalAt
      <3> QED BY <2>1, <3>1, Sizes DEF Taken, SignalAt
    <2>4. q.locked_head = q.safe_head /\ Len(handled[p]) = q.safe_head
      BY <2>1 DEF PlacesAt, Handling
    <2>5. PlacesAt(p)'
      <3>1. r2.pc \in Handling
        BY <2>1 DEF Handling
      <3>2. /\ q2.locked_head <= q2.safe_head /\ r2.end = q2.safe_head
            /\ r2.num = q2.safe_head - q2.locked_head
            /\ q2.locked_head <= r2.i /\ r2.i <= r2.end /\ Len(handled[p]) = r2.i
        BY <1>2, <2>1, <2>2, <2>3, <2>4
      <3>3. Len(sent[p]) = q2.tail /\ 0 <= q2.locked_head
        BY <2>2 DEF PlacesAt
      <3> QED BY <1>1, <2>1, <3>1, <3>2, <3>3 DEF PlacesAt
    <2>6. HeldAt(p)'
      BY <1>1, <2>1, <2>2 DEF HeldAt
    <2> QED BY <2>5, <2>6
  <1>9. CASE HandleMessage(p)
    <2> DEFINE m == q.slot[r.i % MAX_PROC_MSGS]
    <2>1. /\ r.pc = "handle" /\ r.i < r.end /\ r2.pc \in {"key", "handle"}
          /\ r2.i = r.i + 1 /\ r2.end = r.end /\ r2.num = r.num
          /\ handled'[p] = Append(handled[p], m) /\ q2 = q
      <3>1. q2 = q /\ handled'[p] = Append(handled[p], m)
        BY <1>3, <1>9 DEF HandleMessage, HistoryType, queueVars
      <3>2. /\ r.pc = "handle" /\ r.i < r.end /\ r2.pc \in {"key", "handle"}
            /\ r2.i = r.i + 1 /\ r2.end = r.end /\ r2.num = r.num
        BY <1>3, <1>9 DEF HandleMessage, ReceiverType, Receiver
      <3> QED BY <3>1, <3>2
    <2>2. m \in Message
      <3>1. r.i % MAX_PROC_MSGS \in 0 .. MAX_PROC_MSGS - 1
        BY <1>2, Sizes
      <3> QED BY <1>2, <3>1
    <2>3. /\ r.end = q.safe_head /\ r.num = q.safe_head - q.locked_head
          /\ q.locked_head <= r.i /\ Len(handled[p]) = r.i
      BY <2>1 DEF PlacesAt, Handling
    <2>4. /\ Len(handled'[p]) = r.i + 1 /\ handled'[p][r.i + 1] = m
          /\ \A k \in 1 .. r.i : handled'[p][k] = handled[p][k]
      <3> HIDE DEF m
      <3> QED BY <1>2, <2>1, <2>2, <2>3
    <2>5. PlacesAt(p)'
      <3>1. r2.pc \in Handling
        BY <2>1 DEF Handling
      <3>2. /\ r2.end = q2.safe_head /\ r2.num = q2.safe_head - q2.locked_head
            /\ q2.locked_head <= r2.i /\ r2.i <= r2.end /\ Len(handled'[p]) = r2.i
        BY <1>2, <2>1, <2>3, <2>4
      <3>3. Len(sent[p]) = q2.tail /\ 0 <= q2.locked_head /\ q2.locked_head <= q2.safe_head
        BY <2>1 DEF PlacesAt
      <3> QED BY <1>1, <3>1, <3>2, <3>3 DEF PlacesAt
    <2>6. ASSUME ~overrun[p], NEW k \in 1 .. Len(handled'[p])
          PROVE  handled'[p][k] = sent[p][k]
      <3>1. CASE k = r.i + 1
        <4>1. r.i \in q.locked_head .. q.tail - 1
          BY <1>2, <1>4, <2>1, <2>3
        <4>2. m = sent[p][r.i + 1]
          BY <2>6, <4>1 DEF HeldAt
        <4> QED BY <2>4, <3>1, <4>2
      <3>2. CASE k # r.i + 1
        <4>1. k \in 1 .. r.i
          BY <1>2, <2>4, <3>2
        <4>2. handled[p][k] = sent[p][k]
          BY <2>3, <2>6, <4>1 DEF HeldAt
        <4> QED BY <2>4, <4>1, <4>2
      <3> QED BY <3>1, <3>2
    <2>7. HeldAt(p)'
      BY <1>1, <2>1, <2>6 DEF HeldAt
    <2> QED BY <2>5, <2>7
  <1>10. CASE Release(p)
    <2>1. r.pc = "handle" /\ r.i >= r.end /\ r2.pc = "monitor" /\ handled' = handled
      BY <1>3, <1>10 DEF Release, Resting, ReceiverType, Receiver
    <2>2. /\ r.end = q.safe_head /\ r.num = q.safe_head - q.locked_head
          /\ q.locked_head <= r.i /\ r.i <= r.end /\ Len(handled[p]) = r.i
      BY <2>1 DEF PlacesAt, Handling
    <2>3. msgQueue' = [msgQueue EXCEPT ![p].locked_head = @ + r.num]
      <3>1. ~(r.num > q.safe_head - q.locked_head)
        BY <1>2, <2>2
      <3> QED BY <1>10, <3>1 DEF Release
    <2>4. /\ q2.locked_head = q.locked_head + r.num /\ q2.safe_head = q.safe_head
          /\ q2.tail = q.tail /\ q2.slot = q.slot
      BY <1>2, <1>3, <2>3 DEF QueueType, Queue
    <2>5. q2.locked_head = q.safe_head /\ Len(handled[p]) = q.safe_head
      BY <1>2, <2>1, <2>2, <2>4
    <2>6. 0 <= q.locked_head /\ q.locked_head <= q.safe_head /\ Len(sent[p]) = q.tail
      BY DEF PlacesAt
    <2>7. PlacesAt(p)'
      <3>1. r2.pc \notin Handling
        BY <2>1 DEF Handling
      <3>2. /\ 0 <= q2.locked_head /\ q2.locked_head <= q2.safe_head
            /\ q2.locked_head = q2.safe_head /\ Len(handled[p]) = q2.safe_head
            /\ Len(sent[p]) = q2.tail
        BY <1>2, <2>4, <2>5, <2>6
      <3> QED BY <1>1, <2>1, <3>1, <3>2 DEF PlacesAt
    <2>8. ASSUME ~overrun[p] PROVE
            /\ q.tail - q2.locked_head <= MAX_PROC_MSGS
            /\ \A k \in q2.locked_head .. q.tail - 1 :
                 q.slot[k % MAX_PROC_MSGS] = sent[p][k + 1]
            /\ q.tail - q.locked_head < MAX_PROC_MSGS => q.tail - q2.locked_head < MAX_PROC_MSGS
      <3>1. \A k \in q2.locked_head .. q.tail - 1 : k \in q.locked_head .. q.tail - 1
        BY <1>2, <2>5, <2>6
      <3>2. \A k \in q.locked_head .. q.tail - 1 : q.slot[k % MAX_PROC_MSGS] = sent[p][k + 1]
        BY <2>8 DEF HeldAt
      <3>3. q.tail - q.locked_head <= MAX_PROC_MSGS
        BY <2>8 DEF HeldAt
      <3>4. /\ q.tail - q2.locked_head <= MAX_PROC_MSGS
            /\ q.tail - q.locked_head < MAX_PROC_MSGS => q.tail - q2.locked_head < MAX_PROC_MSGS
        BY <1>2, <2>5, <2>6, <3>3, Sizes
      <3> QED BY <3>1, <3>2, <3>4
    <2>9. HeldAt(p)'
      BY <1>1, <2>1, <2>4, <2>8 DEF HeldAt
    <2> QED BY <2>7, <2>9
  <1> QED BY <1>6, <1>7, <1>8, <1>9, <1>10 DEF ReceiverStep

\* OrderInv is inductive, over SignalInv and the types.
LEMMA OrderKept ==
  ASSUME TypeInv, SignalInv, OrderInv, [Next]_vars
  PROVE  OrderInv'
  <1> SUFFICES ASSUME NEW p \in Procs PROVE PlacesAt(p)' /\ HeldAt(p)'
    BY DEF OrderInv
  <1>1. SignalAt(p) /\ PlacesAt(p) /\ HeldAt(p)
    BY DEF OrderInv, SignalInv
  <1>2. CASE SenderStep
    BY <1>1, <1>2, OrderSender
  <1>3. ASSUME NEW r \in Procs, ReceiverStep(r) PROVE PlacesAt(p)' /\ HeldAt(p)'
    <2>1. CASE r = p
      BY <1>1, <1>3, <2>1, OrderReceiver
    <2>2. CASE r # p
      <3>1. /\ receiver'[p] = receiver[p] /\ handled'[p] = handled[p]
            /\ msgQueue'[p] = msgQueue[p]
        BY <1>3, <2>2, ReceiverOfOther
      <3>2. sender' = sender /\ sent' = sent /\ overrun' = overrun
        BY <1>3, ReceiverFrame
      <3>3. PlacesAt(p)'
        BY <1>1, <3>1, <3>2 DEF PlacesAt
      <3>4. HeldAt(p)'
        BY <1>1, <3>1, <3>2 DEF HeldAt
      <3> QED BY <3>3, <3>4
    <2> QED BY <2>1, <2>2
  <1>4. ASSUME NEW r \in Procs, ReaderStep(r) PROVE PlacesAt(p)' /\ HeldAt(p)'
    BY <1>1, <1>4, ReaderFrame DEF PlacesAt, HeldAt
  <1>5. CASE UNCHANGED vars
    BY <1>1, <1>5 DEF PlacesAt, HeldAt, vars, kernelVars, queueVars, receiverVars
  <1> QED BY <1>2, <1>3, <1>4, <1>5, Steps

-----------------------------------------------------------------------------
(* The line that read() fills. *)

\* The length of a line leaves a cell for the character that is read next.
LineInv ==
  \A p \in Procs :
    /\ reader[p].len <= MaxLine
    /\ reader[p].pc # "return" => reader[p].len <= MaxLine - 1

\* A character that does not end the line leaves room for one more.
LEMMA EditedFits ==
  ASSUME NEW len \in Int, len <= MaxLine - 1, NEW c
  PROVE  /\ Edited(len, c) <= MaxLine
         /\ c # "NL" => Edited(len, c) <= MaxLine - 1
  <1>1. /\ Capped(len, MaxLine) \in Int /\ Capped(len, MaxLine) <= MaxLine - 2
    BY Sizes DEF Capped
  <1>2. \A n \in Int : Capped(n, MAX_INPUT_BUFFER) \in Int /\ Capped(n, MAX_INPUT_BUFFER) <= n
    BY Sizes DEF Capped
  <1>3. Capped(Capped(len, MaxLine), MAX_INPUT_BUFFER) \in Int
        /\ Capped(Capped(len, MaxLine), MAX_INPUT_BUFFER) <= MaxLine - 2
    BY <1>1, <1>2, Sizes
  <1> QED BY <1>3, Sizes DEF Edited

\* LineInv is inductive, over the types.
LEMMA LineKept ==
  ASSUME TypeInv, LineInv, [Next]_vars
  PROVE  LineInv'
  <1> SUFFICES ASSUME NEW p \in Procs
               PROVE  /\ reader'[p].len <= MaxLine
                      /\ reader'[p].pc # "return" => reader'[p].len <= MaxLine - 1
    BY DEF LineInv
  <1>1. /\ reader[p].len <= MaxLine
        /\ reader[p].pc # "return" => reader[p].len <= MaxLine - 1
    BY DEF LineInv
  <1>2. CASE reader'[p] = reader[p]
    BY <1>1, <1>2
  <1>3. ASSUME NEW r \in Procs, ReaderStep(r), reader'[p] # reader[p]
        PROVE  /\ reader'[p].len <= MaxLine
               /\ reader'[p].pc # "return" => reader'[p].len <= MaxLine - 1
    <2>1. r = p
      BY <1>3, ReaderOfOther
    <2>2. reader \in [Procs -> Reader] /\ reader[p].len \in Int
      BY DEF TypeInv, ReaderType, Reader
    <2>3. CASE ReadHead(p)
      <3>1. /\ reader[p].pc = "head"
            /\ reader'[p].pc = IF reader[p].char = "NL" THEN "return" ELSE "monitor"
            /\ reader'[p].len = Edited(reader[p].len, reader[p].char)
        BY <2>2, <2>3 DEF ReadHead, Reader
      <3>2. reader[p].len <= MaxLine - 1
        BY <1>1, <3>1
      <3> QED BY <2>2, <3>1, <3>2, EditedFits
    <2>4. CASE ReadReturn(p)
      <3>1. reader'[p].len = 0
        BY <2>2, <2>4 DEF ReadReturn, Reader
      <3> QED BY <3>1, Sizes
    <2>5. CASE ReadSleep(p) \/ ReadWake(p) \/ ReadLoad(p) \/ ReadSubtract(p) \/ ReadChar(p)
      <3>1. reader[p].pc # "return" /\ reader'[p].len = reader[p].len
        BY <2>2, <2>5 DEF ReadSleep, ReadWake, ReadLoad, ReadSubtract, ReadChar, Reads, Reader
      <3> QED BY <1>1, <3>1
    <2> QED BY <1>3, <2>1, <2>3, <2>4, <2>5 DEF ReaderStep
  <1> QED BY <1>2, <1>3, Steps, SenderFrame, ReceiverFrame DEF vars, readerVars

-----------------------------------------------------------------------------
(* The theorems. *)

\* The invariants hold at the start.
LEMMA InitInvs == Init => SignalInv /\ CharInv /\ OrderInv /\ LineInv
  <1> SUFFICES ASSUME Init PROVE SignalInv /\ CharInv /\ OrderInv /\ LineInv
    OBVIOUS
  <1> SUFFICES ASSUME NEW p \in Procs
               PROVE  /\ SignalAt(p) /\ InputAt(p) /\ RingAt(p) /\ PlacesAt(p) /\ HeldAt(p)
                      /\ reader[p].len <= MaxLine
                      /\ reader[p].pc # "return" => reader[p].len <= MaxLine - 1
    BY DEF SignalInv, CharInv, OrderInv, LineInv
  <1>1. /\ receiver[p] = Resting("subscribe") /\ msg_signal[p] = 0 /\ lost[p] = 0
        /\ msgQueue[p].locked_head = 0 /\ msgQueue[p].safe_head = 0 /\ msgQueue[p].tail = 0
        /\ sent[p] = <<>> /\ handled[p] = <<>> /\ stored[p] = <<>> /\ taken[p] = <<>>
        /\ terminal[p].head = 0 /\ terminal[p].tail = 0
        /\ in_signal[p] = 0 /\ missed[p] = 0
        /\ reader[p] = [pc |-> "monitor", load |-> 0, char |-> "NL", len |-> 0]
        /\ sender.pc = "idle"
    BY DEF Init
  <1>2. receiver[p].pc = "subscribe" /\ reader[p].pc = "monitor" /\ reader[p].len = 0
    BY <1>1 DEF Resting
  <1>3. SignalAt(p)
    BY <1>1, <1>2 DEF SignalAt, Unread, Bit
  <1>4. InputAt(p)
    BY <1>1, <1>2 DEF InputAt, Bit
  <1>5. RingAt(p)
    BY <1>1, <1>2, Sizes DEF RingAt, Bit
  <1>6. PlacesAt(p)
    BY <1>1, <1>2 DEF PlacesAt, Handling
  <1>7. HeldAt(p)
    BY <1>1, <1>2, Sizes DEF HeldAt
  <1> QED BY <1>2, <1>3, <1>4, <1>5, <1>6, <1>7, Sizes

\* A sequence that agrees with the beginning of another is a prefix of it.
LEMMA Prefix ==
  ASSUME NEW S, NEW s \in Seq(S), NEW t \in Seq(S), Len(s) <= Len(t),
         \A k \in 1 .. Len(s) : s[k] = t[k]
  PROVE  s = SubSeq(t, 1, Len(s))
  <1> DEFINE u == SubSeq(t, 1, Len(s))
  <1>1. Len(s) \in Nat /\ Len(t) \in Nat
    OBVIOUS
  <1>2. u \in Seq(S) /\ Len(u) = Len(s)
    BY <1>1
  <1>3. \A k \in 1 .. Len(s) : u[k] = t[k]
    BY <1>1
  <1> HIDE DEF u
  <1>4. s = [k \in 1 .. Len(s) |-> s[k]] /\ u = [k \in 1 .. Len(u) |-> u[k]]
    BY <1>2
  <1>5. s = u
    BY <1>2, <1>3, <1>4
  <1> QED BY <1>5 DEF u

\* The types of the queues, the terminals and the threads that share them.
THEOREM MessageTypes == Spec => []TypeInv
  <1> QED BY InitTypes, TypesKept, PTL DEF Spec

\* The semaphore of the messages announces every unread one, up to the signals
\* that monitor() overwrote, whatever the order of send_msg(), monitor() and
\* dequeue(), for every batch and every number of processes.
THEOREM UnreadMessagesSignalled == Spec => []UnreadSignalled
  <1>1. SignalInv => UnreadSignalled
    BY DEF SignalInv, SignalAt, UnreadSignalled
  <1>2. TypeInv /\ SignalInv /\ [Next]_vars => TypeInv' /\ SignalInv'
    BY TypesKept, SignalKept
  <1> QED BY <1>1, <1>2, InitTypes, InitInvs, PTL DEF Spec

\* The characters in the input buffer are exactly the notifications of
\* INPUT_MONITOR that are outstanding, on their way or overwritten.
THEOREM StoredCharsSignalled == Spec => []CharsSignalled
  <1>1. TypeInv /\ CharInv => CharsSignalled
    BY CharTypes DEF CharInv, InputAt, CharsSignalled
  <1>2. TypeInv /\ CharInv /\ [Next]_vars => TypeInv' /\ CharInv'
    BY TypesKept, CharsKept
  <1> QED BY <1>1, <1>2, InitTypes, InitInvs, PTL DEF Spec

\* read() takes the characters in the order in which key_handler() stored them,
\* for every capacity of the input buffer.
THEOREM CharsReadInOrder == Spec => []CharsInOrder
  <1>1. TypeInv /\ CharInv => CharsInOrder
    <2> SUFFICES ASSUME TypeInv, CharInv, NEW p \in Procs
                 PROVE  /\ Len(taken[p]) <= Len(stored[p])
                        /\ taken[p] = SubSeq(stored[p], 1, Len(taken[p]))
      BY DEF CharsInOrder
    <2>1. InputAt(p) /\ RingAt(p)
      BY DEF CharInv
    <2>2. Len(taken[p]) <= Len(stored[p])
      <3>1. Len(taken[p]) = terminal[p].head + Bit(reader[p].pc = "head")
            /\ Len(stored[p]) = terminal[p].tail
        BY <2>1 DEF RingAt
      <3>2. CASE reader[p].pc = "head"
        <4>1. terminal[p].head < terminal[p].tail
          BY <2>1, <3>2, CharTypes DEF InputAt, Bit
        <4> QED BY <3>1, <3>2, <4>1, CharTypes DEF Bit
      <3>3. CASE reader[p].pc # "head"
        <4>1. terminal[p].head <= terminal[p].tail
          BY <2>1, CharTypes DEF InputAt, Bit
        <4> QED BY <3>1, <3>3, <4>1, CharTypes DEF Bit
      <3> QED BY <3>2, <3>3
    <2>3. stored[p] \in Seq(Chars) /\ taken[p] \in Seq(Chars)
      BY CharTypes
    <2>4. \A k \in 1 .. Len(taken[p]) : taken[p][k] = stored[p][k]
      BY <2>1 DEF RingAt
    <2> QED BY <2>2, <2>3, <2>4, Prefix
  <1>2. TypeInv /\ CharInv /\ [Next]_vars => TypeInv' /\ CharInv'
    BY TypesKept, CharsKept
  <1> QED BY <1>1, <1>2, InitTypes, InitInvs, PTL DEF Spec

\* Messages are handled in the order they were sent, none left out and none
\* twice, until the queue of the process overruns; for every capacity and batch.
THEOREM MessagesHandledInOrder == Spec => []MessagesInOrder
  <1>1. TypeInv /\ SignalInv /\ OrderInv => MessagesInOrder
    <2> SUFFICES ASSUME TypeInv, SignalInv, OrderInv, NEW p \in Procs, ~overrun[p]
                 PROVE  /\ Len(handled[p]) <= Len(sent[p])
                        /\ handled[p] = SubSeq(sent[p], 1, Len(handled[p]))
      BY DEF MessagesInOrder
    <2>1. SignalAt(p) /\ PlacesAt(p) /\ HeldAt(p)
      BY DEF OrderInv, SignalInv
    <2>2. Len(handled[p]) <= Len(sent[p])
      BY <2>1, HandledBound DEF PlacesAt
    <2>3. sent[p] \in Seq(Message) /\ handled[p] \in Seq(Message)
      BY OrderTypes
    <2>4. \A k \in 1 .. Len(handled[p]) : handled[p][k] = sent[p][k]
      BY <2>1 DEF HeldAt
    <2> QED BY <2>2, <2>3, <2>4, Prefix
  <1>2. TypeInv /\ SignalInv /\ OrderInv /\ [Next]_vars => TypeInv' /\ SignalInv' /\ OrderInv'
    BY TypesKept, SignalKept, OrderKept
  <1> QED BY <1>1, <1>2, InitTypes, InitInvs, PTL DEF Spec

\* A line never outgrows the buffer of the caller of read(), whatever is typed,
\* for every size of that buffer of at least two characters.
THEOREM LinesFit == Spec => []LineFits
  <1>1. LineInv => LineFits
    BY DEF LineInv, LineFits
  <1>2. TypeInv /\ LineInv /\ [Next]_vars => TypeInv' /\ LineInv'
    BY TypesKept, LineKept
  <1> QED BY <1>1, <1>2, InitTypes, InitInvs, PTL DEF Spec
=============================================================================
