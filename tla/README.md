# Shipwreck: a verification project

Shipwreck is a small 32-bit x86 operating system in C++: a preemptive kernel
with processes, threads, locks and monitors, a lock-free event queue, a window
manager and a shell, on a single CPU. This directory holds TLA+ models of its
kernel, its window manager and its loader, the TLC runs that check them on small
instances, and TLAPS proofs of the main invariants for every value of the
parameters.

Paths below are relative to `src/src/` of the repository.

## 1. Inventory

| Component | State | Operations | Hard behaviour |
|---|---|---|---|
| Scheduler and threads (`system/scheduler.cpp`, `threads.cpp`) | current process and thread, `thread_index`, `num_running_threads`, `runState` | `timer_interrupt` (get_next_proc, set_proc, get_next_thread, set_thread), `new_user_thread`, `yield` | preemption between any two instructions; a ready-count kept by hand; starvation |
| Locks and monitors (`process.cpp`, `locks.cpp`) | `Lock::owner`, `Lock::next`, `Thread::lock_next`, `Monitor::signal`, `Thread::signal_wait` | `lock`, `unlock`, `monitor`, `unmonitor`, `notify`, `send_msg` | lost wake-ups, wake-ups meant for another wait, intrusive queues |
| Kernel event loop (`events.cpp`) | three worker queues, `procs[0].msg_signal`, subscriptions | `new_user_event`, `new_callback_event`, `new_display_msg`, `enter_event_loop`, three workers | interrupt handlers and system calls post concurrently with the loop; semaphore drift |
| Shared queue (`include/std/queue.h`, `SharedQueue`) | two index ranges, two try-locks, slots | `enqueue`, `gather_new_data`, `dequeue`, `release`, `garbage_collect` | compare-and-swap races, copying a message is not atomic, 16-bit indices |
| Message queue of a process (`queue.h`, `MsgQueue`) | a ring in a page shared with user space | `enqueue`, `dequeue`, `release` | no test for a full ring; kernel and process move its indices without a lock |
| System calls (`syscall.cpp`) | file table, environment mapping | `do_syscall` and the table | entered with interrupts off, some turn them on |
| Memory (`memory.cpp`, `std/bitset.h`, `std/atomic.h`, `std/pool.h`) | page bitmap, page tables, allocation pointers | allocate, map, copy-on-write fault | lock-free bitmap, test-and-set of page directory entries with interrupts on |
| PS/2 input (`devices/ps2.cpp`, `ps2.h`) | packet buffer, button state, shift state | `mouse_packet`, `keyboard_packet` | resynchronisation after a lost byte, sticky flags, gestures |
| Window manager (`gui.cpp`, `gui/shapes.h`, `gui/objects.h`) | window stack, windows, pick buffer, text buffers, redraw rectangles | `gui_update_proc`, `gui_redraw_proc`, `gui_redraw_rect`, `print`, `backspace` | relinked by system calls and by the event thread; a screen that lags behind the windows |
| Terminal and shell (`gui/terminal.h`, `programs/shell`) | ring of typed characters, `INPUT_MONITOR` | `key_handler`, `read`, `write` | one thread stores and another reads, by a semaphore |
| File system (`devices/tar.h`) | cursor and sector of open files | `open`, `seek`, `read` | partial sectors, reads that follow one another; not thread safe |
| ELF loader (`elfparser.h`, `main.cpp`) | modules, memory of the process, GOT | `elf_exec`, `loadModule`, `loadNeededLibs`, `lookup_symbol_args` | segments that share sectors or pages, relocation, missing files |
| ATA, APIC, VGA, interrupt tables, strings, boot | | | port I/O, formatting, straight-line code |

How they interact: the timer interrupt saves a thread, asks every process it
looks at to notify its message monitor, and switches. Device interrupts and
system calls post messages to the workers' queues and raise the signal of the
kernel's message monitor; the event thread waits on that monitor, runs its
workers, and passes user events on with `send_msg`, which raises the signal of
the receiving process's message monitor. User threads wait for messages with the
`monitor` system call. The mouse handler, the event thread and the display worker
share `MouseState`, the window stack and the pick buffer: a press is looked up in
the pick buffer that an earlier redraw left behind. The shell's event thread
passes keys to the thread that reads a line.

The properties that make each part correct:

* locks exclude, are handed over in FIFO order, and lose no waiting thread;
* a thread that waits is woken by what it waits for and by nothing else, and is
  woken when it happens;
* a ready thread gets the CPU (which holds where the count of ready threads is right);
* a message that a queue accepted is handled once, whole, and in order, and no
  slot is reused before;
* no page is given out twice or lost; a mapping stays;
* the mouse decoder gets back in step, and its events make presses, drags and
  clicks; the shift state follows the keys;
* messages and characters reach their reader once and in order, and nobody
  sleeps on one because of the order of two steps;
* the window stack is a list of all roots, children stay in their frames, and
  every pixel shows what is on top or is about to be redrawn;
* files are read byte for byte, a loaded module stays intact, a relocation is
  applied once, a call reaches the function it names, and loading ends.

## 2. Modules

| Module | Models | Kind |
|---|---|---|
| `Scheduler` | scheduler, threads, locks, monitors, event loop | component |
| `FifoLock` | what `lock`/`unlock` promise | abstract specification |
| `MCScheduler` | the queues read as sequences, the refinement | model-checking module |
| `SchedulerProofs` | invariants of `Scheduler` | proofs |
| `FifoLockProofs` | the queues of `Scheduler` implement `FifoLock` | proofs |
| `SharedQueue` | `SharedQueue` and the workers' use of it | component |
| `EventChannel` | a bounded channel with exactly-once handling | abstract specification |
| `MCSharedQueue` | the refinement mapping and symmetry | model-checking module |
| `SharedQueueProofs` | the invariant of `SharedQueue`, and that it implements `EventChannel` | proofs |
| `PageAllocator` | `virt_alloc_pages` with the bitmap, the page tables and the virtual memory pointer | component |
| `MCPageAllocator` | which thread is in which address space | model-checking module |
| `PageAllocatorProofs` | invariants of `PageAllocator` | proofs |
| `Mouse` | `MouseState` and what a complete packet does | shared by the next and by `Desktop` |
| `Ps2Input` | `mouse_packet`, `keyboard_packet`, `scan_to_ascii`, with the devices | component |
| `Ps2InputProofs` | types, gestures, shift and resynchronisation | proofs |
| `Messages` | subscriptions, `send_msg`, `MsgQueue`, the shell's event thread, its terminal | composition |
| `MessagesProofs` | types, signals, order and the length of lines | proofs |
| `Rects` | `rect_intersect`, `rect_union` | operators |
| `TextBox` | the ring of rows of a text box | operators |
| `Desktop` | window manager, event and display workers, text boxes, with the mouse | composition |
| `DesktopProofs` | what `Rects` computes, children and frames, what is hit has a root | proofs |
| `MCDesktop` | the windows, packets and texts of the run | model-checking module |
| `TarFS` | the archive: `open`, `seek`, `read` | operators |
| `Loader` | wallpaper, program and libraries, on `TarFS` | component |
| `LoaderProofs` | reads, open files, the wallpaper, what is loaded and linked | proofs |
| `MCLoader` | the archives of the run | model-checking module |

### Scheduler

*State.* One variable per field of `Process`, `Thread`, `Lock` and `Monitor`
that the code reads, under the same name. `num_running_threads` is unsigned:
`Inc` and `Dec` count modulo `UINT`. `pending` is the number of messages in the
three worker queues. `pc`, `after`, `target`, `diff` and `loaded` are the
program counter and the locals of a call a thread is in the middle of. `held` is
a history variable: the locks whose `lock()` or `monitor()` has returned.

*Grain.* There is one CPU, and `sysenter` and interrupts clear the interrupt
flag. Code that runs with interrupts off is one step: `SysLock`, `SysUnlock`,
`SysNotify`, `Spawn`, `TimerInterrupt`. After `monitor()` has called `lock()`,
which ends in `sti()`, interrupts are on although the code means them to be off,
so each of its stores is a step: `MonCheck`, `MonSetWait`, `MonSleep`, `MonDec`,
then either `MonSub` (after the wait, under `cli()`) or `MonLoad` and `MonStore`.
`yield()` is `hlt` until an interrupt, then `YieldTest`.

*Timer.* `TimerInterrupt` is the whole handler: `Notified` and `NotifiedProcs`
are the effect of the `notify` calls on the way, `NextProc` is `get_next_proc`,
`NextThread` is `get_next_thread` with its two fall-backs and the reset of
`num_running_threads`.

*Environment.* A user thread may make any system call at any time, with one
assumption: it unlocks only what it holds. `unlock()` does not check this.

*Event loop.* `EvMonitor`, `EvDequeue`, handlers (`Spawn`, `SendMsg`,
`PostDisplayMsg`), `EvSubtract`. How many messages a pass finds ready is left
open, because the display worker skips passes until its deadline.

### SharedQueue

*State.* The fields of the class and the locals of each actor. The k-th accepted
message carries the number k in its first word (which the code uses as the mark
of a filled slot) and in the rest, so a mixture of two messages shows. `sent` and
`got` are history.

*Grain.* An interrupt handler, or a system call with interrupts off, enqueues in
one step (`EnqueueAtomic`). A thread with interrupts on takes a snapshot
(`EnqueueSnapshot`), compares and swaps (`EnqueueCas`), and writes the two parts
of the message (`WriteId`, `WriteData`). A consumer goes through
`gather_new_data`, `size`, `dequeue`, its handlers, `release` and
`garbage_collect`; each iteration of a loop is a step.

*Widths.* Indices are modulo `W` (65536 in the code); differences are `int`
converted to `uint` (`UINT`) where the code does so, and `int` where not.

### PageAllocator

*State.* `bitset_blocks` is the bitmap as a set of used pages per block;
`page_dir` and `table` are the page directories and the contents of physical
pages that serve as page tables; `virt_alloc_ptr` counts pages. The rest are the
locals of the functions, per thread. `out`, `got` and `tables` are history: what
was taken from the bitmap, what each virtual page was mapped to, and which pages
were taken for tables; `trouble` says that one of the failures below has happened,
which the code does not notice. The first block stands for the low 4MB, which
`initialize_memory` reserves and maps to itself through a table in page 0.

*Grain.* `syscall_alloc` runs with interrupts on, so every shared access is a
step: `Alloc` reads the pointer, `AddLimit` is one compare-and-swap of
`atomic_add_limit`, `LockBlock` one `atomic_swap` of the search for a block,
`EnsurePte` the test of the directory entry, `LockTableBlock` and `TakeTablePage`
the search of `lock_next_page` and the unlocking of its block, `StorePde` and
`StorePte` the stores of the entries, `Unlock` the store of the block's bits.
Addresses are page numbers, `prand() % 256` is any of `START` blocks, and
`pages_left` counts modulo `UINT`. `Reserved` is the size of a request in pages:
`pages * BYTES_PER_PAGE` is a `uint` and wraps (`memory.cpp:115`). `bitscan_forward` is modelled by what the
project's compiler, clang, makes of it; its inline assembly declares the operand
it reads as an output, so another compiler may pass it an undefined value.

### Ps2Input

*State.* The statics of `ps2.cpp`: the bytes counted by `num_mouse_packets`,
`MouseState` (in `Mouse`), `shift` and `extended`. The devices are modelled too:
the packet and the part of it the mouse sends next, the keys that are down and the one
that repeats (`typematic`). A byte
carries its packet and part, which the code does not see, so that a packet put
together from two shows. `gesture` reads the posted events as a program does.

*Grain.* An interrupt is one step (`MouseByte`, `Key`, and `Repeat` for the code that the
keyboard sends again while the last key is down). `LoseByte` loses a byte on
the wire. `MoveHandled` is what the event thread writes into the same state. Whether
the time between two moves has passed (`due`) is left open.

### Messages

*State.* The queue of user events as a bounded channel (which `SharedQueue`
implements), the lists of subscribers and the pool of their nodes, `MsgQueue` with
its three indices, the signals of `MSG_MONITOR` and `INPUT_MONITOR`, the ring of
the terminal, and program counters for the kernel event thread (`sender`), the
shell's event thread (`receiver`) and its main thread (`reader`). `lost` and
`missed` count the signals that `monitor()` overwrote, `overrun` says that an unread
message was.

*Grain.* `enqueue` writes a slot, then moves the tail, then the signal is raised:
three steps. `dequeue` reads the size, and reads it again when it is smaller than
the batch: two. `monitor()` sleeps, or subtracts from the signal in two steps, as in
`Scheduler`; how the scheduler wakes a sleeper is checked there, so here a sleep
ends once the signal is positive. System calls (`sub_proc_event`, `notify`) are one
step. `Focus` stands for the window manager.

### Desktop

*State.* `win_index[]` with rectangles and links, `winstack.top`, `drag_window`,
`MouseState`, the queues of user events and display messages, the flags and redraw
rectangles of processes, text buffers, and for every pixel what has been blended
into it and the entry of the pick buffer. A screen of a few pixels, one pixel per
character. `order` is history: the roots in the order in which they came to the top.

*Grain.* `Packet` is the mouse interrupt; each case of `UserEventWorker::run()` is an
action, and raising a window is four (`DetachRoot`, `PushLink`, `PushTop`,
`PostRaised`), so that system calls (`UpdateGui`, `RedrawGui`) and interrupts come
between. `DisplayRun` is one pass of the display worker over up to `BATCH` messages
(10 in the code); it runs on the same thread as the user event worker.
`Strokes` is `gui_redraw_rect` with the four sides it hands to the windows below, `Draw` the
`draw` of each class, `Redraw` the calls nested in each other: what they draw, in its order. Lists are
followed by their links (`Walk`), as the loops of the code do.

### Loader

*State.* The archive, `TarFile` objects, handles, the memory of the process as a
function from the mapped addresses to bytes with what relocation added, the modules
and the GOT. A byte of a file is represented by its address on the disk, so that a
read of the wrong byte shows. An ELF file is a record of its segments and tables; an
entry of a relocation table has the address of its own `r_offset` (`at`), since that
word is relocated too. `got` is history: what each call was resolved to.

*Grain.* One reader, as the code demands: each action is a stage of
`load_background_tga` or `loadModule` (`ReadHeaders`, `MapModule`, one `LoadSegment`
per program header, `LinkModule`), `NeededLib`, `Enter`, and `LookupSymbol` for the
first call of a function. All stores to the memory of the process are in `mem`, and
set `fault` where nothing is mapped: the bytes of segments, the words and table
entries that `adjustRelocations` moves (`Words`, `elfparser.h:341-345`), `pltgot[1]` and
`pltgot[2]` (`Enter`, `:454`) and the GOT slot of a call (`LookupSymbol`, `:500`).
Where the code spins for ever, without a dynamic segment (`:177`) or a symbol table
(`:264`), `task.pc` is `"frozen"`; a call of a program without a library divides by 0
(`NoLibrary`, `:292`) and ends in `"trap"`. Handles 0 and 1 are preset
(`process.cpp:276`) and never free, so they are left out; `user_filetable[]`
(`system.h:113`) is empty while a program is loaded.

What the loader takes for granted of its files is assumed of the archive, of the program and
of the libraries that it needs, not of other files: headers and segments are inside the file
(`WellFormed`); a library starts at address 0, its segments do not overlap and its relocations
and their tables are words of its own, each named once (`IsLibrary`, which also leaves out
libraries that end with their first segment, see below); the headers and libraries fit
`phdrs[0x20]` and `sharedLibs[]`, which the code does not check; the words of the GOT are in
the program's pages (`IsExecutable`); names of symbols differ in their first 0x40
letters (`elfparser.h:305`); the chains of its hash table end, and each symbol is in
the bucket of its hash (`IsHashTable`, `CanCall`); and the program's pages do not lie
where `alloc` puts its libraries (`HeapAssumption`: a program is linked far above the page
tables, after which `alloc` starts, `memory.cpp:379`). No file is empty (a `TarFile` of
size 0 counts as free and would be handed out again while it is open). TLC evaluates all
of them on the archives of the run.

## 3. Runs

| Run | Instance | Shows |
|---|---|---|
| `scheduler_locks` | 2 processes of 3 threads, 1 lock per process, signals up to 1 | type, mutual exclusion, exact wait queues, no empty slot scheduled, refinement of `FifoLock` |
| `scheduler_monitors` | 2 processes of 2 threads, a lock and the message monitor each | the inductive invariant `LockInv`; a woken thread owns its lock; notifications do not reach threads in `lock()` |
| `scheduler_round_robin` | 2 processes of 2 threads with the message monitor each, which user threads wait on, notify and contend for | every ready thread of a process whose count is not 0 runs, and every ready thread of a process that takes no lock or monitor |
| `scheduler_unlock` | 2 processes, one lock | violation: see findings |
| `scheduler_messages` | 2 processes | violation: see findings |
| `queue` | 1 producer, interrupts, 2 consumers, 2 slots, 3 messages | `QueueInv`, refinement of `EventChannel`, every accepted message is handled |
| `queue_wrap` | indices modulo 4 | violation: see findings |
| `pages` | 2 threads of one process, 5 blocks of 2 pages, 4 virtual pages, requests for 1, 2 and 6 pages | one owner per page, no page lost, disjoint ranges, the inductive invariant, mappings stay |
| `ps2` | 3 mouse packets, one lost byte, 3 codes of 6 keys, a 5 by 2 screen | `InStep`, `GesturesWellFormed`, `ShiftFollowsKeys` |
| `messages` | a process, 3 events of two kinds, rings of 2, a batch of 2 | order of messages and characters, no sleep on an unread message, lines fit |
| `desktop` | the kernel's frame and that of a process with a border, a transparent background and a text box, on 4 by 3 pixels; 3 inputs | `StackExact`, `ChildrenByZindex`, `ChildrenFollowFrame`, `ScreenShowsTop` |
| `loader` | a wallpaper, a program with segments at 13 places, up to two libraries, every hash table of two symbols | bytes, mapping, relocation, symbols, files, and that loading ends |

*Bounds.* Two processes are what the system boots (the kernel and the shell);
three threads are the owner of a lock, the head of its queue and one behind it,
which is where linking can go wrong. `MaxSignal` bounds how far a signal is
raised, beyond the messages that a pass of the event loop has taken and will subtract: only
its sign matters to the scheduler. Two slots and three messages
make a slot be reused; two consumers make a slot be released out of order. In
`queue_wrap` `W` is 4 instead of 65536, a multiple of the number of slots as in
the code. Page tables have two entries and blocks two pages, so that a call for
two pages may cross both boundaries. The two threads share an address space and so
may make the same page table at once; physical and virtual memory both run out; and
a request for 6 pages is for more than there are addresses, of which the code
reserves one. The first failure of this kind sets `trouble`, after which
`MappingsKept` says nothing; the other properties hold all the same. That several
processes do not disturb each other is what the theorems show.
In `scheduler_round_robin` `UINT` is 4, so that the count wraps after two threads too
many.

In `ps2` the headers are a plain one, a press, one with both signs and an
overflow, and one of the two motion bytes has the header bit, so that the decoder
may lock on to the wrong byte; three packets are enough to lose one and come back.
In `messages` three events overrun a ring of two. In `desktop` an input is a
packet or a change of a text (`MaxInputs`): a press, a drag and a release, or a
press, a drag and a print. A drag posts up to four display messages; the queue holds
`MAX_EVENTS` = 5, so that they fit when the worker keeps up and are dropped when it
does not, and `BATCH` = 2 makes a pass leave messages behind. In `loader` sectors and pages
have 4 bytes, so that segments of 2 to 6 bytes start and end inside, at and across
their boundaries, the program above the heap. The header of the wallpaper has 2 bytes and
a chunk 5: papers of 7, 11, 12, 15 and 18 bytes have one chunk, all but a byte of two, two,
and three, so that up to four reads follow one another, starting at every place of a sector
but one and ending inside or at the end of one.

`pages`, `ps2`, `messages`, `desktop` and `loader` do not look for deadlocks: once
the bound is reached, or the program runs and has made its calls, nothing
need happen.

*Fairness.* `TickingSpec` assumes the local APIC timer keeps ticking. `FairSpec`
adds that a thread which is given the CPU again and again gets on with the kernel
code it is in (strong fairness, since a tick may take the CPU away at any time)
and that the event loop does. Nothing is assumed of user code and devices. For
the queue, consumers run again and again and a producer that has been given an
index finishes its copy; nobody is obliged to enqueue. For the loader, the thread
that loads gets on (`WF_vars(Load)`): it waits for nobody, and the round robin gives
it the CPU while the count of its process is right (`scheduler_round_robin`), which it is
for a thread that takes no lock; the program it loads owes nothing.

### Findings

1. `unlock()` wakes a thread without counting it in `num_running_threads`
   (`process.cpp:83`). When two threads pass a lock to and fro the count falls to
   0 with a thread ready, and `get_next_proc()` no longer looks into the process.
   (`scheduler_unlock`)
2. `monitor()` runs its check and its stores with interrupts on, because `lock()`
   ends in `sti()`. A tick between `signal_wait = ...` and `runState = WAITING`
   takes the notification and leaves the thread asleep with nobody to wake it.
   (`scheduler_messages`) The same window loses a `notify()` on any other monitor.
   `ReadyThreadsRun`, which the first finding violates, fails without a contended lock
   too. A thread is preempted between `runState = WAITING` and
   `num_running_threads--` (`process.cpp:129`, `:131`); a tick finds no thread ready and
   sets the count to 0 (`scheduler.cpp:96`). If a notify makes it 1 before the late
   decrement, the count is 0 with a thread ready; if the decrement comes first, the
   count wraps to 2^32 - 1 and the notify makes it 0. Either way `get_next_proc()`
   skips the process for ever. TLC finds this with `ReadyThreadsRun` in the instance of
   `scheduler_round_robin`. So what that run checks is less than "every ready thread
   runs": the round robins reach every ready thread of a process whose count is not 0
   (`CountedThreadsRun`), and every ready thread of a process that never takes a lock
   or a monitor, whose count is right (`LockFreeThreadsRun`).
3. The shared queue does not survive the wrap of its 16-bit indices: it reports
   that it is full for ever after. (`queue_wrap`)

### Behaviour met on the way

These are in the models, or were seen while they were written, and have no run of
their own. The conditions in the properties (`~overrun`, `~dropped`, `~extended`,
`lost`, `missed`, `trouble`, `repeats`) are where the properties would fail because of them.

Queues and signals:

* A message of the shared queue becomes visible to the worker with its first word
  (`queue.h:139`); a producer preempted there shows half a message. In
  `SharedQueue`, `EventChannel` says that a slot is handled once, not that it is whole.
* `MsgQueue::enqueue` does not test for a full ring (`queue.h:63`).
* `monitor()` without a wait subtracts from the signal with interrupts on
  (`process.cpp:141`) and overwrites a signal raised in between: `lost`, `missed`.
* The search for a subscriber node wraps around but its check of the index does
  not (`FreeFrom`): a subscription can fail with nodes free. `SubscriberList::notify`
  looks at `MAX_PROCS` nodes, so repeated subscriptions of one process hide others.
* The shell's comment that keys are "subscribed by default" (`shell.cpp:82`) is not
  what the kernel does; the event thread subscribes.
* The signal is raised also for a message that a full queue dropped
  (`events.cpp:351`): the event loop then runs once for nothing.
* `kprintln` posts a display message before `init_events` has made the queue
  (`main.cpp:128`).

Memory:

* `ensure_pte()` tests and stores a directory entry with interrupts on
  (`memory.cpp:185`): two threads of a process may install a table each, and the
  pages mapped through the first are gone.
* `ensure_pte()` does not test what `phys_alloc_page()` returns: with no block to be
  had, page 0 becomes a page table (`memory.cpp:187`), although the caller has free
  pages in the block it holds.
* A call for 0 pages maps all of memory, because `pages_left` is unsigned and counted
  down before it is tested (`memory.cpp:62`). A call for 2^20 pages or more reserves
  fewer than it maps, because the number of bytes wraps (`memory.cpp:115`), and the
  nullptr that `next_virtual_pages()` returns when it fails is mapped like any address.

Input and windows:

* The flag for an extended scan code is never cleared (`ps2.h:58`): after an arrow
  key every code is passed on raw.
* A held shift key or caps lock repeats its code, and each code toggles `shift`
  (`ps2.h:66`): the case of letters turns around while the key is held, and is wrong after
  it is released if the number of repeats was odd. `ShiftFollowsKeys` therefore counts
  the repeats.
* A button that moves within the click box sets `ldrag` without a `DRAG_START`
  (`ps2.cpp:137`), so its release posts a `DRAG_END` that nothing started. `Follow`
  accepts this; it judges the left button only, as the right one posts no
  events.
* `read()` takes back the last character of a full line and prints the next one with one
  redraw (`terminal.h:80-93`). `ChangeText` has a redraw between any two changes; the
  print asks for the cells of both.
* A display message that finds the queue full is dropped and its pixels stay as they
  are (`dropped`).
* A press is looked up in the pick buffer, which is as old as the last redraw of the
  pixel (`events.cpp:274`); `ScreenShowsTop` bounds this to pixels with a redraw on
  its way.
* `push()` stores in three steps on the event thread; a process that creates its
  windows in between may be lost from the stack. `gui_update_proc` itself runs with
  interrupts off, and the repository starts one process, so the run has one; with
  two (`Users = {1, 2}`) TLC finds `StackExact` violated (`gui.cpp:189`).
* A second `update_gui` of a process would copy a child's rectangle without the
  offset of its frame, and overwrite the list of children of a frame
  (`gui.cpp:43`). No program makes that call.
* Where a text box shows more rows than its buffer has, as the kernel's does
  (`main.cpp:248`), the row that a full buffer gives up stays on the screen
  (`objects.h:195`). The run's box shows fewer, as the shell's does.

Files and loading:

* A read that ends inside the sector it started in makes the next sector current
  (`tar.h:104`): a read that follows without a seek starts in the wrong one. The
  wallpaper's reads are larger than what is left of a sector, and the loader
  seeks before it reads, so both are exact.
* File functions are not thread safe: `alloc_proc_filehandle` tests and sets a slot
  with interrupts on (`syscall.cpp:47`), and `alloc_file` marks a `TarFile` as taken
  only when its size is set. The result of `readsector` is not looked at
  (`tar.h:97`).
* A name matches an entry of which it is a prefix (`tar.h:190`). The last part of a
  wallpaper, shorter than a chunk, is not read.
* A segment that lowers the minimum address is not considered for the maximum
  (`elfparser.h:127`), the part of a segment beyond its file size is not mapped in a
  program, and a page that two of its segments share is mapped anew (`syscall.cpp:37`).
  `IsLibrary` leaves out the first case: no property catches it.
* An open file of size 0 counts as free (`tar.h:164`) and is handed out again;
  `DisksAssumption` leaves out archives with an empty file. A missing library has an empty
  header, and the loader spins for ever on it, which `LoadEnds` counts as an end.
  A library is searched for symbols only if it is the first.

## 4. Proofs

`SchedulerProofs` proves for every number of processes, threads, locks, monitors
and every bound, from `ConstantsAssumption` and `NullAssumption` only:

* `TypeCorrect`: `Spec => []TypeOK`. `TypeOK` with `TargetOK` is inductive.
* `LockInvariant`: `Spec => []LockInv`. Mutual exclusion is not inductive:
  `lock()` returns after its `yield()` without looking at the owner, so one needs
  that whoever leaves that `yield()` has been made the owner (`WokenOwnsLock`).
  This rests on `unlock()` waking only a thread that sleeps on the same lock
  (`QueuePointers`, the shape of the queues) and on `notify()` never waking a
  thread that sleeps in `lock()` (`SignalWaitOK`: whoever has `signal_wait` set
  is in the second half of `monitor()`). One lemma per kind of step
  (`AcquireStep`, `EnqueueStep`, `ReleaseStep`, `WakeStep`, `StartStep`, `Frame`),
  then one case per action in `LockStep`.
* `LocksExclude`: `Spec => []MutualExclusion`, and `WokenThreadOwns`:
  `Spec => []WokenOwnsLock`, from `LockInvariant`.
* `NoWaiterLost`: `Spec => []WaitQueueExact`. That a set of threads is what the
  links of a lock reach cannot be followed link by link in a proof, so
  `Reached` says it without paths: every set of threads that has the lock's
  first sleeper and is closed under `next` (`Closed`) holds all its sleepers. A
  step that adds or removes one sleeper changes such a set by one thread.
  `WaitInv` adds to `LockInv` that a lock with sleepers has an owner
  (`QueuesOwned`).
* `WaitersWokenByUnlock`: the action property `OnlyUnlockWakesWaiters`, from the
  same invariant.
* `RunsInitialisedThreads`: `Spec => []OnlyInitialisedRuns`, with `SlotInv`, which
  adds that the idle thread exists and that a process that has not been created
  starts in slot 0.

`FifoLockProofs` proves `LocksAreFifo`: `Spec => ImplementsFifoLock`, with the
refinement mapping of `MCScheduler`: the abstract queue of a lock is the sequence
that its links spell (`WaitQueue`). The mapping chooses a sequence, so each step must
show that the one before it and the one after it are the only ones and how they
differ. `Lists` says what it is to spell a queue; two sequences that spell the same
queue agree at every place and have one element per sleeper. `ListInv` is `WaitInv`
with the existence of such a sequence for each lock.

`SharedQueueProofs` proves for every number of producers, consumers and slots and
every width of the indices, from the assumptions of `SharedQueue` and, in the
theorems, `MaxMsgs < W`: fewer messages are accepted than indices exist. Without
that hypothesis they are false: what the code does after the wrap is finding 3.

* `QueueSafe`: `Spec => []QueueInv`. `QueueInv` speaks of the slots that actors have
  claimed; it becomes inductive with `SnapsOK`: a producer that is about to compare
  and swap holds a snapshot that was not full, so that a swap that succeeds finds
  the queue not full either. The attempt showed that the assumption on the width
  of `uint` was too weak by one (`W < UINT`; in the code 2^16 and 2^32).
* `QueueImplementsChannel`: `Spec => ImplementsChannel`. What is waiting is mapped to the
  slots between the safe head and the locked tail, in their order; what is claimed to the slots
  of the consumers' batches not yet handled.

`MessagesProofs` proves for every number of processes and every size of ring, input
buffer and line, from `SizesAssumption`:

* `MessageTypes`: `Spec => []TypeInv`, the types and ranges that the others rest on.
* `UnreadMessagesSignalled` and `StoredCharsSignalled`: `Spec => []UnreadSignalled` and
  `Spec => []CharsSignalled`. Both are inductive once they count, at each program
  counter of each thread, what has been stored and not yet announced, or announced and
  not yet taken (`SignalInv`, `CharInv`).
* `CharsReadInOrder`: `Spec => []CharsInOrder`, since every cell of the ring between head and tail
  holds the character that was stored under its number (`CharInv`): two numbers less
  than the ring's length apart never share a cell.
* `MessagesHandledInOrder`: `Spec => []MessagesInOrder`, along the same lines
  (`OrderInv`), up to the first message that is overwritten.
* `LinesFit`: `Spec => []LineFits`. The length alone is not inductive: it is cut
  back in two places, and the bound at each depends on the program counter (`LineInv`).

`Ps2InputProofs` proves for every screen, set of packets and set of scan codes, from
`InputAssumption`:

* `InputTypes`: `Spec => []TypeOK`, and `Gestures`: `Spec => []GesturesWellFormed`, together
  (`TypeOK /\ GestureInv`). The judge of the events is a recursive function over the events of
  a packet; `Leads` follows it from the state before a packet to the state after it,
  and `GestureInv` ties that state to the buttons, the drag flags and the click counter
  that the code keeps.
* `ShiftToggles`: `Spec => []ShiftFollowsKeys`, by the parity of the shift keys that are down,
  the presses of caps lock and the codes that these keys repeat.
* `BackInStep`: `Spec => []InStep`. `StepInv` keeps the account: packets not decoded are paid
  for by lost bytes and overflows, less the gaps between bytes that are in the
  buffer now (`Gaps`) and the packet that can no longer be decoded (`Doomed`).

`PageAllocatorProofs` proves for every number of threads, address spaces, blocks,
pages of a block and entries of a table, from `SizesAssumption` and
`NoneAssumption`:

* `AllocInvariant`: `Spec => []AllocInv`. That no page has two owners is not
  inductive: the bits a search works on are a copy, and the copy must stay exact
  (`BitsExact`), which needs that the block looks full to all others and that no
  two searches hold it, not even the two of one thread (`BlocksLocked`). Going
  from the bitmap to the copy when a block is locked needs the converse, that a
  block nobody holds shows as used only what is out (`NothingLeaks`). One lemma
  per action.
* `NoPageLost`, a part of `AllocInv`; `OneOwner`: `Spec => []PagesExclusive`, since
  the page a search takes is not out; `RangesNeverOverlap`:
  `Spec => []RangesDisjoint`, since every range lies below `virt_alloc_ptr`. What is
  disjoint for every call is the range that is reserved; the ranges that are mapped
  are disjoint for calls of at most `LIMIT` pages, the size of which does not wrap.
* `MappingsStay`: `Spec => []MappingsKept`, for any number of threads in an address space.
  The property ends with the first of four failures that the code does not notice, which
  `trouble` records when they happen: two threads of a process make the same page
  table at once, a call for no pages or for too many, a search for a page table's page
  or for a range that fails. Short of those, threads of one process do not disturb each other:
  for this `MapInv` says that no two calls are about to install the same page table
  (`OneMaker`). It adds to the property where the pointers of a call may point (`InRange`, `PdeKnown`), that no
  page table is in two places (`TablesApart`) and that what is mapped lies above
  the low memory, whose table is not one of those (`MapsHigh`).

The other theorems hold for 0-page calls and full memory too: those cases damage
page tables, not the bitmap.

`DesktopProofs` proves for all rectangles, by cases on whether the two meet and linear
arithmetic on their edges:

* `IntersectionExact`: `rect_intersect` yields the pixels of both, and returns false
  only when there is none (it may return true for an empty one).
* `UnionExact`: the parts that `rect_union` returns have the pixels of its arguments
  and no other. `ScreenShowsTop` checks the use that a drag makes of it.
* `UnionDisjoint`: the parts do not overlap.

and for any windows, any number of processes, any screen, packets, texts and sizes of queue, from
`WindowsAssumption` (a process describes frames before their children, no frame is in
another, as the programs of the repository do), `InputAssumption` (types; a text box
has room for a character) and `ScreenAssumption`; each process calls `update_gui()` once
(section 3 says what a second call would do):

* `ChildrenStay`: `Spec => []ChildrenFollowFrame`. `GUIWindowFrame::move` follows the links of
  a list, so the property needs that the list of a frame holds exactly its children
  (`Listed`) although `insert` relinks it (`InsertList`, from `Splice`), that raising and pushing
  touch links of roots only (`Stacked`, `Relinked`), and that only roots are dragged and
  raised. Which window that is comes from the pick buffer, so `DesktopInv` also says that all
  that is drawn, picked, queued or dragged is a window that is known (`PaintOK`,
  `RaiseOK`, `WmOK`): the nested calls of `gui_redraw_rect` draw windows that links reach
  (`StrokesKnown`, `RedrawKnown`), and the pointer stays on the screen (`InputsOK`). `update_gui()` of a
  process may come between any two steps of a raise: the stack may then lose a
  window, the lists of frames may not.
* `ListsExact`: `Spec => []ChildrenByZindex`. `Listed` has the order and the backward links too
  (`Ordered`); that `insert` stops between a window not below the new one and the next one
  below it is `AboveList`.
* `HitsHaveRoots`: `Spec => []HitsResolve`, from the same invariant.

Loops are recursive functions of the number of rounds; that they have values, and
what holds after each round, is shown by a least counterexample.

`LoaderProofs` proves for every archive, size of sector, page, header and chunk, and number of
files and handles, from `SectorAssumption`, `DisksAssumption`, `HeapAssumption`, `GotAssumption` and
`SizesAssumption` (no file is empty; a chunk of the wallpaper is no smaller than a sector or the header):

* `ReadExact`: a `read` of any length from a file whose current sector is the one of its
  cursor (`InPlace`) returns the bytes at the cursor, wherever it starts and ends. Its
  companion `ReadKeepsPlace` says when the next read is exact too: unless the read starts
  inside a sector and ends before that sector does.
* `FilesStayApart`: `Spec => []FilesApart`. `FileInv` adds that what is open has a size above 0,
  so that `AllocFile` does not hand it out, and that the kernel's file is the first.
* `WallpaperIsFile`: `Spec => []WallpaperExact`. `ImageInv` adds that, while the file is read, it
  is `InPlace` and its cursor is the header plus what has been read. The place of a file
  in the archive is a recursive function of the entries before it; that it is a number is shown
  by a least counterexample (`HeaderSectorType`).

* `WritesInBounds`: `Spec => []InBounds`. `ModulesInv` says that the headers of a module that
  has been read are those of the entry that its name finds, and who is linked when;
  `MemoryInv` that a library's pages lie between `HeapStart` and `brk`, above those of the one
  before, and are mapped. What `mapLoadableSegments` computes is a recursive function of
  the segments (`Extent`); that it reaches the end of each of them, although a segment
  that lowers the minimum is skipped, is shown by a least counterexample. `ProgramMapped` says
  that the pages of the program stay mapped, so that the stores to the GOT are in bounds.
* `MovedOnce`: `Spec => []RelocatedOnce`. `MemoryInv` also says of every word of a library how far
  it has been moved: by 0 until `LinkModule`, and then by the base if a table names it. It needs
  that the two tables of a library are apart, in the words that they name and in their own, and
  that nothing later writes to the pages: the GOT is in the program's, which are not in
  the heap (`HeapInv`).
* `CallsFind`: `Spec => []CallsResolved`, from `SymbolFound`: the walk along a chain finds a
  symbol if the table has it. The walk is a recursive function; the symbol of least rank that
  it misses gives the contradiction. `GotInv` says what each word of the GOT holds; that a later
  store spares it needs that no two slots are the same word.
* `BytesStayIntact`: `Spec => []SegmentsIntact`. `BytesInv` says which segments of the module that is
  being loaded have arrived; later ones, later libraries and relocation leave them alone. For the
  program this needs that its pages stay clear of the heap, which is `HeapInv`: after
  each library the heap has used no more than that library's share of the space below the
  program. The words of the GOT are excepted from when they are written (`Patched`).

Only model-checked: all liveness (`CountedThreadsRun`, `LockFreeThreadsRun`,
`ReadyThreadsRun`, `MessagesWakeEventThread`, `AllHandled`, `FullQueueDrains`, `LoadEnds`), which is outside the prover's reach; and
two properties of `Desktop`. `StackExact` does not hold for all values of the constants: a
second process that creates windows in the middle of a raise takes a window out of the stack (see
the hazards), and `order` counts one frame per process. `ScreenShowsTop` compares the whole
recursion of `gui_redraw_rect` with a recursive reference, pixel by pixel: an
induction over nested calls and over the stack at once, which rests on `StackExact`.

## 5. Plan

1. *Done:* scheduler, locks, monitors; the shared queue; the page allocator; input;
   message delivery up to the line that the shell reads; the window manager; files and
   the loader; the theorems above.
2. *Done:* `QueueInv`, the refinements, the properties of `Messages` and `Ps2Input`,
   `WaitQueueExact`, `MappingsKept`, `WallpaperExact` and `FilesApart` as theorems.
3. *Done:* `SegmentsIntact`, `InBounds`, `RelocatedOnce` and `CallsResolved` of the loader as
   theorems.
4. *Done:* lists and drawing of `Desktop` without `RECURSIVE`; `ChildrenFollowFrame`
   and `ChildrenByZindex` as theorems.
5. Memory: `lock_bit_range` against a set of bits; strings as pure operators.

## 6. Not modelled

Port I/O (ATA, APIC, VGA, PS/2 set-up), the image of the mouse pointer, glyphs and
colours, formatting and logging, the VGA text terminal used before the GUI starts,
`getchar` (which nobody calls), the boot assembly and register save areas. Nobody
frees memory of a pool, so `unlock_bit` never runs. The disk does not fail. The kernel has no persistence and no process
exit, so there is nothing to recover and no thread slot is ever given back. `PAGE_COW` is set nowhere, so the
copy-on-write branch of the page fault handler never runs, and a fault stops the
machine.
