--------------------------- MODULE PageAllocator ---------------------------
(***************************************************************************)
(* virt_alloc_pages() of memory.cpp: threads that allocate memory with     *)
(* interrupts on, over the bitmap of physical pages (BitAllocator of       *)
(* std/bitset.h), the page tables of their address spaces and the pointer  *)
(* to unused virtual memory (atomic_add_limit of std/atomic.h).            *)
(*                                                                         *)
(* The bitmap is made of blocks; a thread locks a block by swapping it     *)
(* with -1, all ones, and unlocks it by storing its new bits.  Every       *)
(* access to the bitmap, the tables and the pointer is a step.  The first  *)
(* block stands for the low 4MB, which initialize_memory reserves, and     *)
(* virtual memory is handed out after the first page table.                *)
(***************************************************************************)
EXTENDS Integers

CONSTANTS
  Threads,
  Spaces,          \* address spaces (page directories)
  Space,           \* the address space of each thread
  BLOCKS,          \* blocks of the bitmap
  BITS,            \* pages of a block
  START,           \* searches start at prand() % START
  TABLE,           \* entries of a page table
  UINT,            \* modulus of uint
  MAX_ADD_TRIES,
  LIMIT,           \* the last page of the virtual address space
  Requests,        \* numbers of pages asked for
  MaxVirt,         \* bound: virtual pages handed out
  None             \* an entry that is not present

ASSUME SizesAssumption ==
  /\ BLOCKS \in Nat /\ BLOCKS > 1 /\ BITS \in Nat \ {0}
  /\ START \in 1 .. BLOCKS
  /\ TABLE \in Nat \ {0} /\ UINT \in Nat \ {0} /\ MAX_ADD_TRIES \in Nat \ {0}
  /\ LIMIT \in Nat /\ Requests \subseteq 0 .. UINT - 1 /\ MaxVirt \in Nat
  /\ Space \in [Threads -> Spaces]

Block == 0 .. BLOCKS - 1
Bit   == 0 .. BITS - 1
Page  == Block \X Bit
Entry == 0 .. TABLE - 1
LowPage == <<0, 0>>   \* physical page 0, which also holds the first table

\* Virtual pages: what is handed out, and what a call may write beyond it.
VPage == 0 .. LIMIT + BLOCKS * BITS
Directory == {v \div TABLE : v \in VPage}

ASSUME NoneAssumption == None \notin Page

VARIABLES
  bitset_blocks,   \* the set of used pages of each block
  page_dir,        \* the page directory of each address space
  table,           \* the entries of each page that serves as a page table
  virt_alloc_ptr,
  pc,
  pages, address,             \* parameters of virt_alloc_pages
  virt_addr_ptr, pages_left,  \* its locals
  block_index, locked_bits,
  myval, tries,               \* locals of atomic_add_limit
  locked_index, page_bits,    \* locals of lock_next_page, block and bits
  new_table,                  \* its result
  out,             \* history: physical pages taken from the bitmap
  got,             \* history: the page each virtual page was mapped to
  tables,          \* history: pages taken for page tables
  trouble          \* history: has a call met what the code does not look out for?

memVars == <<bitset_blocks, page_dir, table, virt_alloc_ptr>>
callVars == <<pages, address, virt_addr_ptr, pages_left, block_index, locked_bits,
              myval, tries>>
tableVars == <<locked_index, page_bits, new_table>>
histVars == <<out, got, tables>>
vars == <<memVars, pc, callVars, tableVars, histVars, trouble>>

Labels == {"idle", "add", "lock", "map", "table", "bit", "pde", "pte", "unlock"}

TypeOK ==
  /\ bitset_blocks \in [Block -> SUBSET Bit]
  /\ page_dir \in [Spaces -> [Directory -> Page \cup {None}]]
  /\ table \in [Page -> [Entry -> Page \cup {None}]]
  /\ virt_alloc_ptr \in Nat
  /\ pc \in [Threads -> Labels]
  /\ pages \in [Threads -> 0 .. UINT - 1] /\ pages_left \in [Threads -> 0 .. UINT - 1]
  /\ address \in [Threads -> Nat] /\ virt_addr_ptr \in [Threads -> Nat]
  /\ block_index \in [Threads -> Block] /\ locked_index \in [Threads -> Block]
  /\ locked_bits \in [Threads -> SUBSET Bit] /\ page_bits \in [Threads -> SUBSET Bit]
  /\ myval \in [Threads -> Nat] /\ tries \in [Threads -> Nat]
  /\ new_table \in [Threads -> Page]
  /\ out \subseteq Page /\ tables \subseteq Page
  /\ got \in [Spaces \X VPage -> Page \cup {None}]

Init ==
  /\ bitset_blocks = [b \in Block |-> IF b = 0 THEN Bit ELSE {}]
  /\ page_dir = [s \in Spaces |-> [d \in Directory |-> IF d = 0 THEN LowPage ELSE None]]
  /\ table = [p \in Page |-> [e \in Entry |-> IF p = LowPage THEN LowPage ELSE None]]
  /\ virt_alloc_ptr = TABLE
  /\ pc = [t \in Threads |-> "idle"]
  /\ pages = [t \in Threads |-> 0] /\ pages_left = [t \in Threads |-> 0]
  /\ address = [t \in Threads |-> 0] /\ virt_addr_ptr = [t \in Threads |-> 0]
  /\ block_index = [t \in Threads |-> 0] /\ locked_index = [t \in Threads |-> 0]
  /\ locked_bits = [t \in Threads |-> {}] /\ page_bits = [t \in Threads |-> {}]
  /\ myval = [t \in Threads |-> 0] /\ tries = [t \in Threads |-> 0]
  /\ new_table = [t \in Threads |-> LowPage]
  /\ out = {p \in Page : p[1] = 0}
  /\ got = [x \in Spaces \X VPage |-> None]
  /\ tables = {} /\ trouble = FALSE

Set(f, t, v) == [f EXCEPT ![t] = v]
Goto(t, label) == pc' = Set(pc, t, label)
\* bitscan_forward(~bits), or the first testbit that is not set.
FirstFree(bits) == CHOOSE j \in Bit \ bits : \A k \in Bit \ bits : j <= k

\* virt_alloc_pages returns: its locals are gone.
Return(t) ==
  /\ Goto(t, "idle")
  /\ pages' = Set(pages, t, 0) /\ pages_left' = Set(pages_left, t, 0)
  /\ address' = Set(address, t, 0) /\ virt_addr_ptr' = Set(virt_addr_ptr, t, 0)
  /\ block_index' = Set(block_index, t, 0)
  /\ locked_bits' = Set(locked_bits, t, {})
  /\ myval' = Set(myval, t, 0) /\ tries' = Set(tries, t, 0)

-----------------------------------------------------------------------------
(* next_virtual_pages() and atomic_add_limit() *)

\* next_virtual_pages() asks for pages * BYTES_PER_PAGE bytes, a uint: the size of
\* a request for more pages than there are addresses wraps around.
Reserved(n) == n % (LIMIT + 1)

Alloc(t, n) ==
  /\ pc[t] = "idle" /\ virt_alloc_ptr + Reserved(n) <= MaxVirt
  /\ pages' = Set(pages, t, n) /\ pages_left' = Set(pages_left, t, n)
  /\ myval' = Set(myval, t, virt_alloc_ptr)
  /\ Goto(t, "add")
  /\ trouble' = (trouble \/ n \notin 1 .. LIMIT)
  /\ UNCHANGED <<memVars, address, virt_addr_ptr, block_index, locked_bits, tries,
                 tableVars, histVars>>

\* The search for physical pages starts.  An address of 0 is the nullptr that
\* next_virtual_pages() returns when it fails; nobody looks at it.
StartAt(t, addr) ==
  /\ address' = Set(address, t, addr)
  /\ virt_addr_ptr' = Set(virt_addr_ptr, t, addr)
  /\ \E b \in 0 .. START - 1 : block_index' = Set(block_index, t, b)
  /\ myval' = Set(myval, t, 0) /\ tries' = Set(tries, t, 0)
  /\ trouble' = (trouble \/ addr = 0)
  /\ Goto(t, "lock")

\* Mutant: the pointer is stored without a comparison.
Won_Always(t) == TRUE

Won(t) == virt_alloc_ptr = myval[t]

AddLimit(t) ==
  /\ pc[t] = "add"
  /\ IF Reserved(pages[t]) > LIMIT - myval[t]
     THEN StartAt(t, 0) /\ UNCHANGED virt_alloc_ptr
     ELSE IF Won(t)
     THEN virt_alloc_ptr' = myval[t] + Reserved(pages[t]) /\ StartAt(t, myval[t])
     ELSE /\ UNCHANGED virt_alloc_ptr
          /\ IF tries[t] + 1 = MAX_ADD_TRIES
             THEN StartAt(t, 0)
             ELSE /\ myval' = Set(myval, t, virt_alloc_ptr)
                  /\ tries' = Set(tries, t, tries[t] + 1)
                  /\ UNCHANGED <<pc, address, virt_addr_ptr, block_index, trouble>>
  /\ UNCHANGED <<bitset_blocks, page_dir, table, pages, pages_left, locked_bits,
                 tableVars, histVars>>

-----------------------------------------------------------------------------
(* lock_next_block() and unlock_block() *)

\* Mutant: the block is read and not swapped.
Swap_ReadOnly(b) == UNCHANGED bitset_blocks

\* atomic_swap of a block with -1.
Swap(b) == bitset_blocks' = [bitset_blocks EXCEPT ![b] = Bit]

LockBlock(t) ==
  LET b == block_index[t] IN
  /\ pc[t] = "lock"
  /\ Swap(b)
  /\ IF bitset_blocks[b] # Bit /\ b # 0
     THEN /\ locked_bits' = Set(locked_bits, t, bitset_blocks[b])
          /\ Goto(t, "map")
          /\ UNCHANGED <<pages, address, virt_addr_ptr, pages_left, block_index,
                         myval, tries>>
     ELSE IF bitset_blocks[b] = Bit /\ b + 1 < BLOCKS
     THEN /\ block_index' = Set(block_index, t, b + 1)
          /\ UNCHANGED <<pc, pages, address, virt_addr_ptr, pages_left, locked_bits,
                         myval, tries>>
     ELSE Return(t)   \* nullptr; also when the block locked is block 0
  /\ UNCHANGED <<page_dir, table, virt_alloc_ptr, tableVars, histVars, trouble>>

\* Mutant: the call returns without unlocking its block.
Unlock_Skipped(t) ==
  /\ pc[t] = "unlock"
  /\ Return(t)
  /\ UNCHANGED <<memVars, tableVars, histVars, trouble>>

Unlock(t) ==
  /\ pc[t] = "unlock"
  /\ bitset_blocks' = [bitset_blocks EXCEPT ![block_index[t]] = locked_bits[t]]
  /\ Return(t)
  /\ UNCHANGED <<page_dir, table, virt_alloc_ptr, tableVars, histVars, trouble>>

-----------------------------------------------------------------------------
(* map_to(), ensure_pte(), lock_next_page() *)

Dir(v) == v \div TABLE

\* Is another call of the same process making the table that t needs?
MakesTable(t) == pc[t] \in {"table", "bit", "pde"}
Twin(t) ==
  \E u \in Threads : /\ u # t /\ Space[u] = Space[t] /\ MakesTable(u)
                     /\ Dir(virt_addr_ptr[u]) = Dir(virt_addr_ptr[t])

\* Mutant: a new page table every time.
EnsurePte_Always(t) ==
  /\ pc[t] = "map"
  /\ Goto(t, "table")
  /\ \E b \in 0 .. START - 1 : locked_index' = Set(locked_index, t, b)
  /\ UNCHANGED <<memVars, callVars, page_bits, new_table, histVars, trouble>>

EnsurePte(t) ==
  /\ pc[t] = "map"
  /\ IF page_dir[Space[t]][Dir(virt_addr_ptr[t])] # None
     THEN Goto(t, "pte") /\ UNCHANGED <<locked_index, trouble>>
     ELSE /\ Goto(t, "table")
          /\ trouble' = (trouble \/ Twin(t))
          /\ \E b \in 0 .. START - 1 : locked_index' = Set(locked_index, t, b)
  /\ UNCHANGED <<memVars, callVars, page_bits, new_table, histVars>>

\* With no block to be had lock_next_page returns 0, and phys_alloc_page the
\* address of page 0.
LockTableBlock(t) ==
  LET b == locked_index[t] IN
  /\ pc[t] = "table"
  /\ Swap(b)
  /\ IF bitset_blocks[b] # Bit
     THEN /\ page_bits' = Set(page_bits, t, bitset_blocks[b])
          /\ Goto(t, "bit")
          /\ UNCHANGED <<locked_index, new_table, trouble>>
     ELSE IF b + 1 < BLOCKS
     THEN /\ locked_index' = Set(locked_index, t, b + 1)
          /\ UNCHANGED <<pc, page_bits, new_table, trouble>>
     ELSE /\ new_table' = Set(new_table, t, LowPage)
          /\ locked_index' = Set(locked_index, t, 0)
          /\ Goto(t, "pde")
          /\ trouble' = TRUE
          /\ UNCHANGED page_bits
  /\ UNCHANGED <<page_dir, table, virt_alloc_ptr, callVars, histVars>>

TakeTablePage(t) ==
  LET j == FirstFree(page_bits[t])
      p == <<locked_index[t], j>>
  IN
  /\ pc[t] = "bit"
  /\ bitset_blocks' = [bitset_blocks EXCEPT ![locked_index[t]] = page_bits[t] \cup {j}]
  /\ new_table' = Set(new_table, t, p)
  /\ out' = out \cup {p}
  /\ tables' = tables \cup {p}
  /\ locked_index' = Set(locked_index, t, 0)
  /\ page_bits' = Set(page_bits, t, {})
  /\ Goto(t, "pde")
  /\ UNCHANGED <<page_dir, table, virt_alloc_ptr, callVars, got, trouble>>

StorePde(t) ==
  /\ pc[t] = "pde"
  /\ page_dir' = [page_dir EXCEPT ![Space[t]][Dir(virt_addr_ptr[t])] = new_table[t]]
  /\ new_table' = Set(new_table, t, LowPage)
  /\ Goto(t, "pte")
  /\ UNCHANGED <<bitset_blocks, table, virt_alloc_ptr, callVars, locked_index,
                 page_bits, histVars, trouble>>

\* Store the entry, through the page directory as it is now, and go on with the
\* next page: pages_left is a uint.
StorePte(t) ==
  LET j == FirstFree(locked_bits[t])
      p == <<block_index[t], j>>
      v == virt_addr_ptr[t]
      left == (pages_left[t] + UINT - 1) % UINT
  IN
  /\ pc[t] = "pte"
  /\ table' = [table EXCEPT ![page_dir[Space[t]][Dir(v)]][v % TABLE] = p]
  /\ locked_bits' = Set(locked_bits, t, locked_bits[t] \cup {j})
  /\ virt_addr_ptr' = Set(virt_addr_ptr, t, v + 1)
  /\ pages_left' = Set(pages_left, t, left)
  /\ out' = out \cup {p}
  /\ got' = Set(got, <<Space[t], v>>, p)
  /\ Goto(t, IF left = 0 THEN "unlock"
             ELSE IF locked_bits'[t] = Bit THEN "lock" ELSE "map")
  /\ UNCHANGED <<bitset_blocks, page_dir, virt_alloc_ptr, pages, address,
                 block_index, myval, tries, tableVars, tables, trouble>>

-----------------------------------------------------------------------------

Step(t) ==
  \/ AddLimit(t) \/ LockBlock(t) \/ EnsurePte(t) \/ LockTableBlock(t)
  \/ TakeTablePage(t) \/ StorePde(t) \/ StorePte(t) \/ Unlock(t)

Next == \E t \in Threads : Step(t) \/ \E n \in Requests : Alloc(t, n)

Spec == Init /\ [][Next]_vars

-----------------------------------------------------------------------------
(* Properties *)

\* t has block_index locked, or locked_index while it takes a page for a table.
HoldsBlock(t) == pc[t] \in {"map", "table", "bit", "pde", "pte", "unlock"}
HoldsTableBlock(t) == pc[t] = "bit"

\* Swapping with -1 locks a block: it looks full to everybody else, and no two
\* searches have the same block, not even the two of one thread.
BlocksLocked ==
  /\ \A t \in Threads : HoldsBlock(t) => bitset_blocks[block_index[t]] = Bit
  /\ \A t \in Threads : HoldsTableBlock(t) => bitset_blocks[locked_index[t]] = Bit
  /\ \A t, u \in Threads :
       /\ HoldsBlock(t) /\ HoldsBlock(u) /\ t # u => block_index[t] # block_index[u]
       /\ HoldsTableBlock(t) /\ HoldsTableBlock(u) /\ t # u =>
            locked_index[t] # locked_index[u]
       /\ HoldsBlock(t) /\ HoldsTableBlock(u) => block_index[t] # locked_index[u]

\* The bits of a block, in the bitmap or with the thread that locked it, say
\* which of its pages are out.
BitsExact ==
  /\ \A b \in Block, j \in Bit : j \notin bitset_blocks[b] => <<b, j>> \notin out
  /\ \A t \in Threads : HoldsBlock(t) =>
       \A j \in Bit : j \in locked_bits[t] <=> <<block_index[t], j>> \in out
  /\ \A t \in Threads : HoldsTableBlock(t) =>
       \A j \in Bit : j \in page_bits[t] <=> <<locked_index[t], j>> \in out

\* A search goes on only with a free page in hand.
FreeInHand ==
  \A t \in Threads :
    /\ HoldsBlock(t) /\ pc[t] # "unlock" => locked_bits[t] # Bit
    /\ HoldsTableBlock(t) => page_bits[t] # Bit

\* Pages that are free stay so: a page that the bitmap shows as used has been
\* handed out, or is in a block that a search has locked.
NothingLeaks ==
  \A b \in Block, j \in Bit :
    j \in bitset_blocks[b] =>
      \/ <<b, j>> \in out
      \/ \E t \in Threads : \/ HoldsBlock(t) /\ block_index[t] = b
                            \/ HoldsTableBlock(t) /\ locked_index[t] = b

\* Pages in use, the low ones among them, have been taken from the bitmap.
OwnersOut ==
  /\ \A x \in Spaces \X VPage : got[x] # None => got[x] \in out
  /\ tables \subseteq out
  /\ \A j \in Bit : <<0, j>> \in out

\* What a call has reserved lies below the pointer to unused virtual memory.
RangesTaken ==
  \A t \in Threads :
    /\ pc[t] \in {"idle", "add"} => address[t] = 0
    /\ address[t] # 0 => address[t] + Reserved(pages[t]) <= virt_alloc_ptr

\* The inductive invariant of the page allocator: a locked block belongs to one
\* search, which knows exactly which of its pages are free.
AllocInv ==
  /\ TypeOK /\ BlocksLocked /\ BitsExact /\ FreeInHand
  /\ NothingLeaks /\ OwnersOut /\ RangesTaken

\* No physical page serves two virtual pages, in whatever address spaces, or a
\* virtual page and a page table.
PagesExclusive ==
  /\ \A x, y \in Spaces \X VPage : got[x] # None /\ got[x] = got[y] => x = y
  /\ \A x \in Spaces \X VPage : got[x] \notin tables

\* Calls in progress reserve disjoint ranges of virtual memory, and so they work on
\* disjoint ranges if neither asks for more pages than there are addresses.  One that
\* does reserves less than it maps (memory.cpp:115), and nothing refuses it.
RangesDisjoint ==
  \A t, u \in Threads :
    LET Before(a, b) == address[a] + Reserved(pages[a]) <= address[b] IN
    t # u /\ address[t] # 0 /\ address[u] # 0 =>
      /\ Before(t, u) \/ Before(u, t)
      /\ pages[t] <= LIMIT /\ pages[u] <= LIMIT =>
           address[t] + pages[t] <= address[u] \/ address[u] + pages[u] <= address[t]

\* Virtual pages are mapped to their pages, and the low memory to itself.
MapsIntact ==
  /\ \A s \in Spaces, v \in VPage : got[<<s, v>>] # None =>
       /\ page_dir[s][Dir(v)] # None
       /\ table[page_dir[s][Dir(v)]][v % TABLE] = got[<<s, v>>]
  /\ \A e \in Entry : table[LowPage][e] = LowPage

\* A virtual page that has been mapped stays mapped to its page, and the low memory
\* to itself, with any number of calls of one process or of several, until one of
\* four things happens that the code does not look out for: next_virtual_pages()
\* fails and its nullptr is mapped, lock_next_page() fails and page 0 becomes a page
\* table, two calls of one process make the same page table at the same time, or a
\* call asks for no page or for more than there are addresses.
MappingsKept == ~ trouble => MapsIntact
=============================================================================
