------------------------ MODULE PageAllocatorProofs ------------------------
(***************************************************************************)
(* The page allocator gives a physical page to one owner and loses none,   *)
(* for every number of threads, address spaces, blocks and bits, and       *)
(* hands out disjoint ranges of virtual memory.                            *)
(*                                                                         *)
(* AllocInv is inductive: one lemma per action below.  The properties      *)
(* follow from it, each by one more induction.                             *)
(***************************************************************************)
EXTENDS PageAllocator, TLAPS, WellFoundedInduction

\* A block that is not full has a first free page.
LEMMA FirstFreeIsFree ==
  ASSUME NEW bits \in SUBSET Bit, bits # Bit
  PROVE  FirstFree(bits) \in Bit /\ FirstFree(bits) \notin bits
  <1> DEFINE free == Bit \ bits
             less == {ss \in Nat \X Nat : ss[1] < ss[2]}
  <1>1. free # {}
    OBVIOUS
  <1>2. free \subseteq Nat
    BY SizesAssumption DEF Bit
  <1>3. IsWellFoundedOn(less, Nat)
    BY NatLessThanWellFounded DEF OpToRel
  <1>4. PICK j \in free : \A k \in free : ~ (<<k, j>> \in less)
    <2> HIDE DEF free, less
    <2> QED BY <1>1, <1>2, <1>3, WFMin
  <1>5. ASSUME NEW k \in free PROVE j <= k
    <2>1. j \in Nat /\ k \in Nat /\ ~ (<<k, j>> \in less)
      BY <1>2, <1>4
    <2> QED BY <2>1
  <1> QED BY <1>5 DEF FirstFree

\* A count of pages stays an unsigned int when it is counted down.
LEMMA CountDown ==
  ASSUME NEW n \in 0 .. UINT - 1
  PROVE  (n + UINT - 1) % UINT \in 0 .. UINT - 1
  BY SizesAssumption

\* What a call reserves: what it asks for, unless the size wraps around.
LEMMA ReservedType ==
  ASSUME NEW n \in 0 .. UINT - 1
  PROVE  Reserved(n) \in Nat /\ (n <= LIMIT => Reserved(n) = n)
  BY SizesAssumption DEF Reserved

\* The searches start inside the bitmap.
LEMMA StartInBitmap ==
  0 \in Block /\ (\A b \in 0 .. START - 1 : b \in Block) /\ LowPage \in Page
  BY SizesAssumption DEF Block, Page, LowPage, Bit

-----------------------------------------------------------------------------
(* Initially and in a step of each action. *)

\* Memory as initialize_memory() leaves it.
LEMMA InitAllocInv == Init => AllocInv
  <1> SUFFICES ASSUME Init PROVE AllocInv
    OBVIOUS
  <1>1. TypeOK
    BY SizesAssumption, StartInBitmap DEF Init, TypeOK, Labels, Page
  <1>2. BlocksLocked /\ FreeInHand /\ RangesTaken
    BY DEF Init, BlocksLocked, FreeInHand, RangesTaken, HoldsBlock, HoldsTableBlock
  <1>3. BitsExact
    BY DEF Init, BitsExact, HoldsBlock, HoldsTableBlock
  <1>4. OwnersOut /\ NothingLeaks
    BY StartInBitmap DEF Init, OwnersOut, NothingLeaks, Page
  <1> QED BY <1>1, <1>2, <1>3, <1>4 DEF AllocInv

\* A call starts: nothing but the parameters and the value read change.
LEMMA AllocStep ==
  ASSUME AllocInv, NEW t \in Threads, NEW n \in Requests, Alloc(t, n)
  PROVE  AllocInv'
  <1> USE DEF Alloc, Set, Goto, AllocInv, memVars, tableVars, histVars
  <1>1. TypeOK'
    BY SizesAssumption DEF TypeOK, Labels
  <1>2. BlocksLocked'
    BY DEF BlocksLocked, HoldsBlock, HoldsTableBlock, TypeOK
  <1>3. BitsExact'
    BY DEF BitsExact, HoldsBlock, HoldsTableBlock, TypeOK
  <1>4. FreeInHand'
    BY DEF FreeInHand, HoldsBlock, HoldsTableBlock, TypeOK
  <1>5. NothingLeaks'
    BY DEF NothingLeaks, HoldsBlock, HoldsTableBlock, TypeOK
  <1>6. OwnersOut' /\ RangesTaken'
    BY DEF OwnersOut, RangesTaken, TypeOK
  <1> QED BY <1>1, <1>2, <1>3, <1>4, <1>5, <1>6

\* What AddLimit does to the fields that the invariant speaks of.
LEMMA AddLimitEffect ==
  ASSUME TypeOK, NEW t \in Threads, AddLimit(t)
  PROVE  /\ pc[t] = "add"
         /\ \A u \in Threads : u # t => /\ block_index'[u] = block_index[u]
                                        /\ address'[u] = address[u]
                                        /\ pc'[u] = pc[u]
         /\ TypeOK'
         /\ UNCHANGED <<bitset_blocks, page_dir, table, pages, pages_left, locked_bits,
                        locked_index, page_bits, new_table, out, got, tables>>
         /\ \/ virt_alloc_ptr' = virt_alloc_ptr /\ address'[t] = 0 /\ pc'[t] = "lock"
            \/ virt_alloc_ptr' = virt_alloc_ptr /\ address'[t] = address[t] /\ pc'[t] = "add"
            \/ /\ virt_alloc_ptr' = virt_alloc_ptr + Reserved(pages[t])
               /\ address'[t] = virt_alloc_ptr /\ pc'[t] = "lock"
  <1>1. UNCHANGED <<bitset_blocks, page_dir, table, pages, pages_left, locked_bits,
                    locked_index, page_bits, new_table, out, got, tables>>
        /\ pc[t] = "add"
    BY DEF AddLimit, tableVars, histVars
  <1>2. ASSUME NEW a \in Nat, StartAt(t, a), virt_alloc_ptr' \in Nat
        PROVE  /\ TypeOK'
               /\ address'[t] = a /\ pc'[t] = "lock"
               /\ \A u \in Threads : u # t => /\ block_index'[u] = block_index[u]
                                              /\ address'[u] = address[u]
                                              /\ pc'[u] = pc[u]
    <2>1. PICK b \in Block : block_index' = [block_index EXCEPT ![t] = b]
      BY <1>2, StartInBitmap DEF StartAt, Set
    <2>2. /\ address' = [address EXCEPT ![t] = a] /\ pc' = [pc EXCEPT ![t] = "lock"]
          /\ virt_addr_ptr' = [virt_addr_ptr EXCEPT ![t] = a]
          /\ myval' = [myval EXCEPT ![t] = 0] /\ tries' = [tries EXCEPT ![t] = 0]
      BY <1>2 DEF StartAt, Set, Goto
    <2>3. TypeOK'
      BY <1>1, <1>2, <2>1, <2>2 DEF TypeOK, Labels
    <2> QED BY <2>1, <2>2, <2>3 DEF TypeOK
  <1>3. CASE UNCHANGED virt_alloc_ptr /\ StartAt(t, 0)
    <2>1. virt_alloc_ptr' \in Nat /\ 0 \in Nat
      BY <1>3 DEF TypeOK
    <2>2. /\ TypeOK' /\ address'[t] = 0 /\ pc'[t] = "lock"
          /\ \A u \in Threads : u # t => /\ block_index'[u] = block_index[u]
                                         /\ address'[u] = address[u]
                                         /\ pc'[u] = pc[u]
      BY <1>2, <1>3, <2>1
    <2> QED BY <1>1, <1>3, <2>2
  <1>4. CASE virt_alloc_ptr' = myval[t] + Reserved(pages[t]) /\ StartAt(t, myval[t]) /\ Won(t)
    <2>1. myval[t] \in Nat /\ Reserved(pages[t]) \in Nat /\ myval[t] = virt_alloc_ptr
      BY <1>4, ReservedType DEF TypeOK, Won
    <2> QED BY <1>1, <1>2, <1>4, <2>1
  <1>5. CASE /\ myval' = Set(myval, t, virt_alloc_ptr)
             /\ tries' = Set(tries, t, tries[t] + 1)
             /\ UNCHANGED <<virt_alloc_ptr, pc, address, virt_addr_ptr, block_index>>
    <2>1. TypeOK'
      BY <1>1, <1>5 DEF TypeOK, Set
    <2> QED BY <1>1, <1>5, <2>1
  <1> QED BY <1>3, <1>4, <1>5 DEF AddLimit

\* next_virtual_pages() reserves a range, tries again, or fails.
LEMMA AddLimitStep ==
  ASSUME AllocInv, NEW t \in Threads, AddLimit(t)
  PROVE  AllocInv'
  <1>1. TypeOK /\ TypeOK'
    BY AddLimitEffect DEF AllocInv
  <1>2. \A u \in Threads : u # t => pc'[u] = pc[u]
    BY <1>1, AddLimitEffect
  <1>3. ~ HoldsBlock(t) /\ ~ HoldsBlock(t)' /\ ~ HoldsTableBlock(t) /\ ~ HoldsTableBlock(t)'
    BY <1>1, AddLimitEffect DEF HoldsBlock, HoldsTableBlock, TypeOK
  <1>4. \A u \in Threads : u # t => /\ HoldsBlock(u)' <=> HoldsBlock(u)
                                    /\ HoldsTableBlock(u)' <=> HoldsTableBlock(u)
    BY <1>2 DEF HoldsBlock, HoldsTableBlock
  <1>5. BlocksLocked'
    BY <1>1, <1>3, <1>4, AddLimitEffect DEF AllocInv, BlocksLocked
  <1>6. BitsExact' /\ FreeInHand'
    BY <1>1, <1>2, <1>3, <1>4, AddLimitEffect DEF AllocInv, BitsExact, FreeInHand
  <1>7. OwnersOut' /\ NothingLeaks'
    BY <1>1, <1>3, <1>4, AddLimitEffect DEF AllocInv, OwnersOut, NothingLeaks
  <1>8. RangesTaken'
    <2>1. \A u \in Threads : /\ address[u] \in Nat /\ Reserved(pages[u]) \in Nat
                              /\ virt_alloc_ptr \in Nat
                              /\ Reserved(pages'[u]) = Reserved(pages[u])
      BY <1>1, AddLimitEffect, ReservedType DEF TypeOK
    <2>2. address[t] = 0
      BY <1>1, AddLimitEffect DEF AllocInv, RangesTaken
    <2> QED BY <1>1, <2>1, <2>2, AddLimitEffect DEF AllocInv, RangesTaken
  <1> QED BY <1>1, <1>5, <1>6, <1>7, <1>8 DEF AllocInv

\* The range of a call is dropped when the call returns.
LEMMA ReturnRanges ==
  ASSUME AllocInv, NEW t \in Threads, Return(t), UNCHANGED virt_alloc_ptr
  PROVE  RangesTaken'
  BY SizesAssumption DEF AllocInv, RangesTaken, Return, Set, Goto, TypeOK

\* The types of a call that returns.
LEMMA ReturnTypes ==
  ASSUME TypeOK, NEW t \in Threads, Return(t),
         UNCHANGED <<page_dir, table, virt_alloc_ptr, tableVars, histVars>>,
         bitset_blocks' \in [Block -> SUBSET Bit]
  PROVE  TypeOK'
  BY SizesAssumption, StartInBitmap
     DEF Return, Set, Goto, TypeOK, Labels, tableVars, histVars

\* unlock_block(): the bits of the block go back to the bitmap.
LEMMA UnlockStep ==
  ASSUME AllocInv, NEW t \in Threads, Unlock(t)
  PROVE  AllocInv'
  <1>1. /\ pc[t] = "unlock" /\ pc' = [pc EXCEPT ![t] = "idle"]
        /\ bitset_blocks' = [bitset_blocks EXCEPT ![block_index[t]] = locked_bits[t]]
        /\ \A u \in Threads : u # t => /\ block_index'[u] = block_index[u]
                                       /\ locked_bits'[u] = locked_bits[u]
                                       /\ pc'[u] = pc[u]
        /\ UNCHANGED <<page_dir, table, virt_alloc_ptr, locked_index, page_bits,
                       new_table, out, got, tables>>
        /\ TypeOK
    BY DEF Unlock, Return, Set, Goto, tableVars, histVars, AllocInv, TypeOK
  <1>2. TypeOK'
    <2>1. bitset_blocks' \in [Block -> SUBSET Bit]
      BY <1>1 DEF TypeOK
    <2> QED BY <1>1, <2>1, ReturnTypes DEF Unlock
  <1>3. HoldsBlock(t) /\ ~ HoldsBlock(t)' /\ ~ HoldsTableBlock(t) /\ ~ HoldsTableBlock(t)'
    BY <1>1 DEF HoldsBlock, HoldsTableBlock, TypeOK
  <1>4. \A u \in Threads : u # t => /\ HoldsBlock(u)' <=> HoldsBlock(u)
                                    /\ HoldsTableBlock(u)' <=> HoldsTableBlock(u)
    BY <1>1 DEF HoldsBlock, HoldsTableBlock
  <1>5. \A u \in Threads : /\ HoldsBlock(u) /\ u # t => block_index[u] # block_index[t]
                           /\ HoldsTableBlock(u) => locked_index[u] # block_index[t]
    BY <1>3 DEF AllocInv, BlocksLocked
  <1>6. \A b \in Block : b # block_index[t] => bitset_blocks'[b] = bitset_blocks[b]
    BY <1>1 DEF TypeOK
  <1>7. block_index[t] \in Block /\ bitset_blocks'[block_index[t]] = locked_bits[t]
    BY <1>1 DEF TypeOK
  <1>8. BlocksLocked'
    <2>1. \A u \in Threads : block_index[u] \in Block /\ locked_index[u] \in Block
      BY <1>1 DEF TypeOK
    <2> QED BY <1>1, <1>3, <1>4, <1>5, <1>6, <2>1 DEF AllocInv, BlocksLocked
  <1>9. BitsExact'
    BY <1>1, <1>3, <1>4, <1>6, <1>7 DEF AllocInv, BitsExact
  <1>10. FreeInHand' /\ OwnersOut'
    BY <1>1, <1>3, <1>4 DEF AllocInv, FreeInHand, OwnersOut
  <1>11. NothingLeaks'
    BY <1>1, <1>3, <1>4, <1>6, <1>7 DEF AllocInv, NothingLeaks, BitsExact
  <1>12. RangesTaken'
    BY ReturnRanges DEF Unlock
  <1> QED BY <1>2, <1>8, <1>9, <1>10, <1>11, <1>12 DEF AllocInv

\* ensure_pte() tests the entry of the page directory.
LEMMA EnsurePteStep ==
  ASSUME AllocInv, NEW t \in Threads, EnsurePte(t)
  PROVE  AllocInv'
  <1>1. PICK b \in Block : locked_index' \in {locked_index, [locked_index EXCEPT ![t] = b]}
    BY StartInBitmap DEF EnsurePte, Set
  <1>2. /\ pc[t] = "map" /\ TypeOK
        /\ pc' = [pc EXCEPT ![t] = "pte"] \/ pc' = [pc EXCEPT ![t] = "table"]
        /\ UNCHANGED <<memVars, callVars, page_bits, new_table, histVars>>
    BY DEF EnsurePte, Set, Goto, AllocInv
  <1> USE DEF memVars, callVars, histVars
  <1>3. TypeOK'
    <2>1. pc' \in [Threads -> Labels]
      BY <1>2 DEF TypeOK, Labels
    <2>2. locked_index' \in [Threads -> Block]
      BY <1>1, <1>2 DEF TypeOK
    <2> QED BY <1>2, <2>1, <2>2 DEF TypeOK
  <1>4. \A u \in Threads : /\ HoldsBlock(u)' <=> HoldsBlock(u)
                           /\ HoldsTableBlock(u)' <=> HoldsTableBlock(u)
                           /\ HoldsTableBlock(u) => locked_index'[u] = locked_index[u]
                           /\ pc[u] = "unlock" => pc'[u] = "unlock"
                           /\ pc'[u] \in {"idle", "add"} => pc[u] \in {"idle", "add"}
    BY <1>1, <1>2 DEF HoldsBlock, HoldsTableBlock, TypeOK
  <1>5. BlocksLocked'
    BY <1>2, <1>4 DEF AllocInv, BlocksLocked
  <1>6. BitsExact' /\ FreeInHand'
    BY <1>2, <1>4 DEF AllocInv, BitsExact, FreeInHand
  <1>7. NothingLeaks' /\ OwnersOut' /\ RangesTaken'
    BY <1>2, <1>4 DEF AllocInv, NothingLeaks, OwnersOut, RangesTaken
  <1> QED BY <1>3, <1>5, <1>6, <1>7 DEF AllocInv

\* ensure_pte() stores the entry of the page directory.
LEMMA StorePdeStep ==
  ASSUME AllocInv, NEW t \in Threads, StorePde(t)
  PROVE  AllocInv'
  <1>1. /\ pc[t] = "pde" /\ pc' = [pc EXCEPT ![t] = "pte"] /\ TypeOK
        /\ UNCHANGED <<bitset_blocks, table, virt_alloc_ptr, callVars, locked_index,
                       page_bits, histVars>>
    BY DEF StorePde, Set, Goto, AllocInv
  <1> USE DEF callVars, histVars
  <1>2. TypeOK'
    <2>1. new_table' \in [Threads -> Page]
      BY <1>1, StartInBitmap DEF StorePde, Set, TypeOK
    <2>2. page_dir' \in [Spaces -> [Directory -> Page \cup {None}]]
      BY <1>1, SizesAssumption DEF StorePde, TypeOK
    <2> QED BY <1>1, <2>1, <2>2 DEF TypeOK, Labels
  <1>3. \A u \in Threads : /\ HoldsBlock(u)' <=> HoldsBlock(u)
                           /\ HoldsTableBlock(u)' <=> HoldsTableBlock(u)
                           /\ pc[u] = "unlock" => pc'[u] = "unlock"
                           /\ pc'[u] \in {"idle", "add"} => pc[u] \in {"idle", "add"}
    BY <1>1 DEF HoldsBlock, HoldsTableBlock, TypeOK
  <1>4. BlocksLocked'
    BY <1>1, <1>3 DEF AllocInv, BlocksLocked
  <1>5. BitsExact' /\ FreeInHand'
    BY <1>1, <1>3 DEF AllocInv, BitsExact, FreeInHand
  <1>6. NothingLeaks' /\ OwnersOut' /\ RangesTaken'
    BY <1>1, <1>3 DEF AllocInv, NothingLeaks, OwnersOut, RangesTaken
  <1> QED BY <1>2, <1>4, <1>5, <1>6 DEF AllocInv

\* A block that is not full is nobody's, and its bits say which pages are out.
LEMMA FreeBlock ==
  ASSUME AllocInv, NEW b \in Block, bitset_blocks[b] # Bit
  PROVE  /\ \A j \in Bit : j \in bitset_blocks[b] <=> <<b, j>> \in out
         /\ \A u \in Threads : HoldsBlock(u) => block_index[u] # b
         /\ \A u \in Threads : HoldsTableBlock(u) => locked_index[u] # b
         /\ b # 0
  <1>1. /\ \A u \in Threads : HoldsBlock(u) => block_index[u] # b
        /\ \A u \in Threads : HoldsTableBlock(u) => locked_index[u] # b
    BY DEF AllocInv, BlocksLocked
  <1>2. \A j \in Bit : j \in bitset_blocks[b] <=> <<b, j>> \in out
    BY <1>1 DEF AllocInv, NothingLeaks, BitsExact
  <1>3. bitset_blocks[b] \subseteq Bit
    BY DEF AllocInv, TypeOK
  <1>4. b # 0
    BY <1>2, <1>3 DEF AllocInv, OwnersOut
  <1> QED BY <1>1, <1>2, <1>4

\* lock_next_block() in virt_alloc_pages().
LEMMA LockBlockStep ==
  ASSUME AllocInv, NEW t \in Threads, LockBlock(t)
  PROVE  AllocInv'
  <1> DEFINE b == block_index[t]
  <1>1. /\ pc[t] = "lock" /\ b \in Block /\ TypeOK
        /\ bitset_blocks' = [bitset_blocks EXCEPT ![b] = Bit]
        /\ UNCHANGED <<page_dir, table, virt_alloc_ptr, locked_index, page_bits,
                       new_table, out, got, tables>>
    BY DEF LockBlock, Swap, AllocInv, TypeOK, tableVars, histVars
  <1>2. ~ HoldsBlock(t) /\ ~ HoldsTableBlock(t)
    BY <1>1 DEF HoldsBlock, HoldsTableBlock
  <1>3. bitset_blocks' \in [Block -> SUBSET Bit]
    BY <1>1 DEF TypeOK
  <1>4. CASE bitset_blocks[b] # Bit
    <2>1. b # 0
      BY <1>1, <1>4, FreeBlock
    <2>2. /\ locked_bits' = [locked_bits EXCEPT ![t] = bitset_blocks[b]]
          /\ pc' = [pc EXCEPT ![t] = "map"]
          /\ UNCHANGED <<pages, address, virt_addr_ptr, pages_left, block_index,
                         myval, tries>>
      BY <1>4, <2>1 DEF LockBlock, Set, Goto
    <2>3. TypeOK'
      BY <1>1, <1>3, <2>2 DEF TypeOK, Labels
    <2>4. /\ HoldsBlock(t)' /\ ~ HoldsTableBlock(t)' /\ pc'[t] = "map"
          /\ locked_bits'[t] = bitset_blocks[b]
          /\ \A u \in Threads : u # t => /\ HoldsBlock(u)' <=> HoldsBlock(u)
                                         /\ HoldsTableBlock(u)' <=> HoldsTableBlock(u)
                                         /\ pc'[u] = pc[u]
                                         /\ locked_bits'[u] = locked_bits[u]
      BY <1>1, <2>2 DEF HoldsBlock, HoldsTableBlock, TypeOK
    <2>5. /\ bitset_blocks'[b] = Bit
          /\ \A c \in Block : c # b => bitset_blocks'[c] = bitset_blocks[c]
      BY <1>1 DEF TypeOK
    <2>6. /\ \A j \in Bit : j \in bitset_blocks[b] <=> <<b, j>> \in out
          /\ \A u \in Threads : HoldsBlock(u) => block_index[u] # b
          /\ \A u \in Threads : HoldsTableBlock(u) => locked_index[u] # b
      BY <1>1, <1>4, FreeBlock
    <2>7. \A u \in Threads : block_index[u] \in Block /\ locked_index[u] \in Block
      BY <1>1 DEF TypeOK
    <2>8. BlocksLocked'
      BY <1>1, <1>2, <2>2, <2>4, <2>5, <2>6, <2>7 DEF AllocInv, BlocksLocked
    <2>9. BitsExact'
      BY <1>1, <1>2, <2>2, <2>4, <2>5, <2>6 DEF AllocInv, BitsExact
    <2>10. FreeInHand' /\ OwnersOut'
      BY <1>1, <1>2, <1>4, <2>2, <2>4 DEF AllocInv, FreeInHand, OwnersOut
    <2>11. NothingLeaks'
      BY <1>1, <1>2, <2>2, <2>4, <2>5 DEF AllocInv, NothingLeaks
    <2>12. RangesTaken'
      BY <1>1, <2>2, <2>4 DEF AllocInv, RangesTaken
    <2> QED BY <2>3, <2>8, <2>9, <2>10, <2>11, <2>12 DEF AllocInv
  <1>5. CASE bitset_blocks[b] = Bit
    <2>1. UNCHANGED bitset_blocks
      BY <1>1, <1>5 DEF TypeOK
    <2>2. /\ TypeOK' /\ RangesTaken' /\ ~ HoldsBlock(t)' /\ ~ HoldsTableBlock(t)'
          /\ \A u \in Threads : u # t => /\ pc'[u] = pc[u]
                                         /\ block_index'[u] = block_index[u]
                                         /\ locked_bits'[u] = locked_bits[u]
      <3>1. CASE b + 1 < BLOCKS
        <4>1. /\ block_index' = [block_index EXCEPT ![t] = b + 1]
              /\ UNCHANGED <<pc, pages, address, virt_addr_ptr, pages_left, locked_bits,
                             myval, tries>>
          BY <1>5, <3>1 DEF LockBlock, Set
        <4>2. b + 1 \in Block
          BY <1>1, <3>1, SizesAssumption DEF Block
        <4>3. TypeOK'
          BY <1>1, <1>3, <4>1, <4>2 DEF TypeOK
        <4> QED
          BY <1>1, <4>1, <4>3 DEF AllocInv, RangesTaken, HoldsBlock, HoldsTableBlock, TypeOK
      <3>2. CASE ~ (b + 1 < BLOCKS)
        <4>1. Return(t) /\ UNCHANGED <<page_dir, table, virt_alloc_ptr, tableVars, histVars>>
          BY <1>5, <3>2 DEF LockBlock
        <4>2. TypeOK' /\ RangesTaken'
          BY <1>1, <1>3, <4>1, ReturnTypes, ReturnRanges
        <4> QED
          BY <1>1, <4>1, <4>2
             DEF Return, Set, Goto, HoldsBlock, HoldsTableBlock, TypeOK
      <3> QED BY <3>1, <3>2
    <2>3. \A u \in Threads : u # t => /\ HoldsBlock(u)' <=> HoldsBlock(u)
                                      /\ HoldsTableBlock(u)' <=> HoldsTableBlock(u)
      BY <2>2 DEF HoldsBlock, HoldsTableBlock
    <2>4. BlocksLocked'
      BY <1>1, <2>1, <2>2, <2>3 DEF AllocInv, BlocksLocked
    <2>5. BitsExact' /\ FreeInHand'
      BY <1>1, <2>1, <2>2, <2>3 DEF AllocInv, BitsExact, FreeInHand
    <2>6. NothingLeaks' /\ OwnersOut'
      BY <1>1, <1>2, <2>1, <2>2, <2>3 DEF AllocInv, NothingLeaks, OwnersOut
    <2> QED BY <2>2, <2>4, <2>5, <2>6 DEF AllocInv
  <1> QED BY <1>4, <1>5

\* lock_next_block() in lock_next_page().
LEMMA LockTableBlockStep ==
  ASSUME AllocInv, NEW t \in Threads, LockTableBlock(t)
  PROVE  AllocInv'
  <1> DEFINE b == locked_index[t]
  <1>1. /\ pc[t] = "table" /\ b \in Block /\ TypeOK
        /\ bitset_blocks' = [bitset_blocks EXCEPT ![b] = Bit]
        /\ UNCHANGED <<page_dir, table, virt_alloc_ptr, callVars, out, got, tables>>
    BY DEF LockTableBlock, Swap, AllocInv, TypeOK, histVars
  <1> USE DEF callVars
  <1>2. HoldsBlock(t) /\ ~ HoldsTableBlock(t)
    BY <1>1 DEF HoldsBlock, HoldsTableBlock
  <1>3. bitset_blocks' \in [Block -> SUBSET Bit]
    BY <1>1 DEF TypeOK
  <1>4. CASE bitset_blocks[b] # Bit
    <2>1. /\ page_bits' = [page_bits EXCEPT ![t] = bitset_blocks[b]]
          /\ pc' = [pc EXCEPT ![t] = "bit"]
          /\ UNCHANGED <<locked_index, new_table>>
      BY <1>4 DEF LockTableBlock, Set, Goto
    <2>2. TypeOK'
      BY <1>1, <1>3, <2>1 DEF TypeOK, Labels
    <2>3. /\ HoldsTableBlock(t)' /\ pc'[t] = "bit"
          /\ page_bits'[t] = bitset_blocks[b]
          /\ \A u \in Threads : HoldsBlock(u)' <=> HoldsBlock(u)
          /\ \A u \in Threads : u # t => /\ HoldsTableBlock(u)' <=> HoldsTableBlock(u)
                                         /\ pc'[u] = pc[u]
                                         /\ page_bits'[u] = page_bits[u]
      BY <1>1, <2>1 DEF HoldsBlock, HoldsTableBlock, TypeOK
    <2>4. /\ bitset_blocks'[b] = Bit
          /\ \A c \in Block : c # b => bitset_blocks'[c] = bitset_blocks[c]
      BY <1>1 DEF TypeOK
    <2>5. /\ \A j \in Bit : j \in bitset_blocks[b] <=> <<b, j>> \in out
          /\ \A u \in Threads : HoldsBlock(u) => block_index[u] # b
          /\ \A u \in Threads : HoldsTableBlock(u) => locked_index[u] # b
      BY <1>1, <1>4, FreeBlock
    <2>6. \A u \in Threads : block_index[u] \in Block /\ locked_index[u] \in Block
      BY <1>1 DEF TypeOK
    <2>7. BlocksLocked'
      BY <1>1, <1>2, <2>1, <2>3, <2>4, <2>5, <2>6 DEF AllocInv, BlocksLocked
    <2>8. BitsExact'
      BY <1>1, <1>2, <2>1, <2>3, <2>4, <2>5 DEF AllocInv, BitsExact
    <2>9. FreeInHand' /\ OwnersOut'
      BY <1>1, <1>2, <1>4, <2>1, <2>3 DEF AllocInv, FreeInHand, OwnersOut
    <2>10. NothingLeaks'
      BY <1>1, <1>2, <2>1, <2>3, <2>4 DEF AllocInv, NothingLeaks
    <2>11. RangesTaken'
      BY <1>1, <2>3 DEF AllocInv, RangesTaken
    <2> QED BY <2>2, <2>7, <2>8, <2>9, <2>10, <2>11 DEF AllocInv
  <1>5. CASE bitset_blocks[b] = Bit
    <2>1. UNCHANGED bitset_blocks
      BY <1>1, <1>5 DEF TypeOK
    <2>2. /\ TypeOK' /\ ~ HoldsTableBlock(t)' /\ pc'[t] \in {"table", "pde"}
          /\ UNCHANGED page_bits
          /\ \A u \in Threads : u # t => /\ pc'[u] = pc[u]
                                         /\ locked_index'[u] = locked_index[u]
      <3>1. CASE b + 1 < BLOCKS
        <4>1. /\ locked_index' = [locked_index EXCEPT ![t] = b + 1]
              /\ UNCHANGED <<pc, page_bits, new_table>>
          BY <1>5, <3>1 DEF LockTableBlock, Set
        <4>2. b + 1 \in Block
          BY <1>1, <3>1, SizesAssumption DEF Block
        <4>3. TypeOK'
          BY <1>1, <1>3, <4>1, <4>2 DEF TypeOK
        <4> QED
          BY <1>1, <4>1, <4>3 DEF HoldsTableBlock, TypeOK
      <3>2. CASE ~ (b + 1 < BLOCKS)
        <4>1. /\ new_table' = [new_table EXCEPT ![t] = LowPage]
              /\ locked_index' = [locked_index EXCEPT ![t] = 0]
              /\ pc' = [pc EXCEPT ![t] = "pde"] /\ UNCHANGED page_bits
          BY <1>5, <3>2 DEF LockTableBlock, Set, Goto
        <4>2. TypeOK'
          BY <1>1, <1>3, <4>1, StartInBitmap DEF TypeOK, Labels
        <4> QED
          BY <1>1, <4>1, <4>2 DEF HoldsTableBlock, TypeOK
      <3> QED BY <3>1, <3>2
    <2>3. \A u \in Threads : /\ HoldsBlock(u)' <=> HoldsBlock(u)
                             /\ HoldsTableBlock(u)' <=> HoldsTableBlock(u)
      BY <1>1, <2>2 DEF HoldsBlock, HoldsTableBlock
    <2>4. BlocksLocked'
      BY <1>1, <2>1, <2>2, <2>3 DEF AllocInv, BlocksLocked
    <2>5. BitsExact' /\ FreeInHand'
      BY <1>1, <2>1, <2>2, <2>3 DEF AllocInv, BitsExact, FreeInHand
    <2>6. NothingLeaks' /\ OwnersOut' /\ RangesTaken'
      BY <1>1, <1>2, <2>1, <2>2, <2>3 DEF AllocInv, NothingLeaks, OwnersOut, RangesTaken
    <2> QED BY <2>2, <2>4, <2>5, <2>6 DEF AllocInv
  <1> QED BY <1>4, <1>5

\* lock_next_page() takes the page and unlocks its block.
LEMMA TakeTablePageStep ==
  ASSUME AllocInv, NEW t \in Threads, TakeTablePage(t)
  PROVE  AllocInv'
  <1> DEFINE b == locked_index[t]
             j == FirstFree(page_bits[t])
             new == page_bits[t] \cup {j}
  <1>1. /\ pc[t] = "bit" /\ pc' = [pc EXCEPT ![t] = "pde"] /\ b \in Block /\ TypeOK
        /\ bitset_blocks' = [bitset_blocks EXCEPT ![b] = new]
        /\ new_table' = [new_table EXCEPT ![t] = <<b, j>>]
        /\ out' = out \cup {<<b, j>>} /\ tables' = tables \cup {<<b, j>>}
        /\ locked_index' = [locked_index EXCEPT ![t] = 0]
        /\ page_bits' = [page_bits EXCEPT ![t] = {}]
        /\ UNCHANGED <<page_dir, table, virt_alloc_ptr, callVars, got>>
    BY DEF TakeTablePage, Set, Goto, AllocInv, TypeOK
  <1> USE DEF callVars
  <1>2. HoldsBlock(t) /\ HoldsTableBlock(t)
    BY <1>1 DEF HoldsBlock, HoldsTableBlock
  <1>3. j \in Bit /\ j \notin page_bits[t] /\ page_bits[t] \subseteq Bit
    BY <1>1, <1>2, FirstFreeIsFree DEF AllocInv, FreeInHand, TypeOK
  <1>4. TypeOK'
    <2>1. <<b, j>> \in Page /\ new \in SUBSET Bit
      BY <1>1, <1>3 DEF Page
    <2> HIDE DEF b, j, new
    <2> QED BY <1>1, <2>1, StartInBitmap DEF TypeOK, Labels
  <1>5. /\ bitset_blocks'[b] = new
        /\ \A c \in Block : c # b => bitset_blocks'[c] = bitset_blocks[c]
    BY <1>1 DEF TypeOK
  <1>6. /\ ~ HoldsTableBlock(t)' /\ pc'[t] = "pde"
        /\ \A u \in Threads : HoldsBlock(u)' <=> HoldsBlock(u)
        /\ \A u \in Threads : u # t => /\ HoldsTableBlock(u)' <=> HoldsTableBlock(u)
                                       /\ pc'[u] = pc[u]
                                       /\ page_bits'[u] = page_bits[u]
                                       /\ locked_index'[u] = locked_index[u]
    BY <1>1 DEF HoldsBlock, HoldsTableBlock, TypeOK
  <1>7. /\ \A u \in Threads : HoldsBlock(u) => block_index[u] # b
        /\ \A u \in Threads : HoldsTableBlock(u) /\ u # t => locked_index[u] # b
        /\ \A u \in Threads : block_index[u] \in Block /\ locked_index[u] \in Block
    BY <1>1, <1>2 DEF AllocInv, BlocksLocked, TypeOK
  <1>8. \A k \in Bit : k \in new <=> <<b, k>> \in out'
    BY <1>1, <1>2 DEF AllocInv, BitsExact
  <1> HIDE DEF j, new
  <1>9. \A c \in Block, k \in Bit : c # b => (<<c, k>> \in out' <=> <<c, k>> \in out)
    BY <1>1
  <1>10. BlocksLocked'
    BY <1>1, <1>5, <1>6, <1>7 DEF AllocInv, BlocksLocked
  <1>11. BitsExact'
    BY <1>1, <1>5, <1>6, <1>7, <1>8, <1>9 DEF AllocInv, BitsExact
  <1>12. FreeInHand'
    BY <1>1, <1>2, <1>6 DEF AllocInv, FreeInHand
  <1>13. OwnersOut'
    BY <1>1 DEF AllocInv, OwnersOut
  <1>14. NothingLeaks'
    BY <1>1, <1>5, <1>6, <1>8, <1>9 DEF AllocInv, NothingLeaks
  <1>15. RangesTaken'
    BY <1>1, <1>6 DEF AllocInv, RangesTaken
  <1> QED BY <1>4, <1>10, <1>11, <1>12, <1>13, <1>14, <1>15 DEF AllocInv

\* The entry of the page table is stored and the page marked as used.
LEMMA StorePteStep ==
  ASSUME AllocInv, NEW t \in Threads, StorePte(t)
  PROVE  AllocInv'
  <1> DEFINE b == block_index[t]
             j == FirstFree(locked_bits[t])
             p == <<b, j>>
             v == virt_addr_ptr[t]
             left == (pages_left[t] + UINT - 1) % UINT
             new == locked_bits[t] \cup {j}
  <1>1. /\ pc[t] = "pte" /\ b \in Block /\ TypeOK
        /\ locked_bits' = [locked_bits EXCEPT ![t] = new]
        /\ virt_addr_ptr' = [virt_addr_ptr EXCEPT ![t] = v + 1]
        /\ pages_left' = [pages_left EXCEPT ![t] = left]
        /\ out' = out \cup {p}
        /\ got' = [got EXCEPT ![<<Space[t], v>>] = p]
        /\ UNCHANGED <<bitset_blocks, page_dir, virt_alloc_ptr, pages, address,
                       block_index, myval, tries, tableVars, tables>>
    BY DEF StorePte, Set, Goto, AllocInv, TypeOK
  <1> USE DEF tableVars
  <1>2. HoldsBlock(t) /\ ~ HoldsTableBlock(t)
    BY <1>1 DEF HoldsBlock, HoldsTableBlock
  <1>3. j \in Bit /\ j \notin locked_bits[t] /\ locked_bits[t] \subseteq Bit
    BY <1>1, <1>2, FirstFreeIsFree DEF AllocInv, FreeInHand, TypeOK
  <1>4. locked_bits'[t] = new
    BY <1>1 DEF TypeOK
  <1>5. \/ pc' = [pc EXCEPT ![t] = "unlock"]
        \/ pc' = [pc EXCEPT ![t] = "lock"] /\ new = Bit
        \/ pc' = [pc EXCEPT ![t] = "map"] /\ new # Bit
    BY <1>4 DEF StorePte, Set, Goto
  <1>6. TypeOK'
    <2>1. p \in Page /\ new \in SUBSET Bit /\ left \in 0 .. UINT - 1 /\ v + 1 \in Nat
      BY <1>1, <1>3, CountDown DEF Page, TypeOK
    <2>2. table' \in [Page -> [Entry -> Page \cup {None}]]
      <3> HIDE DEF p
      <3> DEFINE q == page_dir[Space[t]][Dir(v)]
                 e == v % TABLE
      <3>1. table' = [table EXCEPT ![q][e] = p]
        BY DEF StorePte, p
      <3> HIDE DEF q, e
      <3> QED BY <1>1, <2>1, <3>1 DEF TypeOK
    <2> HIDE DEF p, new, left, v
    <2> QED BY <1>1, <1>5, <2>1, <2>2 DEF TypeOK, Labels
  <1>7. \A u \in Threads : u # t => /\ HoldsBlock(u)' <=> HoldsBlock(u)
                                    /\ HoldsTableBlock(u)' <=> HoldsTableBlock(u)
                                    /\ pc'[u] = pc[u]
                                    /\ locked_bits'[u] = locked_bits[u]
    BY <1>1, <1>5 DEF HoldsBlock, HoldsTableBlock, TypeOK
  <1>8. /\ ~ HoldsTableBlock(t)' /\ pc'[t] \in {"unlock", "lock", "map"}
        /\ ~ HoldsBlock(t)' => new = Bit
        /\ HoldsBlock(t)' /\ pc'[t] # "unlock" => new # Bit
    BY <1>1, <1>5 DEF HoldsBlock, HoldsTableBlock, TypeOK
  <1>9. /\ \A u \in Threads : HoldsBlock(u) /\ u # t => block_index[u] # b
        /\ \A u \in Threads : HoldsTableBlock(u) => locked_index[u] # b
        /\ bitset_blocks[b] = Bit
    BY <1>1, <1>2 DEF AllocInv, BlocksLocked
  <1>10. \A k \in Bit : k \in new <=> <<b, k>> \in out'
    BY <1>1, <1>2 DEF AllocInv, BitsExact
  <1> HIDE DEF j, new
  <1>11. \A c \in Block, k \in Bit : c # b => (<<c, k>> \in out' <=> <<c, k>> \in out)
    BY <1>1
  <1>12. BlocksLocked'
    BY <1>1, <1>2, <1>7, <1>8, <1>9 DEF AllocInv, BlocksLocked
  <1>13. BitsExact'
    <2>1. \A u \in Threads : block_index[u] \in Block /\ locked_index[u] \in Block
      BY <1>1 DEF TypeOK
    <2> QED BY <1>1, <1>2, <1>4, <1>7, <1>8, <1>9, <1>10, <1>11, <2>1 DEF AllocInv, BitsExact
  <1>14. FreeInHand'
    BY <1>1, <1>4, <1>7, <1>8 DEF AllocInv, FreeInHand
  <1>15. OwnersOut'
    <2> HIDE DEF p
    <2>1. \A x \in Spaces \X VPage : got'[x] = got[x] \/ got'[x] = p
      BY <1>1 DEF TypeOK
    <2> QED BY <1>1, <2>1 DEF AllocInv, OwnersOut
  <1>16. NothingLeaks'
    BY <1>1, <1>2, <1>7, <1>8, <1>10, <1>11 DEF AllocInv, NothingLeaks
  <1>17. RangesTaken'
    BY <1>1, <1>7, <1>8 DEF AllocInv, RangesTaken
  <1> QED BY <1>6, <1>12, <1>13, <1>14, <1>15, <1>16, <1>17 DEF AllocInv

\* AllocInv speaks only of the variables of the allocator.
LEMMA StutterStep ==
  ASSUME AllocInv, UNCHANGED vars
  PROVE  AllocInv'
  <1> USE DEF vars, memVars, callVars, tableVars, histVars
  <1>1. TypeOK'
    BY DEF AllocInv, TypeOK
  <1>2. BlocksLocked' /\ BitsExact' /\ FreeInHand' /\ NothingLeaks'
    BY DEF AllocInv, BlocksLocked, BitsExact, FreeInHand, NothingLeaks, HoldsBlock,
           HoldsTableBlock
  <1>3. OwnersOut' /\ RangesTaken'
    BY DEF AllocInv, OwnersOut, RangesTaken
  <1> QED BY <1>1, <1>2, <1>3 DEF AllocInv

\* Every step of the allocator preserves its invariant.
LEMMA NextAllocInv == AllocInv /\ [Next]_vars => AllocInv'
  <1> SUFFICES ASSUME AllocInv, [Next]_vars PROVE AllocInv'
    OBVIOUS
  <1>1. CASE UNCHANGED vars
    BY <1>1, StutterStep
  <1>2. ASSUME NEW t \in Threads, NEW n \in Requests, Alloc(t, n) PROVE AllocInv'
    BY <1>2, AllocStep
  <1>3. ASSUME NEW t \in Threads, Step(t) PROVE AllocInv'
    BY <1>3, AddLimitStep, LockBlockStep, EnsurePteStep, LockTableBlockStep,
       TakeTablePageStep, StorePdeStep, StorePteStep, UnlockStep DEF Step
  <1> QED BY <1>1, <1>2, <1>3 DEF Next

\* A locked block belongs to one search, and its bits say which pages are taken:
\* atomic_swap with -1 is enough to share the bitmap.
THEOREM AllocInvariant == Spec => []AllocInv
  BY InitAllocInv, NextAllocInv, PTL DEF Spec

\* Free pages are never lost: every used bit stands for a page handed out or for
\* a block that lock_next_block() has locked and its owner will unlock.
THEOREM NoPageLost == Spec => []NothingLeaks
  <1>1. AllocInv => NothingLeaks
    BY DEF AllocInv
  <1> QED BY <1>1, AllocInvariant, PTL

-----------------------------------------------------------------------------

\* map_to() maps a page that has no owner.
LEMMA StorePteExclusive ==
  ASSUME AllocInv, PagesExclusive, NEW t \in Threads, StorePte(t)
  PROVE  PagesExclusive'
  <1> DEFINE j == FirstFree(locked_bits[t])
             p == <<block_index[t], j>>
             z == <<Space[t], virt_addr_ptr[t]>>
  <1>1. pc[t] = "pte" /\ got' = [got EXCEPT ![z] = p] /\ UNCHANGED tables
    BY DEF StorePte, Set
  <1>2. HoldsBlock(t) /\ TypeOK
    BY <1>1 DEF HoldsBlock, AllocInv
  <1>3. j \in Bit /\ j \notin locked_bits[t]
    BY <1>1, <1>2, FirstFreeIsFree DEF AllocInv, FreeInHand, TypeOK
  <1>4. p \notin out
    BY <1>2, <1>3 DEF AllocInv, BitsExact
  <1> HIDE DEF p, z, j
  <1>5. \A x \in Spaces \X VPage : /\ x = z => got'[x] = p
                                   /\ x # z => got'[x] = got[x]
    BY <1>1, <1>2 DEF TypeOK
  <1> QED BY <1>1, <1>4, <1>5 DEF AllocInv, OwnersOut, PagesExclusive

\* phys_alloc_page() takes a page that has no owner.
LEMMA TakeTablePageExclusive ==
  ASSUME AllocInv, PagesExclusive, NEW t \in Threads, TakeTablePage(t)
  PROVE  PagesExclusive'
  <1> DEFINE j == FirstFree(page_bits[t])
             p == <<locked_index[t], j>>
  <1>1. pc[t] = "bit" /\ tables' = tables \cup {p} /\ UNCHANGED got
    BY DEF TakeTablePage
  <1>2. HoldsTableBlock(t) /\ TypeOK
    BY <1>1 DEF HoldsTableBlock, AllocInv
  <1>3. j \in Bit /\ j \notin page_bits[t] /\ locked_index[t] \in Block
    BY <1>1, <1>2, FirstFreeIsFree DEF AllocInv, FreeInHand, TypeOK
  <1>4. p \notin out /\ p # None
    BY <1>2, <1>3, NoneAssumption DEF AllocInv, BitsExact, Page
  <1> HIDE DEF p, j
  <1> QED BY <1>1, <1>4 DEF AllocInv, OwnersOut, PagesExclusive

\* No physical page has two owners: two virtual pages, of whatever address
\* spaces, or a virtual page and a page table.
THEOREM OneOwner == Spec => []PagesExclusive
  <1>1. Init => PagesExclusive
    BY DEF Init, PagesExclusive
  <1>2. AllocInv /\ PagesExclusive /\ [Next]_vars => PagesExclusive'
    <2> SUFFICES ASSUME AllocInv, PagesExclusive, [Next]_vars PROVE PagesExclusive'
      OBVIOUS
    <2>1. CASE UNCHANGED <<got, tables>>
      BY <2>1 DEF PagesExclusive
    <2>2. CASE UNCHANGED vars
      BY <2>1, <2>2 DEF vars, histVars
    <2>3. ASSUME NEW t \in Threads, NEW n \in Requests, Alloc(t, n)
          PROVE  PagesExclusive'
      BY <2>1, <2>3 DEF Alloc, histVars
    <2>4. ASSUME NEW t \in Threads, Step(t) PROVE PagesExclusive'
      <3>1. CASE AddLimit(t) \/ LockBlock(t) \/ EnsurePte(t) \/ LockTableBlock(t)
                 \/ StorePde(t) \/ Unlock(t)
        BY <2>1, <3>1 DEF AddLimit, LockBlock, EnsurePte, LockTableBlock, StorePde,
                          Unlock, histVars
      <3> QED BY <2>4, <3>1, StorePteExclusive, TakeTablePageExclusive DEF Step
    <2> QED BY <2>2, <2>3, <2>4 DEF Next
  <1> QED BY <1>1, <1>2, AllocInvariant, PTL DEF Spec

-----------------------------------------------------------------------------

\* Calls reserve disjoint ranges of virtual memory: atomic_add_limit() gives each of
\* them its own, however often its compare-and-swap has to be tried again.  What they
\* map is disjoint too unless a call asks for more pages than there are addresses:
\* then pages * BYTES_PER_PAGE wraps, and the call maps more than it has reserved.
THEOREM RangesNeverOverlap == Spec => []RangesDisjoint
  <1>1. Init => RangesDisjoint
    BY DEF Init, RangesDisjoint
  <1>2. AllocInv /\ RangesDisjoint /\ [Next]_vars => RangesDisjoint'
    <2> SUFFICES ASSUME AllocInv, RangesDisjoint, [Next]_vars PROVE RangesDisjoint'
      OBVIOUS
    <2>1. /\ TypeOK
          /\ \A u \in Threads : /\ address[u] \in Nat /\ pages[u] \in Nat
                                /\ pages[u] \in 0 .. UINT - 1 /\ Reserved(pages[u]) \in Nat
                                /\ address[u] # 0 => address[u] + Reserved(pages[u]) <= virt_alloc_ptr
          /\ virt_alloc_ptr \in Nat
      BY SizesAssumption, ReservedType DEF AllocInv, RangesTaken, TypeOK
    <2>2. CASE UNCHANGED <<address, pages>>
      BY <2>2 DEF RangesDisjoint
    <2>3. ASSUME NEW t \in Threads, address'[t] = 0,
                 \A u \in Threads : u # t => address'[u] = address[u] /\ pages'[u] = pages[u]
          PROVE  RangesDisjoint'
      BY <2>3 DEF RangesDisjoint
    <2>4. ASSUME NEW t \in Threads, Return(t) PROVE RangesDisjoint'
      <3>1. /\ address'[t] = 0
            /\ \A u \in Threads : u # t => address'[u] = address[u] /\ pages'[u] = pages[u]
        BY <2>1, <2>4 DEF Return, Set, TypeOK
      <3> QED BY <2>3, <3>1
    <2>5. CASE UNCHANGED vars
      BY <2>2, <2>5 DEF vars, callVars
    <2>6. ASSUME NEW t \in Threads, NEW n \in Requests, Alloc(t, n)
          PROVE  RangesDisjoint'
      <3>1. /\ address'[t] = 0
            /\ \A u \in Threads : u # t => address'[u] = address[u] /\ pages'[u] = pages[u]
        BY <2>1, <2>6 DEF Alloc, Set, TypeOK, AllocInv, RangesTaken
      <3> QED BY <2>3, <3>1
    <2>7. ASSUME NEW t \in Threads, AddLimit(t) PROVE RangesDisjoint'
      <3>1. /\ pc[t] = "add" /\ UNCHANGED pages
            /\ \A u \in Threads : u # t => address'[u] = address[u]
            /\ \/ address'[t] = 0
               \/ address'[t] = address[t]
               \/ address'[t] = virt_alloc_ptr
        BY <2>1, <2>7, AddLimitEffect
      <3>2. address[t] = 0
        BY <3>1 DEF AllocInv, RangesTaken
      <3>3. ASSUME NEW u \in Threads, NEW w \in Threads, u # w, address'[u] # 0, address'[w] # 0
            PROVE  \/ address'[u] + Reserved(pages[u]) <= address'[w]
                   \/ address'[w] + Reserved(pages[w]) <= address'[u]
        BY <2>1, <3>1, <3>2, <3>3 DEF RangesDisjoint
      <3>4. \A u \in Threads : pages[u] <= LIMIT => Reserved(pages[u]) = pages[u]
        BY <2>1, ReservedType
      <3>5. \A n : Reserved(n)' = Reserved(n)
        BY DEF Reserved
      <3> QED BY <3>1, <3>3, <3>4, <3>5 DEF RangesDisjoint
    <2>8. ASSUME NEW t \in Threads, LockBlock(t) PROVE RangesDisjoint'
      BY <2>2, <2>4, <2>8 DEF LockBlock
    <2>9. ASSUME NEW t \in Threads, Unlock(t) PROVE RangesDisjoint'
      BY <2>4, <2>9 DEF Unlock
    <2>10. ASSUME NEW t \in Threads,
                  EnsurePte(t) \/ LockTableBlock(t) \/ TakeTablePage(t) \/ StorePde(t)
                  \/ StorePte(t)
           PROVE  RangesDisjoint'
      BY <2>2, <2>10 DEF EnsurePte, LockTableBlock, TakeTablePage, StorePde, StorePte,
                         callVars
    <2> QED BY <2>5, <2>6, <2>7, <2>8, <2>9, <2>10 DEF Next, Step
  <1> QED BY <1>1, <1>2, AllocInvariant, PTL DEF Spec

-----------------------------------------------------------------------------
(* The page tables.  As long as there has been no trouble, a call that maps pages
   is in its range of virtual memory, page tables are in one place each, and no
   two calls make the table for the same place.  *)

\* The entry of the page directory that the call works with.
Pde(t) == page_dir[Space[t]][Dir(virt_addr_ptr[t])]

\* The call has pages to map, in its range of virtual memory.
Mapping(t) == pc[t] \in {"lock", "map", "table", "bit", "pde", "pte"}

InRange ==
  /\ virt_alloc_ptr >= TABLE
  /\ \A t \in Threads :
       /\ pc[t] = "add" => myval[t] >= TABLE /\ pages_left[t] = pages[t] /\ pages[t] \in 1 .. LIMIT
       /\ Mapping(t) =>
            /\ virt_addr_ptr[t] >= TABLE /\ pages_left[t] >= 1
            /\ virt_addr_ptr[t] + pages_left[t] <= LIMIT

\* Page tables are in one place of one directory, or on their way to it.
TablesApart ==
  /\ LowPage \notin tables
  /\ \A s \in Spaces : page_dir[s][0] = LowPage
  /\ \A s \in Spaces, d \in Directory : d # 0 => page_dir[s][d] \in tables \cup {None}
  /\ \A s, r \in Spaces, d, e \in Directory :
       page_dir[s][d] \in tables /\ page_dir[s][d] = page_dir[r][e] => s = r /\ d = e
  /\ \A t \in Threads : pc[t] = "pde" =>
       /\ new_table[t] \in tables
       /\ \A s \in Spaces, d \in Directory : page_dir[s][d] # new_table[t]
       /\ \A u \in Threads : u # t /\ pc[u] = "pde" => new_table[u] # new_table[t]

\* A table is made only where there is none, and used only where there is one.
PdeKnown ==
  \A t \in Threads :
    /\ pc[t] \in {"table", "bit", "pde"} => Pde(t) = None
    /\ pc[t] = "pte" => Pde(t) # None

\* Only memory that was handed out is mapped.
MapsHigh == \A s \in Spaces, v \in VPage : got[<<s, v>>] # None => v >= TABLE

\* No two calls make the same table.
OneMaker == \A t \in Threads : MakesTable(t) => ~ Twin(t)

MapInv == InRange /\ TablesApart /\ PdeKnown /\ OneMaker /\ MapsHigh /\ MapsIntact

\* A virtual page is known by its directory entry and its table entry, and those
\* from TABLE on are not in the first table.
LEMMA PageSplits ==
  ASSUME NEW v \in Nat
  PROVE  /\ Dir(v) \in Nat /\ v % TABLE \in Entry
         /\ v >= TABLE => Dir(v) # 0
         /\ \A w \in Nat : Dir(v) = Dir(w) /\ v % TABLE = w % TABLE => v = w
  <1>1. TABLE \in Nat \ {0}
    BY SizesAssumption
  <1>2. v % TABLE \in Entry /\ Dir(v) \in Nat
    BY <1>1 DEF Entry, Dir
  <1>3. v >= TABLE => Dir(v) # 0
    BY <1>1 DEF Dir
  <1>4. \A w \in Nat : Dir(v) = Dir(w) /\ v % TABLE = w % TABLE => v = w
    BY <1>1 DEF Dir
  <1> QED BY <1>2, <1>3, <1>4

\* The locals of the other threads.
OthersKept(t) ==
  \A u \in Threads : u # t =>
    /\ pc'[u] = pc[u] /\ virt_addr_ptr'[u] = virt_addr_ptr[u]
    /\ pages_left'[u] = pages_left[u] /\ pages'[u] = pages[u]
    /\ myval'[u] = myval[u] /\ new_table'[u] = new_table[u]

\* The range of t in the next state.
RangeNext(t) ==
  /\ virt_alloc_ptr' >= TABLE
  /\ pc'[t] = "add" => myval'[t] >= TABLE /\ pages_left'[t] = pages'[t] /\ pages'[t] \in 1 .. LIMIT
  /\ pc'[t] \in {"lock", "map", "table", "bit", "pde", "pte"} =>
       /\ virt_addr_ptr'[t] >= TABLE /\ pages_left'[t] >= 1
       /\ virt_addr_ptr'[t] + pages_left'[t] <= LIMIT

\* The ranges stay in order if that of t does.
LEMMA RangeStep ==
  ASSUME InRange, NEW t \in Threads, OthersKept(t), RangeNext(t)
  PROVE  InRange'
  <1> SUFFICES ASSUME NEW u \in Threads
               PROVE  /\ pc'[u] = "add" => myval'[u] >= TABLE /\ pages_left'[u] = pages'[u]
                                           /\ pages'[u] \in 1 .. LIMIT
                      /\ Mapping(u)' => /\ virt_addr_ptr'[u] >= TABLE /\ pages_left'[u] >= 1
                                        /\ virt_addr_ptr'[u] + pages_left'[u] <= LIMIT
    BY DEF InRange, RangeNext
  <1>1. CASE u = t
    BY <1>1 DEF RangeNext, Mapping
  <1>2. CASE u # t
    BY <1>2 DEF OthersKept, InRange, Mapping
  <1> QED BY <1>1, <1>2

\* Nobody comes to make the table of another call, if t does not.
LEMMA MakersKept ==
  ASSUME OneMaker, NEW t \in Threads, OthersKept(t),
         MakesTable(t)' => ~ Twin(t) /\ virt_addr_ptr'[t] = virt_addr_ptr[t]
  PROVE  OneMaker'
  <1> DEFINE Same(a, b) == Space[a] = Space[b] /\ Dir(virt_addr_ptr[a]) = Dir(virt_addr_ptr[b])
             Next2(a, b) == Space[a] = Space[b] /\ Dir(virt_addr_ptr'[a]) = Dir(virt_addr_ptr'[b])
  <1>1. \A u \in Threads : Twin(u) <=> \E w \in Threads : w # u /\ MakesTable(w) /\ Same(w, u)
    BY DEF Twin
  <1>2. \A u \in Threads :
          Twin(u)' <=> \E w \in Threads : w # u /\ MakesTable(w)' /\ Next2(w, u)
    BY DEF Twin, Dir
  <1>3. \A u \in Threads : u # t => virt_addr_ptr'[u] = virt_addr_ptr[u]
    BY DEF OthersKept
  <1>4. \A u \in Threads : u # t => (MakesTable(u)' <=> MakesTable(u))
    BY DEF OthersKept, MakesTable
  <1> SUFFICES ASSUME NEW u \in Threads, NEW w \in Threads, w # u,
                      MakesTable(u)', MakesTable(w)', Next2(w, u)
               PROVE  FALSE
    BY <1>2 DEF OneMaker
  <1>5. Same(w, u) /\ Same(u, w)
    BY <1>3
  <1> HIDE DEF Same, Next2
  <1>6. CASE u = t
    BY <1>1, <1>4, <1>5, <1>6
  <1>7. CASE w = t
    BY <1>1, <1>4, <1>5, <1>7
  <1>8. CASE u # t /\ w # t
    BY <1>1, <1>4, <1>5, <1>8 DEF OneMaker
  <1> QED BY <1>6, <1>7, <1>8

\* A step that leaves directories and tables alone.
LEMMA MapFrame ==
  ASSUME MapInv, NEW t \in Threads, OthersKept(t), RangeNext(t),
         UNCHANGED <<page_dir, table, got, tables>>, pc'[t] # "pde",
         pc'[t] \in {"table", "bit"} => /\ page_dir[Space[t]][Dir(virt_addr_ptr'[t])] = None
                                        /\ virt_addr_ptr'[t] = virt_addr_ptr[t] /\ ~ Twin(t),
         pc'[t] = "pte" => page_dir[Space[t]][Dir(virt_addr_ptr'[t])] # None
  PROVE  MapInv'
  <1>1. InRange'
    BY RangeStep DEF MapInv
  <1>2. MapsHigh' /\ MapsIntact'
    BY DEF MapInv, MapsHigh, MapsIntact
  <1>3. PdeKnown'
    <2> SUFFICES ASSUME NEW u \in Threads
                 PROVE  /\ pc'[u] \in {"table", "bit", "pde"} => Pde(u)' = None
                        /\ pc'[u] = "pte" => Pde(u)' # None
      BY DEF PdeKnown
    <2>1. Pde(u)' = page_dir[Space[u]][Dir(virt_addr_ptr'[u])]
      BY DEF Pde, Dir
    <2>2. CASE u = t
      BY <2>1, <2>2
    <2>3. CASE u # t
      BY <2>1, <2>3 DEF OthersKept, MapInv, PdeKnown, Pde
    <2> QED BY <2>2, <2>3
  <1>4. TablesApart'
    <2>1. \A u \in Threads : pc'[u] = "pde" => u # t /\ pc[u] = "pde" /\ new_table'[u] = new_table[u]
      BY DEF OthersKept
    <2> QED BY <2>1 DEF TablesApart, MapInv
  <1>5. OneMaker'
    <2>1. MakesTable(t)' => ~ Twin(t) /\ virt_addr_ptr'[t] = virt_addr_ptr[t]
      BY DEF MakesTable
    <2> QED BY <2>1, MakersKept DEF MapInv
  <1> QED BY <1>1, <1>2, <1>3, <1>4, <1>5 DEF MapInv

\* A call starts, or looks for its range.
LEMMA RangeActionsKeep ==
  ASSUME AllocInv, MapInv, ~ trouble', NEW t \in Threads,
         AddLimit(t) \/ \E n \in Requests : Alloc(t, n)
  PROVE  MapInv'
  <1> USE DEF Set, Goto
  <1>1. TypeOK /\ virt_alloc_ptr \in Nat /\ virt_alloc_ptr >= TABLE /\ TABLE \in Nat
        /\ pages[t] \in Nat /\ LIMIT \in Nat /\ myval[t] \in Nat
    BY SizesAssumption DEF AllocInv, TypeOK, MapInv, InRange
  <1>2. CASE \E n \in Requests : Alloc(t, n)
    <2>1. PICK n \in Requests : Alloc(t, n)
      BY <1>2
    <2>2. n \in 1 .. LIMIT
      BY <2>1 DEF Alloc
    <2>3. /\ pc'[t] = "add" /\ pages'[t] = n /\ pages_left'[t] = n /\ myval'[t] = virt_alloc_ptr
          /\ UNCHANGED <<virt_alloc_ptr, page_dir, table, got, tables>> /\ OthersKept(t)
      BY <1>1, <2>1 DEF Alloc, TypeOK, memVars, tableVars, histVars, OthersKept
    <2>4. RangeNext(t)
      BY <1>1, <2>2, <2>3 DEF RangeNext
    <2> QED BY <2>3, <2>4, MapFrame
  <1>3. CASE AddLimit(t)
    <2>1. /\ pc[t] = "add"
          /\ UNCHANGED <<page_dir, table, pages, pages_left, new_table, got, tables>>
      BY <1>3 DEF AddLimit, tableVars, histVars
    <2>2. pages_left[t] = pages[t] /\ pages[t] \in 1 .. LIMIT /\ myval[t] >= TABLE
      BY <2>1 DEF MapInv, InRange
    <2>3. ASSUME NEW a, StartAt(t, a)
          PROVE  pc'[t] = "lock" /\ a # 0 /\ virt_addr_ptr'[t] = a /\ OthersKept(t)
      BY <1>1, <2>1, <2>3 DEF StartAt, TypeOK, OthersKept
    <2>4. CASE StartAt(t, 0)
      BY <2>3, <2>4
    <2>5. CASE /\ StartAt(t, myval[t]) /\ virt_alloc_ptr' = myval[t] + Reserved(pages[t])
               /\ ~(Reserved(pages[t]) > LIMIT - myval[t])
      <3>1. pc'[t] = "lock" /\ virt_addr_ptr'[t] = myval[t] /\ OthersKept(t)
        BY <2>3, <2>5
      <3>2. Reserved(pages[t]) = pages[t]
        <4>1. pages[t] \in 0 .. UINT - 1
          BY <1>1 DEF TypeOK
        <4> QED BY <2>2, <4>1, ReservedType
      <3>3. RangeNext(t)
        BY <1>1, <2>1, <2>2, <2>5, <3>1, <3>2 DEF RangeNext
      <3> QED BY <2>1, <3>1, <3>3, MapFrame
    <2>6. CASE /\ myval' = Set(myval, t, virt_alloc_ptr)
               /\ UNCHANGED <<virt_alloc_ptr, pc, virt_addr_ptr>>
      <3>1. pc'[t] = "add" /\ myval'[t] = virt_alloc_ptr /\ OthersKept(t)
        BY <1>1, <2>1, <2>6 DEF TypeOK, OthersKept
      <3>2. RangeNext(t)
        BY <1>1, <2>1, <2>2, <2>6, <3>1 DEF RangeNext
      <3> QED BY <2>1, <3>1, <3>2, MapFrame
    <2> QED BY <1>3, <2>4, <2>5, <2>6 DEF AddLimit
  <1> QED BY <1>2, <1>3

\* The searches in the bitmap do not touch directories and tables.
LEMMA SearchesKeep ==
  ASSUME AllocInv, MapInv, ~ trouble', NEW t \in Threads,
         LockBlock(t) \/ Unlock(t) \/ EnsurePte(t) \/ LockTableBlock(t)
  PROVE  MapInv'
  <1> USE DEF Set, Goto
  <1>1. TypeOK /\ InRange /\ virt_alloc_ptr \in Nat /\ TABLE \in Nat
    BY SizesAssumption DEF AllocInv, TypeOK, MapInv
  <1>2. UNCHANGED <<virt_alloc_ptr, page_dir, table, got, tables>>
    BY DEF LockBlock, Unlock, EnsurePte, LockTableBlock, memVars, tableVars, histVars
  <1>3. ASSUME Return(t), UNCHANGED new_table PROVE MapInv'
    <2>1. pc'[t] = "idle" /\ OthersKept(t)
      BY <1>1, <1>3 DEF Return, TypeOK, OthersKept
    <2>2. RangeNext(t)
      BY <1>1, <1>2, <2>1 DEF RangeNext, InRange
    <2> QED BY <1>2, <2>1, <2>2, MapFrame
  <1>4. ASSUME UNCHANGED <<pages, virt_addr_ptr, pages_left, myval>>, Mapping(t),
               pc'[t] \in {"lock", "map", "table", "bit", "pte"},
               \A u \in Threads : u # t => pc'[u] = pc[u] /\ new_table'[u] = new_table[u],
               pc'[t] \in {"table", "bit"} => Pde(t) = None /\ ~ Twin(t),
               pc'[t] = "pte" => Pde(t) # None
        PROVE  MapInv'
    <2>1. OthersKept(t)
      BY <1>4 DEF OthersKept
    <2>2. RangeNext(t)
      BY <1>1, <1>2, <1>4 DEF RangeNext, InRange, Mapping
    <2> QED BY <1>2, <1>4, <2>1, <2>2, MapFrame DEF Pde
  <1>5. CASE LockBlock(t)
    <2>1. pc[t] = "lock" /\ UNCHANGED new_table
      BY <1>5 DEF LockBlock, tableVars
    <2>2. CASE /\ pc' = [pc EXCEPT ![t] = "map"]
               /\ UNCHANGED <<pages, virt_addr_ptr, pages_left, myval>>
      BY <1>1, <1>4, <2>1, <2>2 DEF TypeOK, Mapping
    <2>3. CASE UNCHANGED <<pc, pages, virt_addr_ptr, pages_left, myval>>
      BY <1>1, <1>4, <2>1, <2>3 DEF TypeOK, Mapping
    <2> QED BY <1>3, <1>5, <2>1, <2>2, <2>3 DEF LockBlock
  <1>6. CASE Unlock(t)
    BY <1>3, <1>6 DEF Unlock, tableVars
  <1>7. CASE EnsurePte(t)
    <2>1. /\ pc[t] = "map" /\ UNCHANGED <<pages, virt_addr_ptr, pages_left, myval, new_table>>
          /\ IF Pde(t) # None THEN pc' = [pc EXCEPT ![t] = "pte"]
             ELSE pc' = [pc EXCEPT ![t] = "table"] /\ ~ Twin(t)
      BY <1>7 DEF EnsurePte, callVars, Pde
    <2> QED BY <1>1, <1>4, <2>1 DEF TypeOK, Mapping
  <1>8. CASE LockTableBlock(t)
    <2>1. /\ pc[t] = "table" /\ UNCHANGED <<pages, virt_addr_ptr, pages_left, myval>>
          /\ Pde(t) = None /\ ~ Twin(t)
      BY <1>8 DEF LockTableBlock, callVars, MapInv, PdeKnown, OneMaker, MakesTable
    <2>2. CASE pc' = [pc EXCEPT ![t] = "bit"] /\ UNCHANGED new_table
      BY <1>1, <1>4, <2>1, <2>2 DEF TypeOK, Mapping
    <2>3. CASE UNCHANGED <<pc, new_table>>
      BY <1>1, <1>4, <2>1, <2>3 DEF TypeOK, Mapping
    <2> QED BY <1>8, <2>2, <2>3 DEF LockTableBlock
  <1> QED BY <1>5, <1>6, <1>7, <1>8

\* The page for a table is one that nobody has.
LEMMA TakeTablePageKeeps ==
  ASSUME AllocInv, MapInv, NEW t \in Threads, TakeTablePage(t)
  PROVE  MapInv'
  <1> USE DEF Set, Goto
  <1> DEFINE j == FirstFree(page_bits[t])
             p == <<locked_index[t], j>>
  <1>1. /\ pc[t] = "bit" /\ tables' = tables \cup {p}
        /\ new_table' = [new_table EXCEPT ![t] = p] /\ pc' = [pc EXCEPT ![t] = "pde"]
        /\ UNCHANGED <<page_dir, table, virt_alloc_ptr, pages, virt_addr_ptr, pages_left, myval, got>>
    BY DEF TakeTablePage, callVars
  <1>2. TypeOK /\ HoldsTableBlock(t)
    BY <1>1 DEF AllocInv, HoldsTableBlock
  <1>3. j \in Bit /\ j \notin page_bits[t]
    BY <1>1, <1>2, FirstFreeIsFree DEF AllocInv, FreeInHand, TypeOK
  <1>4. p \notin out
    BY <1>2, <1>3 DEF AllocInv, BitsExact
  <1>5. p \in Page /\ p # None
    BY <1>2, <1>3, NoneAssumption DEF TypeOK, Page
  <1>6. tables \subseteq out /\ LowPage \in out
    BY SizesAssumption DEF AllocInv, OwnersOut, LowPage, Bit
  <1> HIDE DEF p, j
  <1>7. p \notin tables /\ p # LowPage
    BY <1>4, <1>6
  <1>8. pc'[t] = "pde" /\ new_table'[t] = p /\ OthersKept(t)
        /\ \A u \in Threads : u # t => new_table'[u] = new_table[u] /\ pc'[u] = pc[u]
    BY <1>1, <1>2 DEF TypeOK, OthersKept
  <1>9. InRange'
    <2>1. RangeNext(t)
      BY <1>1, <1>8 DEF RangeNext, MapInv, InRange, Mapping
    <2> QED BY <1>8, <2>1, RangeStep DEF MapInv
  <1>10. MapsHigh' /\ MapsIntact'
    BY <1>1 DEF MapInv, MapsHigh, MapsIntact
  <1>11. PdeKnown'
    <2>1. \A u \in Threads : Pde(u)' = Pde(u)
      BY <1>1 DEF Pde, Dir
    <2>2. Pde(t) = None
      BY <1>1 DEF MapInv, PdeKnown
    <2> QED BY <1>8, <2>1, <2>2 DEF MapInv, PdeKnown
  <1>12. \A s \in Spaces, d \in Directory : page_dir[s][d] # p
    <2> SUFFICES ASSUME NEW s \in Spaces, NEW d \in Directory PROVE page_dir[s][d] # p
      OBVIOUS
    <2>1. CASE d = 0
      BY <1>7, <2>1 DEF MapInv, TablesApart
    <2>2. CASE d # 0
      BY <1>5, <1>7, <2>2 DEF MapInv, TablesApart
    <2> QED BY <2>1, <2>2
  <1>13. TablesApart'
    <2>1. LowPage \notin tables' /\ \A s \in Spaces : page_dir'[s][0] = LowPage
      BY <1>1, <1>7 DEF MapInv, TablesApart
    <2>2. \A s \in Spaces, d \in Directory : d # 0 => page_dir'[s][d] \in tables' \cup {None}
      BY <1>1 DEF MapInv, TablesApart
    <2>3. \A s, r \in Spaces, d, e \in Directory :
            page_dir'[s][d] \in tables' /\ page_dir'[s][d] = page_dir'[r][e] => s = r /\ d = e
      BY <1>1, <1>12 DEF MapInv, TablesApart
    <2>4. ASSUME NEW u \in Threads, pc'[u] = "pde"
          PROVE  /\ new_table'[u] \in tables'
                 /\ \A s \in Spaces, d \in Directory : page_dir'[s][d] # new_table'[u]
                 /\ \A w \in Threads : w # u /\ pc'[w] = "pde" => new_table'[w] # new_table'[u]
      <3>1. CASE u = t
        BY <1>1, <1>7, <1>8, <1>12, <3>1 DEF MapInv, TablesApart
      <3>2. CASE u # t
        BY <1>1, <1>7, <1>8, <2>4, <3>2 DEF MapInv, TablesApart
      <3> QED BY <3>1, <3>2
    <2> QED BY <2>1, <2>2, <2>3, <2>4 DEF TablesApart
  <1>14. OneMaker'
    <2>1. ~ Twin(t) /\ virt_addr_ptr'[t] = virt_addr_ptr[t]
      BY <1>1 DEF MapInv, OneMaker, MakesTable
    <2> QED BY <1>8, <2>1, MakersKept DEF MapInv
  <1> QED BY <1>9, <1>10, <1>11, <1>13, <1>14 DEF MapInv

\* The place of the call is a place of the directory.
LEMMA PlaceInDirectory ==
  ASSUME AllocInv, MapInv, NEW t \in Threads, Mapping(t)
  PROVE  /\ virt_addr_ptr[t] \in VPage /\ virt_addr_ptr[t] \in Nat
         /\ virt_addr_ptr[t] >= TABLE /\ virt_addr_ptr[t] < LIMIT
         /\ Dir(virt_addr_ptr[t]) \in Directory /\ Dir(virt_addr_ptr[t]) # 0
         /\ Space[t] \in Spaces /\ pages_left[t] \in 1 .. UINT - 1
  <1>1. /\ virt_addr_ptr[t] \in Nat /\ pages_left[t] \in 0 .. UINT - 1 /\ Space[t] \in Spaces
        /\ LIMIT \in Nat /\ BLOCKS \in Nat /\ BITS \in Nat /\ UINT \in Nat
    BY SizesAssumption DEF AllocInv, TypeOK
  <1>2. /\ virt_addr_ptr[t] >= TABLE /\ pages_left[t] >= 1
        /\ virt_addr_ptr[t] + pages_left[t] <= LIMIT
    BY DEF MapInv, InRange
  <1>3. virt_addr_ptr[t] < LIMIT /\ pages_left[t] \in 1 .. UINT - 1
    BY <1>1, <1>2
  <1>4. virt_addr_ptr[t] \in VPage
    <2>1. BLOCKS * BITS \in Nat
      BY <1>1
    <2> QED BY <1>1, <1>3, <2>1 DEF VPage
  <1>5. Dir(virt_addr_ptr[t]) \in Directory
    BY <1>4 DEF Directory, Dir
  <1>6. Dir(virt_addr_ptr[t]) # 0
    BY <1>1, <1>2, PageSplits
  <1> QED BY <1>1, <1>2, <1>3, <1>4, <1>5, <1>6

\* A new table is installed where there was none, so that no mapping is lost.
LEMMA StorePdeKeeps ==
  ASSUME AllocInv, MapInv, NEW t \in Threads, StorePde(t)
  PROVE  MapInv'
  <1> USE DEF Set, Goto
  <1> DEFINE s0 == Space[t]
             d0 == Dir(virt_addr_ptr[t])
             p == new_table[t]
  <1>1. /\ pc[t] = "pde" /\ pc' = [pc EXCEPT ![t] = "pte"]
        /\ page_dir' = [page_dir EXCEPT ![s0][d0] = p]
        /\ new_table' = [new_table EXCEPT ![t] = LowPage]
        /\ UNCHANGED <<table, virt_alloc_ptr, pages, virt_addr_ptr, pages_left, myval, got, tables>>
    BY DEF StorePde, callVars, histVars
  <1>2. TypeOK /\ Mapping(t)
    BY <1>1 DEF AllocInv, Mapping
  <1>3. s0 \in Spaces /\ d0 \in Directory /\ d0 # 0
    BY <1>2, PlaceInDirectory
  <1>4. /\ page_dir[s0][d0] = None /\ p \in tables
        /\ \A s \in Spaces, d \in Directory : page_dir[s][d] # p
        /\ \A u \in Threads : u # t /\ pc[u] = "pde" => new_table[u] # p
    BY <1>1 DEF MapInv, TablesApart, PdeKnown, Pde
  <1>5. p # None /\ None \notin tables
    BY <1>4, NoneAssumption DEF AllocInv, TypeOK
  <1>6. /\ pc'[t] = "pte" /\ OthersKept(t)
        /\ \A u \in Threads : u # t => new_table'[u] = new_table[u] /\ pc'[u] = pc[u]
    BY <1>1, <1>2 DEF TypeOK, OthersKept
  <1>7. /\ page_dir'[s0][d0] = p
        /\ \A s \in Spaces, d \in Directory :
             s # s0 \/ d # d0 => page_dir'[s][d] = page_dir[s][d]
    BY <1>1, <1>2, <1>3 DEF TypeOK
  <1>8. ASSUME NEW u \in Threads, u # t
        PROVE  /\ Space[u] \in Spaces
               /\ MakesTable(u) => Space[u] # s0 \/ Dir(virt_addr_ptr[u]) # d0
    BY <1>1, <1>8, SizesAssumption DEF MapInv, OneMaker, MakesTable, Twin
  <1> HIDE DEF s0, d0, p
  <1>9. InRange'
    <2>1. RangeNext(t)
      BY <1>1, <1>6 DEF RangeNext, MapInv, InRange, Mapping
    <2> QED BY <1>6, <2>1, RangeStep DEF MapInv
  <1>10. MapsHigh'
    BY <1>1 DEF MapInv, MapsHigh
  <1>11. MapsIntact'
    <2>1. ASSUME NEW s \in Spaces, NEW v \in VPage, got[<<s, v>>] # None
          PROVE  page_dir'[s][Dir(v)] = page_dir[s][Dir(v)]
      <3>1. page_dir[s][Dir(v)] # None
        BY <2>1 DEF MapInv, MapsIntact
      <3>2. Dir(v) \in Directory
        BY DEF Directory, Dir
      <3> QED BY <1>4, <1>7, <3>1, <3>2
    <2> QED BY <1>1, <2>1 DEF MapInv, MapsIntact, Dir
  <1>12. PdeKnown'
    <2>1. Pde(t)' = p
      BY <1>1, <1>7 DEF Pde, Dir, s0, d0
    <2>2. ASSUME NEW u \in Threads, u # t, pc[u] \in {"table", "bit", "pde", "pte"}
          PROVE  /\ MakesTable(u) => Pde(u)' = Pde(u)
                 /\ pc[u] = "pte" => Pde(u)' # None
      <3>1. Mapping(u) /\ Pde(u)' = page_dir'[Space[u]][Dir(virt_addr_ptr[u])]
        BY <1>1, <2>2 DEF Pde, Dir, Mapping
      <3>2. Dir(virt_addr_ptr[u]) \in Directory /\ Space[u] \in Spaces
        BY <3>1, PlaceInDirectory
      <3>3. CASE Space[u] = s0 /\ Dir(virt_addr_ptr[u]) = d0
        BY <1>5, <1>7, <1>8, <2>2, <3>1, <3>3 DEF MakesTable
      <3>4. CASE Space[u] # s0 \/ Dir(virt_addr_ptr[u]) # d0
        <4>1. Pde(u)' = Pde(u)
          BY <1>7, <3>1, <3>2, <3>4 DEF Pde
        <4> QED BY <2>2, <4>1 DEF MapInv, PdeKnown
      <3> QED BY <3>3, <3>4
    <2> QED BY <1>5, <1>6, <2>1, <2>2 DEF MapInv, PdeKnown, MakesTable
  <1>13. TablesApart'
    <2>1. LowPage \notin tables' /\ \A s \in Spaces : page_dir'[s][0] = LowPage
      <3>1. 0 \in Directory
        <4>1. 0 \in VPage /\ 0 \div TABLE = 0
          BY SizesAssumption DEF VPage
        <4> QED BY <4>1 DEF Directory
      <3> QED BY <1>1, <1>3, <1>7, <3>1 DEF MapInv, TablesApart
    <2>2. \A s \in Spaces, d \in Directory : d # 0 => page_dir'[s][d] \in tables' \cup {None}
      BY <1>1, <1>4, <1>7 DEF MapInv, TablesApart
    <2>3. ASSUME NEW s \in Spaces, NEW r \in Spaces, NEW d \in Directory, NEW e \in Directory,
                 page_dir'[s][d] \in tables', page_dir'[s][d] = page_dir'[r][e]
          PROVE  s = r /\ d = e
      <3>1. CASE s = s0 /\ d = d0
        BY <1>4, <1>7, <2>3, <3>1
      <3>2. CASE r = s0 /\ e = d0
        BY <1>4, <1>7, <2>3, <3>2
      <3>3. CASE ~(s = s0 /\ d = d0) /\ ~(r = s0 /\ e = d0)
        BY <1>1, <1>7, <2>3, <3>3 DEF MapInv, TablesApart
      <3> QED BY <3>1, <3>2, <3>3
    <2>4. ASSUME NEW u \in Threads, pc'[u] = "pde"
          PROVE  /\ new_table'[u] \in tables'
                 /\ \A s \in Spaces, d \in Directory : page_dir'[s][d] # new_table'[u]
                 /\ \A w \in Threads : w # u /\ pc'[w] = "pde" => new_table'[w] # new_table'[u]
      <3>1. u # t /\ pc[u] = "pde" /\ new_table'[u] = new_table[u]
        BY <1>6, <2>4
      <3>2. new_table[u] # p
        BY <1>4, <3>1
      <3>3. \A s \in Spaces, d \in Directory : page_dir'[s][d] # new_table[u]
        BY <1>7, <3>1, <3>2 DEF MapInv, TablesApart
      <3>4. \A w \in Threads : w # u /\ pc'[w] = "pde" => new_table'[w] # new_table[u]
        BY <1>6, <3>1 DEF MapInv, TablesApart
      <3> QED BY <1>1, <3>1, <3>3, <3>4 DEF MapInv, TablesApart
    <2> QED BY <2>1, <2>2, <2>3, <2>4 DEF TablesApart
  <1>14. OneMaker'
    <2>1. ~ MakesTable(t)'
      BY <1>6 DEF MakesTable
    <2> QED BY <1>6, <2>1, MakersKept DEF MapInv
  <1> QED BY <1>9, <1>10, <1>11, <1>12, <1>13, <1>14 DEF MapInv

\* A count that is not 0 is counted down by one.
LEMMA CountsDown ==
  ASSUME NEW n \in 1 .. UINT - 1
  PROVE  (n + UINT - 1) % UINT = n - 1
  <1>1. UINT \in Nat \ {0}
    BY SizesAssumption
  <1>2. \A m \in Int : 0 <= m /\ m < UINT => (m + UINT) % UINT = m
    BY <1>1
  <1>3. n - 1 \in Int /\ 0 <= n - 1 /\ n - 1 < UINT /\ n + UINT - 1 = (n - 1) + UINT
    BY <1>1
  <1> QED BY <1>2, <1>3

\* map_to() writes the entry of its own virtual page and no other.
LEMMA StorePteKeeps ==
  ASSUME AllocInv, MapInv, NEW t \in Threads, StorePte(t)
  PROVE  MapInv'
  <1> USE DEF Set, Goto
  <1> DEFINE j == FirstFree(locked_bits[t])
             p == <<block_index[t], j>>
             v == virt_addr_ptr[t]
             left == (pages_left[t] + UINT - 1) % UINT
             s0 == Space[t]
             q == page_dir[s0][Dir(v)]
             e0 == v % TABLE
             next == IF left = 0 THEN "unlock"
                     ELSE IF locked_bits'[t] = Bit THEN "lock" ELSE "map"
  <1>1. /\ pc[t] = "pte" /\ table' = [table EXCEPT ![q][e0] = p]
        /\ virt_addr_ptr' = [virt_addr_ptr EXCEPT ![t] = v + 1]
        /\ pages_left' = [pages_left EXCEPT ![t] = left]
        /\ got' = [got EXCEPT ![<<s0, v>>] = p]
        /\ pc' = [pc EXCEPT ![t] = next]
        /\ UNCHANGED <<page_dir, virt_alloc_ptr, pages, myval, new_table, tables>>
    BY DEF StorePte, tableVars
  <1>2. TypeOK /\ Mapping(t)
    BY <1>1 DEF AllocInv, Mapping
  <1>3. /\ v \in VPage /\ v \in Nat /\ v >= TABLE /\ v < LIMIT /\ s0 \in Spaces
        /\ Dir(v) \in Directory /\ Dir(v) # 0 /\ pages_left[t] \in 1 .. UINT - 1
    BY <1>2, PlaceInDirectory
  <1>4. e0 \in Entry
    BY <1>3, PageSplits
  <1>5. q \in tables /\ q \in Page /\ q # LowPage
    BY <1>1, <1>2, <1>3 DEF MapInv, PdeKnown, Pde, TablesApart, TypeOK
  <1>6. left = pages_left[t] - 1
    BY <1>3, CountsDown
  <1>7. v + pages_left[t] <= LIMIT
    BY <1>2 DEF MapInv, InRange
  <1>8. /\ pc'[t] = next /\ virt_addr_ptr'[t] = v + 1 /\ pages_left'[t] = left /\ OthersKept(t)
        /\ \A u \in Threads : u # t => pc'[u] = pc[u]
    BY <1>1, <1>2 DEF TypeOK, OthersKept
  <1>9. next \in {"unlock", "lock", "map"} /\ (next # "unlock" => left # 0)
    OBVIOUS
  <1>10. \A x \in Spaces \X VPage : got'[x] = IF x = <<s0, v>> THEN p ELSE got[x]
    BY <1>1, <1>2 DEF TypeOK
  <1>11. /\ table'[q][e0] = p
         /\ \A r \in Page, e \in Entry : r # q \/ e # e0 => table'[r][e] = table[r][e]
    BY <1>1, <1>2, <1>4, <1>5 DEF TypeOK
  <1> HIDE DEF next, left, p, j
  <1>12. InRange'
    <2>1. RangeNext(t)
      <3>1. virt_alloc_ptr' >= TABLE /\ TABLE \in Nat /\ LIMIT \in Nat
        BY <1>1, SizesAssumption DEF MapInv, InRange
      <3>2. pc'[t] # "add"
        BY <1>8, <1>9
      <3>3. left \in Int /\ v + 1 >= TABLE /\ (v + 1) + left <= LIMIT
        <4> HIDE DEF v
        <4> QED BY <1>3, <1>6, <1>7, <3>1
      <3>4. pc'[t] \in {"lock", "map", "table", "bit", "pde", "pte"} => left >= 1
        <4>1. pc'[t] \in {"lock", "map", "table", "bit", "pde", "pte"} => left # 0
          BY <1>8, <1>9
        <4>2. left # 0 => left >= 1
          BY <1>3, <1>6
        <4> QED BY <4>1, <4>2
      <3> QED BY <1>8, <3>1, <3>2, <3>3, <3>4 DEF RangeNext
    <2> QED BY <1>8, <2>1, RangeStep DEF MapInv
  <1>13. MapsHigh'
    <2> SUFFICES ASSUME NEW s \in Spaces, NEW w \in VPage, got'[<<s, w>>] # None
                 PROVE  w >= TABLE
      BY DEF MapsHigh
    <2>1. CASE <<s, w>> = <<s0, v>>
      BY <1>3, <2>1
    <2>2. CASE <<s, w>> # <<s0, v>>
      BY <1>10, <2>2 DEF MapInv, MapsHigh
    <2> QED BY <2>1, <2>2
  <1>14. MapsIntact'
    <2>1. ASSUME NEW s \in Spaces, NEW w \in VPage, got'[<<s, w>>] # None
          PROVE  /\ page_dir'[s][Dir(w)] # None
                 /\ table'[page_dir'[s][Dir(w)]][w % TABLE] = got'[<<s, w>>]
      <3>1. CASE s = s0 /\ w = v
        <4>1. got'[<<s, w>>] = p
          BY <1>10, <3>1
        <4>2. page_dir'[s][Dir(w)] = q /\ w % TABLE = e0
          BY <1>1, <3>1
        <4>3. q # None
          BY <1>1 DEF MapInv, PdeKnown, Pde
        <4> QED BY <1>11, <4>1, <4>2, <4>3
      <3>2. CASE ~(s = s0 /\ w = v)
        <4>1. got'[<<s, w>>] = got[<<s, w>>]
          BY <1>10, <3>2
        <4>2. /\ page_dir[s][Dir(w)] # None
              /\ table[page_dir[s][Dir(w)]][w % TABLE] = got[<<s, w>>]
          BY <2>1, <4>1 DEF MapInv, MapsIntact
        <4>3. w \in Nat /\ Dir(w) \in Directory
          BY SizesAssumption DEF VPage, Directory, Dir
        <4>4. w % TABLE \in Entry
          BY <4>3, PageSplits
        <4>5. page_dir[s][Dir(w)] # q \/ w % TABLE # e0
          <5> SUFFICES ASSUME page_dir[s][Dir(w)] = q, w % TABLE = e0 PROVE FALSE
            OBVIOUS
          <5>1. s = s0 /\ Dir(w) = Dir(v)
            BY <1>3, <1>5, <4>3 DEF MapInv, TablesApart
          <5>2. w = v
            BY <1>3, <4>3, <5>1, PageSplits
          <5> QED BY <3>2, <5>1, <5>2
        <4>6. page_dir[s][Dir(w)] \in Page
          BY <1>2, <4>2, <4>3 DEF TypeOK
        <4>7. table'[page_dir[s][Dir(w)]][w % TABLE] = table[page_dir[s][Dir(w)]][w % TABLE]
          BY <1>11, <4>4, <4>5, <4>6
        <4> QED BY <1>1, <4>1, <4>2, <4>7
      <3> QED BY <3>1, <3>2
    <2>2. \A e \in Entry : table'[LowPage][e] = LowPage
      BY <1>5, <1>11, StartInBitmap DEF MapInv, MapsIntact
    <2> QED BY <2>1, <2>2 DEF MapsIntact, Dir
  <1>15. PdeKnown'
    <2> SUFFICES ASSUME NEW u \in Threads
                 PROVE  /\ pc'[u] \in {"table", "bit", "pde"} => Pde(u)' = None
                        /\ pc'[u] = "pte" => Pde(u)' # None
      BY DEF PdeKnown
    <2>1. CASE u = t
      BY <1>8, <1>9, <2>1
    <2>2. CASE u # t
      <3>1. Pde(u)' = Pde(u)
        BY <1>1, <1>8, <2>2 DEF Pde, Dir, OthersKept
      <3> QED BY <1>8, <2>2, <3>1 DEF MapInv, PdeKnown
    <2> QED BY <2>1, <2>2
  <1>16. TablesApart'
    <2>1. \A u \in Threads : pc'[u] = "pde" => pc[u] = "pde"
      BY <1>8, <1>9
    <2> QED BY <1>1, <2>1 DEF MapInv, TablesApart
  <1>17. OneMaker'
    <2>1. ~ MakesTable(t)'
      BY <1>8, <1>9 DEF MakesTable
    <2> QED BY <1>8, <2>1, MakersKept DEF MapInv
  <1> QED BY <1>12, <1>13, <1>14, <1>15, <1>16, <1>17 DEF MapInv

\* At the start only the low memory is mapped.
LEMMA InitMapInv == Init => MapInv
  <1> SUFFICES ASSUME Init PROVE MapInv
    OBVIOUS
  <1>1. TABLE \in Nat /\ 0 \in Directory
    <2>1. 0 \in VPage /\ 0 \div TABLE = 0
      BY SizesAssumption DEF VPage
    <2> QED BY <2>1, SizesAssumption DEF Directory
  <1>2. InRange /\ PdeKnown /\ OneMaker /\ MapsHigh
    BY <1>1 DEF Init, InRange, PdeKnown, OneMaker, MakesTable, MapsHigh, Mapping
  <1>3. MapsIntact
    BY StartInBitmap DEF Init, MapsIntact
  <1>4. TablesApart
    BY <1>1 DEF Init, TablesApart
  <1> QED BY <1>2, <1>3, <1>4 DEF MapInv

\* Trouble is never forgotten.
LEMMA TroubleStays == [Next]_vars => (trouble => trouble')
  BY DEF Next, Step, Alloc, AddLimit, StartAt, LockBlock, Unlock, EnsurePte, LockTableBlock,
         TakeTablePage, StorePde, StorePte, vars

\* A virtual page that has been mapped stays mapped to its page, and the low memory
\* to itself, although ensure_pte() and map_to() run with interrupts on: for any
\* number of threads and processes, until a search for memory fails unnoticed, two
\* threads of one process make the same page table at once, or a call asks for no
\* page or for more than there are addresses.
THEOREM MappingsStay == Spec => []MappingsKept
  <1> DEFINE Inv == ~ trouble => MapInv
  <1>1. AllocInv /\ Inv /\ [Next]_vars => Inv'
    <2> SUFFICES ASSUME AllocInv, Inv, [Next]_vars, ~ trouble' PROVE MapInv'
      OBVIOUS
    <2>0. MapInv
      BY TroubleStays
    <2>1. CASE UNCHANGED vars
      <3>1. UNCHANGED <<page_dir, table, virt_alloc_ptr, pc, pages, virt_addr_ptr, pages_left,
                        myval, new_table, got, tables>>
        BY <2>1 DEF vars, memVars, callVars, tableVars, histVars
      <3>2. InRange' /\ TablesApart'
        BY <2>0, <3>1 DEF MapInv, InRange, TablesApart, Mapping
      <3>3. PdeKnown' /\ MapsHigh' /\ MapsIntact'
        BY <2>0, <3>1 DEF MapInv, PdeKnown, Pde, MapsHigh, MapsIntact, Dir
      <3>4. OneMaker'
        BY <2>0, <3>1 DEF MapInv, OneMaker, MakesTable, Twin, Dir
      <3> QED BY <3>2, <3>3, <3>4 DEF MapInv
    <2>2. CASE Next
      <3>1. PICK t \in Threads : Step(t) \/ \E n \in Requests : Alloc(t, n)
        BY <2>2 DEF Next
      <3> QED BY <2>0, <3>1, RangeActionsKeep, SearchesKeep, TakeTablePageKeeps, StorePdeKeeps,
                 StorePteKeeps DEF Step
    <2> QED BY <2>1, <2>2
  <1>2. Inv => MappingsKept
    BY DEF MapInv, MappingsKept
  <1>3. Init => Inv
    BY InitMapInv
  <1> QED BY <1>1, <1>2, <1>3, AllocInvariant, PTL DEF Spec
=============================================================================
