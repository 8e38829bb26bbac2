-------------------------- MODULE MCPageAllocator --------------------------
(***************************************************************************)
(* The threads of one process, which share its address space.              *)
(***************************************************************************)
EXTENDS PageAllocator

OneSpace == [t \in Threads |-> 1]
=============================================================================
