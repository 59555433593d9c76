-------------------------- MODULE MCSlabAllocator ---------------------------
(* Small instance of SlabAllocator.                                        *)
EXTENDS SlabAllocator, TLC

MCSizeClasses == <<2, 4>>

(* One layout per interesting case: the smallest class, an alignment that  *)
(* decides the class, a size between two classes, a size above them all.   *)
MCLayouts == {[size |-> 1, align |-> 1], [size |-> 1, align |-> 4],
              [size |-> 3, align |-> 1], [size |-> 5, align |-> 2]}

(* Two regions that start off any chunk: one with room for two chunks, one *)
(* with room for a large allocation and then a chunk.                      *)
MCHeaps == {[start |-> 3, size |-> 9], [start |-> 1, size |-> 12]}

(* What callers write: something that reads as the address of a block.     *)
MCJunk == {6}
=============================================================================
