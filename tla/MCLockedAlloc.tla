--------------------------- MODULE MCLockedAlloc ----------------------------
(* Small instance of LockedAlloc: two threads, two classes, two chunks.    *)
EXTENDS LockedAlloc, TLC

MCSizeClasses == <<1, 2>>
MCLayouts == {[size |-> 1, align |-> 1], [size |-> 2, align |-> 1],
              [size |-> 3, align |-> 1]}
MCHeaps == {[start |-> 1, size |-> 6]}
MCJunk == {2}

(* The threads are interchangeable: used where only safety is checked.     *)
Interchangeable == Permutations(Threads)

(* A smaller instance for the liveness run: one small and one large        *)
(* layout, one chunk.                                                      *)
MCFewLayouts == {[size |-> 1, align |-> 1], [size |-> 3, align |-> 1]}
MCSmallHeaps == {[start |-> 1, size |-> 4]}
=============================================================================
