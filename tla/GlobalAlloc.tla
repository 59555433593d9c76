---------------------------- MODULE GlobalAlloc -----------------------------
(***************************************************************************)
(* What a global allocator promises to its callers, independent of how it  *)
(* finds memory: the abstract specification that SlabAllocator (one        *)
(* caller, whole operations) and LockedAlloc (many threads, single loads   *)
(* and stores) are shown to implement.                                     *)
(*                                                                         *)
(* The only state is the set of allocations the callers hold and the       *)
(* region given to init.  A failed allocation (a null pointer) changes     *)
(* nothing and is a stuttering step here.                                  *)
(***************************************************************************)
EXTENDS Integers

CONSTANTS Layouts,   \* the layouts callers ask for, records [size, align]
          Heaps      \* the regions init may be given, records [start, size]

VARIABLES live,      \* allocations held by callers, records [ptr, layout]
          heap_start, heap_end

gvars == <<live, heap_start, heap_end>>

Apart(a, m, b, n) == a + m <= b \/ b + n <= a

Init == live = {} /\ heap_start = 0 /\ heap_end = 0

GiveRegion(h) ==
    /\ heap_end = 0
    /\ heap_start' = h.start /\ heap_end' = h.start + h.size
    /\ UNCHANGED live

(* A pointer is aligned as asked, lies in the region with all the bytes    *)
(* asked for, and none of these bytes belongs to another allocation.       *)
Grant(p, l) ==
    /\ heap_start <= p /\ p + l.size <= heap_end
    /\ p % l.align = 0
    /\ \A s \in live : Apart(p, l.size, s.ptr, s.layout.size)
    /\ live' = live \cup {[ptr |-> p, layout |-> l]}
    /\ UNCHANGED <<heap_start, heap_end>>

TakeBack(r) ==
    /\ live' = live \ {r}
    /\ UNCHANGED <<heap_start, heap_end>>

Next == \/ \E h \in Heaps : GiveRegion(h)
        \/ \E p \in heap_start .. heap_end, l \in Layouts : Grant(p, l)
        \/ \E r \in live : TakeBack(r)

Spec == Init /\ [][Next]_gvars
=============================================================================
