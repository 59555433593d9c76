--------------------------- MODULE SlabAllocator ----------------------------
(***************************************************************************)
(* slaballoc/src/allocator.rs: size classes with intrusive LIFO free lists *)
(* over 4 KiB chunks taken from a bump pointer, and the bump pointer alone *)
(* for layouts above the largest class.                                    *)
(*                                                                         *)
(* Every action is one whole call made by the single owner of the          *)
(* allocator (&mut self); LockedAlloc interleaves several callers.  One    *)
(* unit of address space stands for the eight bytes of a FreeNode, the     *)
(* smallest size class, so that every address can hold one node.  A null   *)
(* pointer, and None in an Option<NonNull<_>>, is the number 0, as in      *)
(* memory.                                                                 *)
(***************************************************************************)
EXTENDS Integers, Sequences, AddressRounding

CONSTANTS SIZE_CLASSES,  \* block size of each class
          CHUNK_SIZE,    \* size and alignment of the chunks cut into blocks
          Layouts,       \* the layouts callers use, records [size, align]
          Heaps,         \* the regions init may be given, [start, size]
          Junk           \* values callers may store in memory they hold

NULL    == 0
Classes == 1 .. Len(SIZE_CLASSES)
Addr    == 0 .. WORD - 1

(* Blocks picked by size alone: the alignment would be ignored.            *)
FitsSizeOnly(l, i) == l.size <= SIZE_CLASSES[i]

(* The smallest class that holds both the size and the alignment.          *)
Fits(l, i) == l.size <= SIZE_CLASSES[i] /\ l.align <= SIZE_CLASSES[i]

HasClass(l) == \E i \in Classes : Fits(l, i)
class_index_for(l) ==
    CHOOSE i \in Classes : Fits(l, i) /\ \A j \in 1 .. i - 1 : ~ Fits(l, j)

(* The class constants of the code: positive sizes that divide the chunk.  *)
ASSUME ClassAssumption ==
    /\ SIZE_CLASSES \in Seq(Nat \ {0}) /\ Len(SIZE_CLASSES) > 0
    /\ CHUNK_SIZE \in Nat \ {0}
    /\ \A i \in Classes : CHUNK_SIZE % SIZE_CLASSES[i] = 0

(* A Layout has a nonzero power of two as alignment, and the classes are   *)
(* powers of two, so an alignment that fits in a class divides it.  Global *)
(* allocators are never asked for zero bytes.                              *)
ASSUME LayoutAssumption ==
    /\ Layouts \subseteq [size : Nat \ {0}, align : Nat \ {0}]
    /\ \A l \in Layouts, i \in Classes :
           l.align <= SIZE_CLASSES[i] => SIZE_CLASSES[i] % l.align = 0

(* The region is not at address 0, and lies far enough below the end of    *)
(* the address space for align_up not to wrap on it.                       *)
ASSUME HeapAssumption ==
    /\ Heaps \subseteq [start : Nat \ {0}, size : Nat \ {0}]
    /\ \A h \in Heaps :
          /\ h.start + h.size + CHUNK_SIZE <= WORD
          /\ \A l \in Layouts : h.start + h.size + l.align <= WORD

ASSUME JunkAssumption == Junk \subseteq Nat

VARIABLES heap_start, heap_end, bump,   \* fields of SlabAllocator
          head,         \* caches[i].head, NULL when the list is empty
          initialized,
          mem,          \* the word at each address, FreeNode.next in a node
          live,         \* the allocations callers hold, [ptr, layout]
          carved        \* history: the blocks each class was ever given

heapvars == <<heap_start, heap_end, initialized>>
vars     == <<heap_start, heap_end, bump, head, initialized, mem, live, carved>>

Init ==
    /\ heap_start = 0 /\ heap_end = 0 /\ bump = 0
    /\ head = [i \in Classes |-> NULL]
    /\ initialized = FALSE
    /\ mem = [a \in Addr |-> 0]
    /\ live = {}
    /\ carved = [i \in Classes |-> {}]
-----------------------------------------------------------------------------
(* SlabAllocator::init.  Its safety contract is a single call.             *)
init(h) ==
    /\ ~ initialized
    /\ heap_start' = h.start /\ heap_end' = h.start + h.size
    /\ bump' = h.start
    /\ initialized' = TRUE
    /\ UNCHANGED <<head, mem, live, carved>>

(* alloc_from_bump: where the next bump allocation starts, whether it fits *)
(* (checked_add, then the comparison with heap_end), and its zero fill.    *)
BumpStart(align) == align_up(bump, align)
BumpFits(size, align) ==
    LET end == BumpStart(align) + size IN end < WORD /\ end <= heap_end
ZeroFill(m, start, size) ==
    [a \in Addr |-> IF start <= a /\ a < start + size THEN 0 ELSE m[a]]

(* refill_cache: the blocks of a chunk, in address order, each pushed in   *)
(* front of the previous one, so that the last block ends up at the head.  *)
BlockCountOffByOne(i) == CHUNK_SIZE \div SIZE_CLASSES[i] + 1
BlockCount(i) == CHUNK_SIZE \div SIZE_CLASSES[i]
Blocks(chunk, i) ==
    {chunk + k * SIZE_CLASSES[i] : k \in 0 .. BlockCount(i) - 1}
LastBlock(chunk, i) == chunk + (BlockCount(i) - 1) * SIZE_CLASSES[i]
PushBlocks(m, chunk, i, oldhead) ==
    [a \in Addr |-> IF a \notin Blocks(chunk, i) THEN m[a]
                    ELSE IF a = chunk THEN oldhead
                    ELSE a - SIZE_CLASSES[i]]
Refilled(chunk, i) ==
    PushBlocks(ZeroFill(mem, chunk, CHUNK_SIZE), chunk, i, head[i])

Hold(p, l) == live' = live \cup {[ptr |-> p, layout |-> l]}

(* alloc, fast path: pop the head of the class's free list.                *)
AllocKeepsHead(l) ==
    LET i == class_index_for(l) IN
    /\ initialized /\ HasClass(l) /\ head[i] # NULL
    /\ Hold(head[i], l)
    /\ UNCHANGED <<head, bump, mem, carved, heapvars>>
AllocPop(l) ==
    LET i == class_index_for(l) IN
    /\ initialized /\ HasClass(l) /\ head[i] # NULL
    /\ head' = [head EXCEPT ![i] = mem[head[i]]]
    /\ Hold(head[i], l)
    /\ UNCHANGED <<bump, mem, carved, heapvars>>

(* alloc, empty list: take a chunk, cut it into blocks, pop the last one.  *)
AllocRefillKeepsBump(l) ==
    LET i     == class_index_for(l)
        chunk == BumpStart(CHUNK_SIZE)
        m     == Refilled(chunk, i)
        b     == LastBlock(chunk, i)
    IN  /\ initialized /\ HasClass(l) /\ head[i] = NULL
        /\ BumpFits(CHUNK_SIZE, CHUNK_SIZE)
        /\ bump' = chunk
        /\ mem' = m
        /\ carved' = [carved EXCEPT ![i] = @ \cup Blocks(chunk, i)]
        /\ head' = [head EXCEPT ![i] = m[b]]
        /\ Hold(b, l)
        /\ UNCHANGED heapvars
AllocRefill(l) ==
    LET i     == class_index_for(l)
        chunk == BumpStart(CHUNK_SIZE)
        m     == Refilled(chunk, i)
        b     == LastBlock(chunk, i)
    IN  /\ initialized /\ HasClass(l) /\ head[i] = NULL
        /\ BumpFits(CHUNK_SIZE, CHUNK_SIZE)
        /\ bump' = chunk + CHUNK_SIZE
        /\ mem' = m
        /\ carved' = [carved EXCEPT ![i] = @ \cup Blocks(chunk, i)]
        /\ head' = [head EXCEPT ![i] = m[b]]
        /\ Hold(b, l)
        /\ UNCHANGED heapvars

(* alloc above the largest class: straight from the bump pointer.          *)
AllocLarge(l) ==
    LET p == BumpStart(l.align) IN
    /\ initialized /\ ~ HasClass(l)
    /\ BumpFits(l.size, l.align)
    /\ bump' = p + l.size
    /\ mem' = ZeroFill(mem, p, l.size)
    /\ Hold(p, l)
    /\ UNCHANGED <<head, carved, heapvars>>

(* alloc returning a null pointer.  The chunk of refill_cache, when there  *)
(* is none, is the only thing tried: no other class is searched.           *)
AllocNull(l) ==
    /\ \/ ~ initialized
       \/ /\ HasClass(l) /\ head[class_index_for(l)] = NULL
          /\ ~ BumpFits(CHUNK_SIZE, CHUNK_SIZE)
       \/ ~ HasClass(l) /\ ~ BumpFits(l.size, l.align)
    /\ UNCHANGED vars

alloc(l) == AllocPop(l) \/ AllocRefill(l) \/ AllocLarge(l) \/ AllocNull(l)

(* dealloc of an allocation with the layout it was made with: pushed in    *)
(* front of its class's free list; large allocations are not recycled.     *)
DeallocKeepsNext(r) ==
    LET i == class_index_for(r.layout) IN
    /\ initialized
    /\ live' = live \ {r}
    /\ head' = IF HasClass(r.layout) THEN [head EXCEPT ![i] = r.ptr] ELSE head
    /\ UNCHANGED <<mem, bump, carved, heapvars>>
dealloc(r) ==
    LET i == class_index_for(r.layout) IN
    /\ initialized
    /\ live' = live \ {r}
    /\ IF HasClass(r.layout)
       THEN /\ mem'  = [mem EXCEPT ![r.ptr] = head[i]]
            /\ head' = [head EXCEPT ![i] = r.ptr]
       ELSE UNCHANGED <<mem, head>>
    /\ UNCHANGED <<bump, carved, heapvars>>

(* A caller stores a value in memory it holds, a former link included.     *)
Store(r, a, v) ==
    /\ r.ptr <= a /\ a < r.ptr + r.layout.size
    /\ mem' = [mem EXCEPT ![a] = v]
    /\ UNCHANGED <<bump, head, live, carved, heapvars>>

Next == \/ \E h \in Heaps : init(h)
        \/ \E l \in Layouts : alloc(l)
        \/ \E r \in live : dealloc(r)
        \/ \E r \in live, a \in Addr, v \in Junk : Store(r, a, v)

Spec == Init /\ [][Next]_vars
-----------------------------------------------------------------------------
(* Properties.                                                             *)

TypeOK ==
    /\ heap_start \in Nat /\ heap_end \in Nat /\ bump \in Nat
    /\ head \in [Classes -> Nat]
    /\ initialized \in BOOLEAN
    /\ mem \in [Addr -> Nat]
    /\ live \subseteq [ptr : Nat, layout : Layouts]
    /\ carved \in [Classes -> SUBSET Nat]

Apart(a, m, b, n) == a + m <= b \/ b + n <= a

(* No two allocations that callers hold at the same time share a byte,     *)
(* whatever sequence of alloc and dealloc calls produced them and whatever *)
(* the callers stored in their blocks.                                     *)
NoOverlap ==
    \A r, s \in live : r # s => Apart(r.ptr, r.layout.size, s.ptr, s.layout.size)

(* Every allocation lies in the region given to init, is not null and has  *)
(* the alignment of its layout (alignment_constraints_respected).          *)
WellPlaced ==
    \A r \in live : /\ r.ptr # NULL /\ r.ptr % r.layout.align = 0
                    /\ heap_start <= r.ptr /\ r.ptr + r.layout.size <= heap_end

(* The blocks of class i that no caller holds.                             *)
LivePtrs == {r.ptr : r \in live}
Free(i)  == carved[i] \ LivePtrs

(* What following the links in memory from the head of class i visits.     *)
Reached(i) ==
    LET visit[n \in 0 .. WORD] ==
            IF n = 0 THEN {head[i]} \ {NULL}
            ELSE LET s == visit[n - 1]
                 IN  s \cup ({mem[a] : a \in s} \ {NULL})
    IN  visit[WORD]

(* Nothing is lost: the list that refill_cache and dealloc leave in memory *)
(* leads to every block of the class that no caller holds, and to no other *)
(* memory.                                                                 *)
NoLostBlock == \A i \in Classes : Reached(i) = Free(i)

-----------------------------------------------------------------------------
(* The inductive invariant behind NoOverlap, WellPlaced and NoLostBlock.   *)
(* All but its last part speaks of single blocks and single links only.    *)

(* Before init nothing exists; afterwards the bump pointer stays inside    *)
(* the region, and the region below the point where align_up would wrap.   *)
RegionInv ==
    /\ ~ initialized => /\ heap_start = 0 /\ heap_end = 0 /\ live = {}
                        /\ \A i \in Classes : head[i] = NULL /\ carved[i] = {}
    /\ initialized =>
          /\ 0 < heap_start /\ heap_start <= bump /\ bump <= heap_end
          /\ heap_end + CHUNK_SIZE <= WORD
          /\ \A l \in Layouts : heap_end + l.align <= WORD

(* Blocks are aligned to their class, lie below the bump pointer, and do   *)
(* not share a byte with any other block, of the same class or another.    *)
BlocksInv ==
    /\ \A i \in Classes : \A a \in carved[i] :
          /\ heap_start <= a /\ a + SIZE_CLASSES[i] <= bump
          /\ a % SIZE_CLASSES[i] = 0
    /\ \A i, j \in Classes : \A a \in carved[i], b \in carved[j] :
          (i # j \/ a # b) => Apart(a, SIZE_CLASSES[i], b, SIZE_CLASSES[j])

(* An allocation is a block of its class, or a large one that lies below   *)
(* the bump pointer apart from every block and every other large one; and  *)
(* no address is held twice.                                               *)
LiveInv ==
    /\ \A r \in live : HasClass(r.layout) =>
                          r.ptr \in carved[class_index_for(r.layout)]
    /\ \A r \in live : ~ HasClass(r.layout) =>
          /\ heap_start <= r.ptr /\ r.ptr + r.layout.size <= bump
          /\ r.ptr % r.layout.align = 0
          /\ \A i \in Classes : \A b \in carved[i] :
                Apart(r.ptr, r.layout.size, b, SIZE_CLASSES[i])
          /\ \A s \in live : (s # r /\ ~ HasClass(s.layout)) =>
                Apart(r.ptr, r.layout.size, s.ptr, s.layout.size)
    /\ \A r, s \in live : r.ptr = s.ptr => r = s

(* A head is null or a free block of its class, and so is the link in a    *)
(* free block; no link leads to the head, and no two lead to one block, so *)
(* that popping the head never leaves a second way to it.                  *)
ListsInv ==
    \A i \in Classes :
       /\ head[i] # NULL => head[i] \in Free(i)
       /\ \A a \in Free(i) : mem[a] # NULL =>
             /\ mem[a] \in Free(i) /\ mem[a] # head[i]
             /\ \A b \in Free(i) : b # a => mem[b] # mem[a]

(* The list of a class leaves no free block out: a set of free blocks that *)
(* has the head, and with each block the one its link leads to, has them   *)
(* all.                                                                    *)
Complete(i) ==
    \A S \in SUBSET Free(i) :
       (/\ head[i] # NULL => head[i] \in S
        /\ \A a \in S : mem[a] # NULL => mem[a] \in S) => S = Free(i)
CompleteInv == \A i \in Classes : Complete(i)

SafeInv == TypeOK /\ RegionInv /\ BlocksInv /\ LiveInv /\ ListsInv
IInv    == SafeInv /\ CompleteInv

(* The slab allocator implements the abstract allocator: each alloc that   *)
(* answers with a pointer grants fresh, aligned memory of the region.      *)
Abstract == INSTANCE GlobalAlloc
ImplementsGlobalAlloc == Abstract!Spec
=============================================================================
