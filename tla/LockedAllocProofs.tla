------------------------- MODULE LockedAllocProofs --------------------------
(***************************************************************************)
(* Proofs about LockedAlloc for any number of threads, any heap, layouts   *)
(* and class table.  The lock is what carries them: a thread inside the    *)
(* critical section is alone there, so what it has read is still so when   *)
(* it stores, and its stores make up the whole calls of SlabAllocator,     *)
(* whose lemmas then apply.  The refill alone is not one call but many     *)
(* single pushes; its two steps come first.                                *)
(***************************************************************************)
EXTENDS LockedAlloc, SlabAllocatorProofs

(* The bump pointer moves past a new chunk, of which nothing is cut yet.   *)
LEMMA ChunkStep ==
    ASSUME SafeInv, CompleteInv, initialized, BumpFits(CHUNK_SIZE, CHUNK_SIZE),
           bump' = BumpStart(CHUNK_SIZE) + CHUNK_SIZE,
           mem' = ZeroFill(mem, BumpStart(CHUNK_SIZE), CHUNK_SIZE),
           UNCHANGED <<heap_start, heap_end, initialized, head, live, carved>>
    PROVE  SafeInv' /\ CompleteInv'
<1> DEFINE chunk == BumpStart(CHUNK_SIZE)
<1>1. CHUNK_SIZE \in Nat \ {0} /\ heap_end + CHUNK_SIZE <= WORD
  BY Sizes DEF SafeInv, RegionInv
<1>2. /\ chunk \in Nat /\ bump <= chunk /\ chunk + CHUNK_SIZE <= heap_end
      /\ bump \in Nat /\ heap_start \in Nat /\ heap_end \in Nat
      /\ 0 < heap_start /\ heap_start <= bump
  BY <1>1, BumpSpan
<1>3. /\ mem' \in [Addr -> Nat]
      /\ \A j \in Classes : \A a \in carved[j] : mem'[a] = mem[a]
  BY <1>1, <1>2, ZeroFillStep
<1> HIDE DEF chunk
<1>4. bump' \in Nat /\ bump <= bump' /\ bump' <= heap_end
  BY <1>1, <1>2 DEF chunk
<1>5. TypeOK'
  BY <1>3, <1>4 DEF SafeInv, TypeOK
<1>6. RegionInv'
  BY <1>2, <1>4 DEF SafeInv, RegionInv
<1>7. BlocksInv'
  <2>1. \A i \in Classes : \A a \in carved[i] :
           a \in Nat /\ SIZE_CLASSES[i] \in Nat /\ a + SIZE_CLASSES[i] <= bump
    BY Sizes DEF SafeInv, TypeOK, BlocksInv
  <2>2. \A i \in Classes : \A a \in carved[i] : a + SIZE_CLASSES[i] <= bump'
    BY <1>2, <1>4, <2>1
  <2>3. QED
    BY <2>2 DEF SafeInv, BlocksInv
<1>8. LiveInv'
  <2>1. \A r \in live : /\ r.ptr \in Nat /\ r.layout.size \in Nat
                        /\ r.ptr + r.layout.size <= bump
    BY LiveSpan, Sizes
  <2>2. \A r \in live : r.ptr + r.layout.size <= bump'
    BY <1>2, <1>4, <2>1
  <2>3. QED
    BY <2>2 DEF SafeInv, LiveInv
<1>9. \A j \in Classes : /\ Free(j)' = Free(j)
                         /\ \A a \in Free(j) : mem'[a] = mem[a]
  BY <1>3 DEF Free, LivePtrs
<1>10. ListsInv'
  BY <1>9 DEF SafeInv, ListsInv
<1>11. CompleteInv'
  BY <1>9, SameList DEF CompleteInv
<1>12. QED
  BY <1>5, <1>6, <1>7, <1>8, <1>10, <1>11 DEF SafeInv

(* A block that was never a block, linked to the head and apart from all   *)
(* that exists, becomes the head.                                          *)
LEMMA PushNewStep ==
    ASSUME SafeInv, CompleteInv, initialized, NEW i \in Classes, NEW b \in Nat,
           heap_start <= b, b % SIZE_CLASSES[i] = 0, b + SIZE_CLASSES[i] <= bump,
           \A j \in Classes : \A a \in carved[j] :
              Apart(b, SIZE_CLASSES[i], a, SIZE_CLASSES[j]),
           \A r \in live : ~ HasClass(r.layout) =>
              Apart(b, SIZE_CLASSES[i], r.ptr, r.layout.size),
           mem[b] = head[i],
           head' = [head EXCEPT ![i] = b],
           carved' = [carved EXCEPT ![i] = @ \cup {b}],
           UNCHANGED <<heap_start, heap_end, initialized, bump, mem, live>>
    PROVE  SafeInv' /\ CompleteInv'
<1>1. /\ head'[i] = b /\ carved'[i] = carved[i] \cup {b}
      /\ \A j \in Classes : j # i => head'[j] = head[j] /\ carved'[j] = carved[j]
  BY DEF SafeInv, TypeOK
<1>2. /\ SIZE_CLASSES[i] \in Nat \ {0} /\ b # NULL
      /\ \A j \in Classes : SIZE_CLASSES[j] \in Nat \ {0}
                            /\ carved[j] \in SUBSET Nat
  BY Sizes DEF SafeInv, TypeOK, RegionInv, NULL
<1>3. \A j \in Classes : b \notin carved[j]
  BY <1>2 DEF Apart
<1>4. TypeOK'
  BY DEF SafeInv, TypeOK
<1>5. RegionInv'
  BY DEF SafeInv, RegionInv
<1>6. BlocksInv'
  <2>1. \A j \in Classes : \A a \in carved'[j] :
           /\ heap_start' <= a /\ a + SIZE_CLASSES[j] <= bump'
           /\ a % SIZE_CLASSES[j] = 0
    BY <1>1 DEF SafeInv, BlocksInv
  <2>2. ASSUME NEW j \in Classes, NEW k \in Classes,
               NEW a \in carved'[j], NEW e \in carved'[k], j # k \/ a # e
        PROVE  Apart(a, SIZE_CLASSES[j], e, SIZE_CLASSES[k])
    <3>1. CASE a \in carved[j] /\ e \in carved[k]
      BY <2>2, <3>1 DEF SafeInv, BlocksInv
    <3>2. CASE a = b /\ j = i /\ e \in carved[k]
      BY <3>2
    <3>3. CASE a \in carved[j] /\ e = b /\ k = i
      <4>1. Apart(b, SIZE_CLASSES[i], a, SIZE_CLASSES[j])
        BY <3>3
      <4>2. QED
        BY <3>3, <4>1 DEF Apart
    <3>4. QED
      BY <1>1, <2>2, <3>1, <3>2, <3>3
  <2>3. QED
    BY <2>1, <2>2 DEF BlocksInv
<1>7. LiveInv'
  <2>1. \A r \in live : HasClass(r.layout) =>
           r.ptr \in carved'[class_index_for(r.layout)]
    <3>1. \A r \in live : HasClass(r.layout) =>
             /\ class_index_for(r.layout) \in Classes
             /\ r.ptr \in carved[class_index_for(r.layout)]
      BY ClassIndex DEF SafeInv, LiveInv
    <3>2. QED
      BY <1>1, <3>1
  <2>2. ASSUME NEW r \in live, ~ HasClass(r.layout),
               NEW j \in Classes, NEW a \in carved'[j]
        PROVE  Apart(r.ptr, r.layout.size, a, SIZE_CLASSES[j])
    <3>1. CASE a \in carved[j]
      BY <2>2, <3>1 DEF SafeInv, LiveInv
    <3>2. CASE a = b /\ j = i
      <4>1. Apart(b, SIZE_CLASSES[i], r.ptr, r.layout.size)
        BY <2>2
      <4>2. QED
        BY <3>2, <4>1 DEF Apart
    <3>3. QED
      BY <1>1, <3>1, <3>2
  <2>3. QED
    BY <2>1, <2>2 DEF SafeInv, LiveInv
<1>8. /\ Free(i)' = Free(i) \cup {b} /\ b \notin Free(i)
      /\ \A j \in Classes : j # i => Free(j)' = Free(j)
  <2>1. b \notin LivePtrs
    <3> SUFFICES ASSUME NEW r \in live, r.ptr = b PROVE FALSE
      BY DEF LivePtrs
    <3>1. ~ HasClass(r.layout)
      BY <1>3, ClassIndex DEF SafeInv, LiveInv
    <3>2. r.layout.size \in Nat \ {0}
      BY Sizes DEF SafeInv, TypeOK
    <3>3. Apart(b, SIZE_CLASSES[i], r.ptr, r.layout.size)
      BY <3>1
    <3>4. QED
      BY <1>2, <3>2, <3>3 DEF Apart
  <2>2. LivePtrs' = LivePtrs
    BY DEF LivePtrs
  <2>3. QED
    BY <1>1, <1>3, <2>1, <2>2 DEF Free
<1>9. /\ head[i] # NULL => head[i] \in Free(i)
      /\ \A a \in Free(i) : mem[a] # NULL =>
            /\ mem[a] \in Free(i) /\ mem[a] # head[i]
            /\ \A e \in Free(i) : e # a => mem[e] # mem[a]
  BY DEF SafeInv, ListsInv
<1>10. ASSUME NEW j \in Classes
       PROVE  /\ head'[j] # NULL => head'[j] \in Free(j)'
              /\ \A a \in Free(j)' : mem'[a] # NULL =>
                    /\ mem'[a] \in Free(j)' /\ mem'[a] # head'[j]
                    /\ \A e \in Free(j)' : e # a => mem'[e] # mem'[a]
  <2>1. CASE j = i
    BY <1>1, <1>8, <1>9, <2>1
  <2>2. CASE j # i
    BY <1>1, <1>8, <2>2 DEF SafeInv, ListsInv
  <2>3. QED
    BY <2>1, <2>2
<1>11. Complete(i)'
  <2>1. Whole(head[i], mem, Free(i))
    BY CompleteIsWhole DEF CompleteInv
  <2>2. Whole(b, mem, Free(i) \cup {b})
    BY <1>2, <1>8, <1>9, <2>1, WholePush
  <2>3. QED
    BY <1>1, <1>8, <2>2, CompleteIsWhole
<1>12. CompleteInv'
  BY <1>1, <1>8, <1>11, SameList DEF CompleteInv
<1>13. ListsInv'
  BY <1>10 DEF ListsInv
<1>14. QED
  BY <1>4, <1>5, <1>6, <1>7, <1>12, <1>13 DEF SafeInv
-----------------------------------------------------------------------------
(* Chunks are aligned, so every address in a chunk has the same end of it, *)
(* which is the address itself plus a chunk at the chunk's start.          *)
LEMMA ChunkEnds ==
    ASSUME NEW b \in Nat
    PROVE  /\ ChunkEnd(b) \in Nat /\ b < ChunkEnd(b)
           /\ b % CHUNK_SIZE = 0 => ChunkEnd(b) = b + CHUNK_SIZE
           /\ \A a \in Nat : b <= a /\ a < ChunkEnd(b) => ChunkEnd(a) = ChunkEnd(b)
<1> DEFINE c == CHUNK_SIZE
<1>1. c \in Nat \ {0}
  BY Sizes
<1> HIDE DEF c
<1>2. ASSUME NEW a \in Nat
      PROVE  /\ a = c * (a \div c) + (a % c) /\ a \div c \in Nat
             /\ a % c \in 0 .. c - 1
             /\ a % c = a - (a \div c) * c /\ (a \div c) * c \in Nat
  <2>1. a = c * (a \div c) + (a % c) /\ a \div c \in Nat /\ a % c \in 0 .. c - 1
    BY <1>1, SMT
  <2>2. (a \div c) * c = c * (a \div c) /\ (a \div c) * c \in Nat
    BY <1>1, <2>1, SMT
  <2>3. QED
    BY <1>1, <2>1, <2>2
<1>3. \A a \in Nat : ChunkEnd(a) = (a - (a % c)) + c
  BY DEF ChunkEnd, c
<1>4. ASSUME NEW a \in Nat PROVE ChunkEnd(a) = (a \div c) * c + c
  <2> DEFINE x == (a \div c) * c
             y == a % c
  <2>1. x \in Nat /\ y = a - x /\ ChunkEnd(a) = (a - y) + c
    BY <1>2, <1>3
  <2> HIDE DEF x, y
  <2>2. ChunkEnd(a) = x + c
    BY <1>1, <2>1
  <2>3. QED
    BY <2>2 DEF x
<1>5. ChunkEnd(b) \in Nat /\ b < ChunkEnd(b)
  <2> DEFINE y == b % c
  <2>1. y \in 0 .. c - 1 /\ ChunkEnd(b) = (b - y) + c /\ b - y \in Nat
    <3>1. /\ y \in 0 .. c - 1 /\ ChunkEnd(b) = (b - y) + c
          /\ (b \div c) * c \in Nat /\ y = b - (b \div c) * c
      BY <1>2, <1>3
    <3> DEFINE x == (b \div c) * c
    <3> HIDE DEF x, y
    <3>2. x \in Nat /\ y = b - x
      BY <3>1 DEF x
    <3>3. QED
      BY <3>1, <3>2
  <2> HIDE DEF y
  <2>2. QED
    BY <1>1, <2>1
<1>6. b % c = 0 => ChunkEnd(b) = b + c
  BY <1>1, <1>3
<1>7. ASSUME NEW a \in Nat, b <= a, a < ChunkEnd(b)
      PROVE  ChunkEnd(a) = ChunkEnd(b)
  <2> DEFINE p == a \div c
             q == b \div c
  <2>1. p \in Nat /\ q \in Nat
    BY <1>2
  <2>2. /\ p * c \in Nat /\ q * c \in Nat
        /\ p * c <= a /\ a < p * c + c /\ q * c <= b
        /\ ChunkEnd(b) = q * c + c /\ ChunkEnd(a) = p * c + c
    <3>1. /\ a % c = a - p * c /\ p * c \in Nat /\ a % c \in 0 .. c - 1
          /\ b % c = b - q * c /\ q * c \in Nat /\ b % c \in 0 .. c - 1
      BY <1>2
    <3>2. ChunkEnd(b) = q * c + c /\ ChunkEnd(a) = p * c + c
      BY <1>4
    <3> DEFINE pc1 == p * c
               qc1 == q * c
    <3> HIDE DEF p, q
    <3>3. pc1 <= a /\ a < pc1 + c /\ qc1 <= b
      <4> HIDE DEF pc1, qc1
      <4>1. /\ a % c = a - pc1 /\ pc1 \in Nat /\ a % c \in 0 .. c - 1
            /\ b % c = b - qc1 /\ qc1 \in Nat /\ b % c \in 0 .. c - 1
        BY <3>1 DEF pc1, qc1
      <4>2. QED
        BY <1>1, <4>1
    <3>4. QED
      BY <3>1, <3>2, <3>3
  <2> HIDE DEF p, q
  <2>3. p < q => p * c + c <= q * c
    BY <1>1, <2>1, MulGap
  <2>4. q < p => q * c + c <= p * c
    BY <1>1, <2>1, MulGap
  <2> DEFINE pp == p * c
             qq == q * c
  <2>5. /\ pp \in Nat /\ qq \in Nat /\ pp <= a /\ a < pp + c /\ qq <= b
        /\ ChunkEnd(b) = qq + c
        /\ (p < q => pp + c <= qq) /\ (q < p => qq + c <= pp)
    BY <2>2, <2>3, <2>4
  <2> HIDE DEF pp, qq
  <2>6. ~ (p < q) /\ ~ (q < p)
    BY <1>1, <1>7, <2>5
  <2>7. p = q
    BY <2>1, <2>6
  <2>8. QED
    BY <2>2, <2>7
<1>8. QED
  BY <1>5, <1>6, <1>7 DEF c

(* A block of a class is no longer than a chunk.                           *)
LEMMA ClassInChunk ==
    ASSUME NEW i \in Classes
    PROVE  SIZE_CLASSES[i] <= CHUNK_SIZE
<1>1. SIZE_CLASSES[i] \in Nat \ {0} /\ CHUNK_SIZE \in Nat \ {0}
      /\ CHUNK_SIZE % SIZE_CLASSES[i] = 0
  BY Sizes, ClassAssumption
<1>2. CHUNK_SIZE < SIZE_CLASSES[i] => CHUNK_SIZE % SIZE_CLASSES[i] = CHUNK_SIZE
  BY <1>1, SMT
<1>3. QED
  BY <1>1, <1>2

(* A chunk from the bump pointer is uncut as a whole.                      *)
LEMMA NewChunkUncut ==
    ASSUME SafeInv, initialized, BumpFits(CHUNK_SIZE, CHUNK_SIZE),
           NEW i \in Classes, NEW b, b = BumpStart(CHUNK_SIZE),
           bump' = b + CHUNK_SIZE, UNCHANGED <<heap_start, live, carved>>
    PROVE  Uncut(b, i)'
<1>1. CHUNK_SIZE \in Nat \ {0} /\ heap_end + CHUNK_SIZE <= WORD
      /\ SIZE_CLASSES[i] \in Nat \ {0} /\ CHUNK_SIZE % SIZE_CLASSES[i] = 0
  BY Sizes, ClassAssumption DEF SafeInv, RegionInv
<1>2. /\ b \in Nat /\ bump <= b /\ b % CHUNK_SIZE = 0
      /\ bump \in Nat /\ heap_start \in Nat /\ heap_start <= bump
  BY <1>1, BumpSpan
<1>3. ChunkEnd(b) = b + CHUNK_SIZE
  BY <1>2, ChunkEnds
<1>4. b % SIZE_CLASSES[i] = 0
  BY <1>1, <1>2, ModTrans
<1>5. ASSUME NEW j \in Classes, NEW a \in carved[j]
      PROVE  Apart(b, ChunkEnd(b) - b, a, SIZE_CLASSES[j])
  <2>1. a \in Nat /\ SIZE_CLASSES[j] \in Nat /\ a + SIZE_CLASSES[j] <= bump
    BY Sizes DEF SafeInv, TypeOK, BlocksInv
  <2>2. QED
    BY <1>2, <2>1 DEF Apart
<1>6. ASSUME NEW r \in live
      PROVE  Apart(b, ChunkEnd(b) - b, r.ptr, r.layout.size)
  <2>1. r.ptr \in Nat /\ r.layout.size \in Nat /\ r.ptr + r.layout.size <= bump
    BY LiveSpan, Sizes
  <2>2. QED
    BY <1>2, <2>1 DEF Apart
<1>7. heap_start <= b /\ b + SIZE_CLASSES[i] <= ChunkEnd(b) /\ ChunkEnd(b) <= bump'
  BY <1>1, <1>2, <1>3, ClassInChunk
<1>8. QED
  BY <1>4, <1>5, <1>6, <1>7 DEF Uncut, ChunkEnd

(* What is left of an uncut chunk once its first block is a block.         *)
LEMMA RestUncut ==
    ASSUME SafeInv, NEW i \in Classes, NEW b \in Nat, Uncut(b, i),
           NEW off, off = b + SIZE_CLASSES[i],
           off + SIZE_CLASSES[i] <= ChunkEnd(b),
           carved' = [carved EXCEPT ![i] = @ \cup {b}],
           UNCHANGED <<heap_start, bump, live>>
    PROVE  Uncut(off, i)'
<1> DEFINE c == SIZE_CLASSES[i]
           end == ChunkEnd(b)
<1>1. /\ c \in Nat \ {0} /\ end \in Nat /\ off \in Nat /\ off = b + c
      /\ heap_start \in Nat
  BY Sizes, ChunkEnds DEF SafeInv, TypeOK
<1>2. /\ heap_start <= b /\ b % c = 0 /\ end <= bump
      /\ \A j \in Classes : \A a \in carved[j] :
            Apart(b, end - b, a, SIZE_CLASSES[j])
      /\ \A r \in live : ~ HasClass(r.layout) =>
            Apart(b, end - b, r.ptr, r.layout.size)
  BY DEF Uncut
<1>3. off % c = 0
  <2>1. (b + 1 * c) % c = 0
    BY <1>1, <1>2, ModAdd
  <2>2. b + 1 * c = off
    BY <1>1
  <2>3. QED
    BY <2>1, <2>2
<1>4. ChunkEnd(off) = end
  BY <1>1, ChunkEnds
<1> HIDE DEF c, end
<1>5. \A j \in Classes : \A a \in carved[j] :
         a \in Nat /\ SIZE_CLASSES[j] \in Nat
  BY Sizes DEF SafeInv, TypeOK
<1>6. \A r \in live : r.ptr \in Nat /\ r.layout.size \in Nat
  BY Sizes DEF SafeInv, TypeOK
<1>7. off + c <= end
  BY DEF c, end
<1>8. ASSUME NEW j \in Classes, NEW a \in carved'[j]
      PROVE  Apart(off, end - off, a, SIZE_CLASSES[j])
  <2>1. CASE a \in carved[j]
    <3>1. Apart(b, end - b, a, SIZE_CLASSES[j])
      BY <1>2, <2>1
    <3>2. QED
      BY <1>1, <1>5, <1>7, <2>1, <3>1 DEF Apart
  <2>2. CASE j = i /\ a = b
    BY <1>1, <2>2 DEF Apart, c
  <2>3. QED
    BY <2>1, <2>2 DEF SafeInv, TypeOK
<1>9. ASSUME NEW r \in live, ~ HasClass(r.layout)
      PROVE  Apart(off, end - off, r.ptr, r.layout.size)
  <2>1. Apart(b, end - b, r.ptr, r.layout.size)
    BY <1>2, <1>9
  <2>2. QED
    BY <1>1, <1>6, <1>7, <2>1 DEF Apart
<1>10. heap_start <= off
  BY <1>1, <1>2
<1>11. ChunkEnd(off)' = ChunkEnd(off)
  BY DEF ChunkEnd
<1>12. QED
  BY <1>2, <1>3, <1>4, <1>7, <1>8, <1>9, <1>10, <1>11 DEF Uncut, c

-----------------------------------------------------------------------------
(* The threads.                                                            *)
InsidePCs == PCs \ {"idle", "lock"}

(* A call of alloc or dealloc has a layout of the ones callers use.        *)
LEMMA CallLayout ==
    ASSUME LockedInv, NEW t \in Threads, call[t].kind \in {"alloc", "dealloc"}
    PROVE  /\ Layout(t) \in Layouts
           /\ Small(t) => Class(t) \in Classes /\ Block(t) = SIZE_CLASSES[Class(t)]
<1>1. Layout(t) \in Layouts
  BY DEF LockedInv, CallInv, InCall, Layout, NoCall
<1>2. QED
  BY <1>1, ClassIndex DEF Small, Class, Block

(* The class of a call does not change while the call is running.          *)
LEMMA SameCall ==
    ASSUME NEW t \in Threads, call' = call
    PROVE  /\ Layout(t)' = Layout(t) /\ Class(t)' = Class(t)
           /\ Small(t)' = Small(t) /\ Block(t)' = Block(t)
BY DEF Layout, Class, Small, Block

(* A step inside the critical section: the other threads are outside and   *)
(* know nothing of the allocator that could have become false.             *)
LEMMA InnerFrame ==
    ASSUME LockedInv, NEW t \in Threads, Inside(t), NEW l \in InsidePCs, NEW x \in Nat,
           pc' = [pc EXCEPT ![t] = l], reg' = [reg EXCEPT ![t] = x],
           UNCHANGED <<held, locked, call>>,
           call[t].kind = "init" => l = "drop",
           initialized' = initialized \/ call[t].kind = "init",
           SafeInv', CompleteInv', InCall(t)', Knows(t)', HandsInv'
    PROVE  LockedInv'
<1>1. /\ pc \in [Threads -> PCs] /\ reg \in [Threads -> Nat]
      /\ pc' \in [Threads -> PCs] /\ reg' \in [Threads -> Nat]
      /\ pc'[t] = l /\ l \notin {"idle", "lock"}
      /\ \A u \in Threads : u # t => pc'[u] = pc[u] /\ reg'[u] = reg[u]
  BY DEF LockedInv, ThreadsTypeOK, InsidePCs
<1>2. \A u \in Threads : u # t => pc[u] \in {"idle", "lock"}
  BY DEF LockedInv, MutualExclusion, Inside
<1>3. ASSUME NEW u \in Threads PROVE Knows(u)'
  <2>1. CASE u = t
    BY <2>1
  <2>2. CASE u # t
    <3>1. pc'[u] \in {"idle", "lock"} /\ reg'[u] = NULL
      BY <1>1, <1>2, <2>2 DEF LockedInv, ReadInv, Knows
    <3>2. QED
      BY <3>1 DEF Knows
  <2>3. QED
    BY <2>1, <2>2
<1>4. ASSUME NEW u \in Threads PROVE InCall(u)'
  <2>1. CASE u = t
    BY <2>1
  <2>2. CASE u # t
    BY <1>1, <2>2 DEF LockedInv, CallInv, InCall
  <2>3. QED
    BY <2>1, <2>2
<1>5. CallInv'
  BY <1>1, <1>4 DEF LockedInv, CallInv
<1>6. MutualExclusion'
  BY <1>1, <1>2 DEF LockedInv, MutualExclusion, Inside
<1>7. ThreadsTypeOK'
  <2>1. ASSUME NEW u \in Threads
        PROVE  /\ call'[u].kind \in {"none", "init", "alloc", "dealloc"}
               /\ call'[u].kind = "none" <=> pc'[u] = "idle"
    BY <1>4 DEF InCall, NoCall, AllocPCs, DeallocPCs
  <2>2. TypeOK' /\ locked' \in BOOLEAN
    BY DEF SafeInv, LockedInv, ThreadsTypeOK
  <2>3. QED
    BY <1>1, <2>1, <2>2 DEF ThreadsTypeOK
<1>8. QED
  BY <1>3, <1>5, <1>6, <1>7 DEF LockedInv, IInv, ReadInv

(* Who has what, when a step inside neither takes memory nor puts it back. *)
LEMMA QuietHands ==
    ASSUME LockedInv, NEW t \in Threads, Inside(t), NEW l \in InsidePCs, NEW x \in Nat,
           pc' = [pc EXCEPT ![t] = l], reg' = [reg EXCEPT ![t] = x],
           UNCHANGED <<held, call, live>>,
           call[t].kind = "dealloc" => pc[t] # "drop",
           ~ (call[t].kind = "alloc" /\ l = "drop" /\ x # NULL)
    PROVE  HandsInv'
<1>1. /\ pc \in [Threads -> PCs] /\ reg \in [Threads -> Nat]
      /\ pc'[t] = l /\ reg'[t] = x
      /\ \A u \in Threads : u # t => pc'[u] = pc[u] /\ reg'[u] = reg[u]
  BY DEF LockedInv, ThreadsTypeOK
<1>2. \A u \in Threads : u # t => pc[u] \in {"idle", "lock"}
  BY DEF LockedInv, MutualExclusion, Inside
<1>3. \A u \in Threads : ~ Granting(u)'
  BY <1>1, <1>2 DEF Granting
<1>4. \A u \in Threads : Releasing(u)' => Releasing(u)
  BY <1>1 DEF Releasing
<1>5. QED
  BY <1>3, <1>4 DEF LockedInv, HandsInv

(* ... when it takes fresh memory for its caller ...                       *)
LEMMA GrantHands ==
    ASSUME LockedInv, NEW t \in Threads, Inside(t), call[t].kind = "alloc",
           pc' = [pc EXCEPT ![t] = "drop"], UNCHANGED <<held, call, reg>>,
           live' = live \cup {Granted(t)}, Granted(t) \notin live
    PROVE  HandsInv'
<1>1. /\ pc \in [Threads -> PCs] /\ pc'[t] = "drop"
      /\ \A u \in Threads : u # t => pc'[u] = pc[u]
  BY DEF LockedInv, ThreadsTypeOK
<1>2. \A u \in Threads : u # t => pc[u] \in {"idle", "lock"}
  BY DEF LockedInv, MutualExclusion, Inside
<1>3. \A u \in Threads : Granting(u)' => u = t
  BY <1>1, <1>2 DEF Granting
<1>4. \A u \in Threads : Releasing(u)' => Releasing(u) /\ u # t
  BY <1>1 DEF Releasing
<1>5. \A u \in Threads : Granted(u)' = Granted(u)
  BY DEF Granted
<1>6. QED
  BY <1>3, <1>4, <1>5 DEF LockedInv, HandsInv

(* ... and when it puts back what its caller gave up.                      *)
LEMMA ReleaseHands ==
    ASSUME LockedInv, NEW t \in Threads, Inside(t), Releasing(t),
           pc' = [pc EXCEPT ![t] = "drop"], UNCHANGED <<held, call, reg>>,
           live' = live \ {call[t].arg}
    PROVE  HandsInv'
<1>1. /\ pc \in [Threads -> PCs] /\ pc'[t] = "drop"
      /\ \A u \in Threads : u # t => pc'[u] = pc[u]
  BY DEF LockedInv, ThreadsTypeOK
<1>2. \A u \in Threads : u # t => pc[u] \in {"idle", "lock"}
  BY DEF LockedInv, MutualExclusion, Inside
<1>3. \A u \in Threads : ~ Granting(u)'
  BY <1>1, <1>2 DEF Granting, Releasing
<1>4. \A u \in Threads : Releasing(u)' => Releasing(u) /\ u # t
  BY <1>1 DEF Releasing
<1>5. QED
  BY <1>3, <1>4 DEF LockedInv, HandsInv
-----------------------------------------------------------------------------
(* The steps of a thread inside the critical section.                      *)

(* init, the whole of SlabAllocator::init.                                 *)
LEMMA SetRegionKeeps ==
    ASSUME LockedInv, NEW t \in Threads, SetRegion(t)
    PROVE  LockedInv'
<1>1. pc[t] = "init" /\ call[t].kind = "init" /\ call[t].arg \in Heaps
  BY DEF SetRegion, LockedInv, CallInv, InCall, NoCall, AllocPCs, DeallocPCs
<1>2. ~ initialized
  BY <1>1 DEF LockedInv, CallInv
<1>3. init(call[t].arg)
  BY <1>2 DEF SetRegion, init
<1>4. SafeInv' /\ CompleteInv'
  BY <1>1, <1>3, InitStep DEF LockedInv, IInv
<1>5. /\ reg \in [Threads -> Nat] /\ reg[t] \in Nat /\ pc \in [Threads -> PCs]
      /\ reg' = [reg EXCEPT ![t] = reg[t]] /\ pc'[t] = "drop"
      /\ pc' = [pc EXCEPT ![t] = "drop"]
      /\ "drop" \in InsidePCs /\ Inside(t)
  BY <1>1 DEF SetRegion, Goto, LockedInv, ThreadsTypeOK, InsidePCs, PCs, Inside
<1>6. InCall(t)' /\ Knows(t)'
  BY <1>1, <1>5 DEF SetRegion, InCall, Knows
<1>7. HandsInv'
  BY <1>1, <1>5, QuietHands DEF SetRegion
<1>8. QED
  BY <1>1, <1>4, <1>5, <1>6, <1>7, InnerFrame DEF SetRegion

(* A step that leaves the allocator as it is, and only reads.              *)
LEMMA ReadStep ==
    ASSUME LockedInv, NEW t \in Threads, Inside(t), NEW l \in InsidePCs, NEW x \in Nat,
           pc' = [pc EXCEPT ![t] = l], reg' = [reg EXCEPT ![t] = x],
           UNCHANGED <<vars, held, locked, call>>,
           call[t].kind = "alloc", l \in AllocPCs, l = "drop" => x = NULL,
           Knows(t)'
    PROVE  LockedInv'
<1>1. SafeInv' /\ CompleteInv'
  BY StutterStep DEF LockedInv, IInv
<1>2. pc'[t] = l /\ UNCHANGED <<initialized, live>>
  BY DEF LockedInv, ThreadsTypeOK, vars
<1>3. InCall(t)'
  BY <1>2 DEF LockedInv, CallInv, InCall, NoCall
<1>4. HandsInv'
  BY <1>2, QuietHands
<1>5. QED
  BY <1>1, <1>2, <1>3, <1>4, InnerFrame

(* alloc reads what decides its path.                                      *)
LEMMA ChoosePathKeeps ==
    ASSUME LockedInv, NEW t \in Threads, ChoosePath(t)
    PROVE  LockedInv'
<1> DEFINE l == CASE ~ initialized                       -> "drop"
                  [] initialized /\ ~ Small(t)           -> "large"
                  [] initialized /\ Small(t)
                        /\ head[Class(t)] = NULL         -> "refill"
                  [] OTHER                               -> "head"
<1>1. pc[t] = "alloc" /\ call[t].kind = "alloc" /\ reg[t] = NULL
  BY DEF ChoosePath, LockedInv, CallInv, InCall, NoCall, DeallocPCs, ReadInv, Knows
<1>2. /\ pc' = [pc EXCEPT ![t] = l] /\ UNCHANGED <<vars, held, locked, call, reg>>
  BY DEF ChoosePath, Goto
<1>3. /\ l \in {"drop", "large", "refill", "head"}
      /\ l # "drop" => initialized
      /\ l = "large" => ~ Small(t)
      /\ l \in {"refill", "head"} => Small(t)
      /\ l = "head" => head[Class(t)] # NULL
  OBVIOUS
<1> HIDE DEF l
<1>4. /\ reg \in [Threads -> Nat] /\ reg[t] \in Nat /\ pc \in [Threads -> PCs]
      /\ reg' = [reg EXCEPT ![t] = reg[t]] /\ pc'[t] = l /\ reg'[t] = NULL
      /\ l \in InsidePCs /\ l \in AllocPCs /\ Inside(t)
  BY <1>1, <1>2, <1>3
     DEF LockedInv, ThreadsTypeOK, InsidePCs, PCs, Inside, AllocPCs
<1>5. initialized' = initialized /\ head' = head
  BY <1>2 DEF vars
<1>6. Knows(t)'
  BY <1>2, <1>3, <1>4, <1>5, SameCall DEF Knows
<1>7. QED
  BY <1>1, <1>2, <1>4, <1>6, ReadStep

(* alloc_from_bump reads the bump pointer, for a large allocation ...      *)
LEMMA LargeStartKeeps ==
    ASSUME LockedInv, NEW t \in Threads, LargeStart(t)
    PROVE  LockedInv'
<1>1. /\ pc[t] = "large" /\ call[t].kind = "alloc" /\ reg[t] = NULL
      /\ initialized /\ ~ Small(t)
  BY DEF LargeStart, LockedInv, CallInv, InCall, NoCall, DeallocPCs, ReadInv, Knows
<1>2. /\ UNCHANGED <<vars, held, locked, call>>
      /\ reg \in [Threads -> Nat] /\ reg[t] \in Nat /\ pc \in [Threads -> PCs]
      /\ Inside(t)
  BY <1>1 DEF LargeStart, ReadBump, LockedInv, ThreadsTypeOK, Inside
<1>3. UNCHANGED <<initialized, bump, heap_end>>
  BY <1>2 DEF vars
<1>4. CASE BumpFits(Layout(t).size, Layout(t).align)
  <2> DEFINE x == BumpStart(Layout(t).align)
  <2>1. reg' = [reg EXCEPT ![t] = x] /\ pc' = [pc EXCEPT ![t] = "large2"]
    BY <1>4 DEF LargeStart, ReadBump, Goto
  <2>2. Layout(t) \in Layouts
    BY <1>1, CallLayout
  <2>3. /\ Layout(t).size \in Nat /\ Layout(t).align \in Nat \ {0}
        /\ heap_end + Layout(t).align <= WORD
    BY <1>1, <2>2, Sizes DEF LockedInv, IInv, SafeInv, RegionInv
  <2>4. x \in Nat
    BY <1>1, <1>4, <2>3, BumpSpan DEF LockedInv, IInv
  <2>5. reg'[t] = x /\ pc'[t] = "large2"
    BY <1>2, <2>1
  <2>6. BumpFits(Layout(t).size, Layout(t).align)'
        /\ BumpStart(Layout(t).align)' = x
    BY <1>2, <1>3, <1>4, SameCall DEF BumpFits, BumpStart
  <2>7. Knows(t)'
    BY <1>1, <1>2, <1>3, <2>5, <2>6, SameCall DEF Knows
  <2>8. "large2" \in InsidePCs /\ "large2" \in AllocPCs
    BY DEF InsidePCs, PCs, AllocPCs
  <2> HIDE DEF x
  <2>9. QED
    BY <1>1, <1>2, <2>1, <2>4, <2>7, <2>8, ReadStep
<1>5. CASE ~ BumpFits(Layout(t).size, Layout(t).align)
  <2>1. reg' = [reg EXCEPT ![t] = reg[t]] /\ pc' = [pc EXCEPT ![t] = "drop"]
    BY <1>2, <1>5 DEF LargeStart, ReadBump, Goto
  <2>2. pc'[t] = "drop"
    BY <1>2, <2>1
  <2>3. Knows(t)'
    BY <2>2 DEF Knows
  <2>4. "drop" \in InsidePCs /\ "drop" \in AllocPCs
    BY DEF InsidePCs, PCs, AllocPCs
  <2>5. QED
    BY <1>1, <1>2, <2>1, <2>3, <2>4, ReadStep
<1>6. QED
  BY <1>4, <1>5

(* ... and for a chunk.                                                    *)
LEMMA RefillStartKeeps ==
    ASSUME LockedInv, NEW t \in Threads, RefillStart(t)
    PROVE  LockedInv'
<1>1. /\ pc[t] = "refill" /\ call[t].kind = "alloc" /\ reg[t] = NULL
      /\ initialized /\ Small(t)
  BY DEF RefillStart, LockedInv, CallInv, InCall, NoCall, DeallocPCs, ReadInv, Knows
<1>2. /\ UNCHANGED <<vars, held, locked, call>>
      /\ reg \in [Threads -> Nat] /\ reg[t] \in Nat /\ pc \in [Threads -> PCs]
      /\ Inside(t)
  BY <1>1 DEF RefillStart, ReadBump, LockedInv, ThreadsTypeOK, Inside
<1>3. UNCHANGED <<initialized, bump, heap_end>>
  BY <1>2 DEF vars
<1>4. CASE BumpFits(CHUNK_SIZE, CHUNK_SIZE)
  <2> DEFINE x == BumpStart(CHUNK_SIZE)
  <2>1. reg' = [reg EXCEPT ![t] = x] /\ pc' = [pc EXCEPT ![t] = "refill2"]
    BY <1>4 DEF RefillStart, ReadBump, Goto
  <2>2. CHUNK_SIZE \in Nat \ {0} /\ heap_end + CHUNK_SIZE <= WORD
    BY <1>1, Sizes DEF LockedInv, IInv, SafeInv, RegionInv
  <2>3. x \in Nat
    BY <1>1, <1>4, <2>2, BumpSpan DEF LockedInv, IInv
  <2>4. reg'[t] = x /\ pc'[t] = "refill2"
    BY <1>2, <2>1
  <2>5. BumpFits(CHUNK_SIZE, CHUNK_SIZE)' /\ BumpStart(CHUNK_SIZE)' = x
    BY <1>3, <1>4 DEF BumpFits, BumpStart
  <2>6. Knows(t)'
    BY <1>1, <1>2, <1>3, <2>4, <2>5, SameCall DEF Knows
  <2>7. "refill2" \in InsidePCs /\ "refill2" \in AllocPCs
    BY DEF InsidePCs, PCs, AllocPCs
  <2> HIDE DEF x
  <2>8. QED
    BY <1>1, <1>2, <2>1, <2>3, <2>6, <2>7, ReadStep
<1>5. CASE ~ BumpFits(CHUNK_SIZE, CHUNK_SIZE)
  <2>1. reg' = [reg EXCEPT ![t] = reg[t]] /\ pc' = [pc EXCEPT ![t] = "drop"]
    BY <1>2, <1>5 DEF RefillStart, ReadBump, Goto
  <2>2. pc'[t] = "drop"
    BY <1>2, <2>1
  <2>3. Knows(t)'
    BY <2>2 DEF Knows
  <2>4. "drop" \in InsidePCs /\ "drop" \in AllocPCs
    BY DEF InsidePCs, PCs, AllocPCs
  <2>5. QED
    BY <1>1, <1>2, <2>1, <2>3, <2>4, ReadStep
<1>6. QED
  BY <1>4, <1>5

(* The head that is to be popped is read.                                  *)
LEMMA ReadHeadKeeps ==
    ASSUME LockedInv, NEW t \in Threads, ReadHead(t)
    PROVE  LockedInv'
<1>1. /\ pc[t] = "head" /\ call[t].kind = "alloc"
      /\ initialized /\ Small(t) /\ head[Class(t)] # NULL
  BY DEF ReadHead, LockedInv, CallInv, InCall, NoCall, DeallocPCs, ReadInv, Knows
<1>2. /\ UNCHANGED <<vars, held, locked, call>>
      /\ reg' = [reg EXCEPT ![t] = head[Class(t)]]
      /\ pc' = [pc EXCEPT ![t] = "pop"]
      /\ reg \in [Threads -> Nat] /\ pc \in [Threads -> PCs] /\ Inside(t)
  BY <1>1 DEF ReadHead, Goto, LockedInv, ThreadsTypeOK, Inside
<1>3. Class(t) \in Classes /\ head[Class(t)] \in Nat
  BY <1>1, CallLayout DEF LockedInv, ThreadsTypeOK, TypeOK
<1>4. /\ UNCHANGED <<initialized, head>> /\ pc'[t] = "pop"
      /\ reg'[t] = head[Class(t)]
  BY <1>2 DEF vars
<1>5. Knows(t)'
  BY <1>1, <1>2, <1>4, SameCall DEF Knows
<1>6. "pop" \in InsidePCs /\ "pop" \in AllocPCs
  BY DEF InsidePCs, PCs, AllocPCs
<1>7. QED
  BY <1>1, <1>2, <1>3, <1>5, <1>6, ReadStep

(* A thread that takes memory for its caller, as AllocPop or AllocLarge    *)
(* does in one step.                                                       *)
LEMMA GrantStep ==
    ASSUME LockedInv, NEW t \in Threads, Inside(t), call[t].kind = "alloc",
           pc' = [pc EXCEPT ![t] = "drop"],
           UNCHANGED <<held, locked, call, reg, initialized>>,
           SafeInv', CompleteInv', Hold(reg[t], Layout(t)),
           \A s \in live : s.ptr # reg[t]
    PROVE  LockedInv'
<1>1. /\ reg \in [Threads -> Nat] /\ reg[t] \in Nat /\ pc \in [Threads -> PCs]
      /\ reg' = [reg EXCEPT ![t] = reg[t]] /\ pc'[t] = "drop"
      /\ "drop" \in InsidePCs
  BY DEF LockedInv, ThreadsTypeOK, InsidePCs, PCs
<1>2. InCall(t)'
  BY <1>1 DEF LockedInv, CallInv, InCall, NoCall, AllocPCs
<1>3. Knows(t)'
  BY <1>1 DEF Knows
<1>4. Granted(t).ptr = reg[t] /\ live' = live \cup {Granted(t)}
  BY DEF Hold, Granted, Layout
<1>5. Granted(t) \notin live
  BY <1>4
<1>6. HandsInv'
  BY <1>4, <1>5, GrantHands
<1>7. QED
  BY <1>1, <1>2, <1>3, <1>6, InnerFrame

(* Popping the head that was read.                                         *)
LEMMA PopHeadKeeps ==
    ASSUME LockedInv, NEW t \in Threads, PopHead(t)
    PROVE  LockedInv'
<1>1. /\ pc[t] = "pop" /\ call[t].kind = "alloc" /\ Inside(t)
      /\ initialized /\ Small(t) /\ head[Class(t)] # NULL /\ reg[t] = head[Class(t)]
  BY DEF PopHead, LockedInv, CallInv, InCall, NoCall, DeallocPCs, ReadInv, Knows,
         Inside
<1>2. Layout(t) \in Layouts /\ Class(t) \in Classes
  BY <1>1, CallLayout
<1>3. AllocPop(Layout(t))
  BY <1>1 DEF PopHead, AllocPop, Small, Class
<1>4. SafeInv' /\ CompleteInv'
  BY <1>2, <1>3, PopStep DEF LockedInv, IInv
<1>5. \A s \in live : s.ptr # reg[t]
  <2>1. reg[t] \in Free(Class(t))
    BY <1>1, <1>2 DEF LockedInv, IInv, SafeInv, ListsInv
  <2>2. QED
    BY <2>1 DEF Free, LivePtrs
<1>6. QED
  BY <1>1, <1>4, <1>5, GrantStep DEF PopHead, Goto, heapvars

(* The bump pointer moves past a large allocation.                         *)
LEMMA LargeEndKeeps ==
    ASSUME LockedInv, NEW t \in Threads, LargeEnd(t)
    PROVE  LockedInv'
<1>1. /\ pc[t] = "large2" /\ call[t].kind = "alloc" /\ Inside(t)
      /\ initialized /\ ~ Small(t)
      /\ BumpFits(Layout(t).size, Layout(t).align)
      /\ reg[t] = BumpStart(Layout(t).align)
  BY DEF LargeEnd, LockedInv, CallInv, InCall, NoCall, DeallocPCs, ReadInv, Knows,
         Inside
<1>2. Layout(t) \in Layouts
  BY <1>1, CallLayout
<1>3. AllocLarge(Layout(t))
  BY <1>1 DEF LargeEnd, MoveBump, AllocLarge, Small
<1>4. SafeInv' /\ CompleteInv'
  BY <1>2, <1>3, LargeStep DEF LockedInv, IInv
<1>5. \A s \in live : s.ptr # reg[t]
  <2>1. /\ Layout(t).size \in Nat /\ Layout(t).align \in Nat \ {0}
        /\ heap_end + Layout(t).align <= WORD
    BY <1>1, <1>2, Sizes DEF LockedInv, IInv, SafeInv, RegionInv
  <2>2. bump <= reg[t] /\ reg[t] \in Nat /\ bump \in Nat
    BY <1>1, <2>1, BumpSpan DEF LockedInv, IInv
  <2>3. \A s \in live : /\ s.ptr \in Nat /\ s.layout.size \in Nat \ {0}
                        /\ s.ptr + s.layout.size <= bump
    BY LiveSpan, Sizes DEF LockedInv, IInv
  <2>4. QED
    BY <2>2, <2>3
<1>6. QED
  BY <1>1, <1>4, <1>5, GrantStep DEF LargeEnd, MoveBump, Goto, heapvars

(* The bump pointer moves past a chunk, all of it still uncut.             *)
LEMMA RefillEndKeeps ==
    ASSUME LockedInv, NEW t \in Threads, RefillEnd(t)
    PROVE  LockedInv'
<1>1. /\ pc[t] = "refill2" /\ call[t].kind = "alloc" /\ Inside(t)
      /\ initialized /\ Small(t)
      /\ BumpFits(CHUNK_SIZE, CHUNK_SIZE) /\ reg[t] = BumpStart(CHUNK_SIZE)
  BY DEF RefillEnd, LockedInv, CallInv, InCall, NoCall, DeallocPCs, ReadInv, Knows,
         Inside
<1>2. /\ bump' = reg[t] + CHUNK_SIZE /\ mem' = ZeroFill(mem, reg[t], CHUNK_SIZE)
      /\ pc' = [pc EXCEPT ![t] = "link"]
      /\ UNCHANGED <<heap_start, heap_end, initialized, head, carved, live,
                     held, locked, call, reg>>
  BY DEF RefillEnd, MoveBump, Goto, heapvars
<1>3. SafeInv' /\ CompleteInv'
  BY <1>1, <1>2, ChunkStep DEF LockedInv, IInv
<1>4. /\ reg \in [Threads -> Nat] /\ reg[t] \in Nat /\ pc \in [Threads -> PCs]
      /\ reg' = [reg EXCEPT ![t] = reg[t]] /\ pc'[t] = "link" /\ reg'[t] = reg[t]
      /\ "link" \in InsidePCs
  BY <1>2 DEF LockedInv, ThreadsTypeOK, InsidePCs, PCs
<1>5. InCall(t)'
  BY <1>1, <1>2, <1>4 DEF LockedInv, CallInv, InCall, NoCall, AllocPCs
<1>6. Class(t) \in Classes /\ Class(t)' = Class(t) /\ Small(t)' = Small(t)
  BY <1>1, <1>2, CallLayout, SameCall
<1>7. Uncut(reg[t], Class(t))'
  <2>1. \A i \in Classes, b \in Nat : b = reg[t] => Uncut(b, i)'
    BY <1>1, <1>2, NewChunkUncut DEF LockedInv, IInv
  <2>2. PICK i \in Classes : i = Class(t)
    BY <1>6
  <2>3. PICK b \in Nat : b = reg[t]
    BY <1>4
  <2>4. Uncut(b, i)'
    BY <2>1, <2>3
  <2>5. i = Class(t)' /\ b = reg'[t]
    BY <1>4, <1>6, <2>2, <2>3
  <2>6. QED
    BY <2>4, <2>5 DEF Uncut, ChunkEnd
<1>8. Knows(t)'
  BY <1>1, <1>2, <1>4, <1>6, <1>7 DEF Knows
<1>9. HandsInv'
  BY <1>1, <1>2, <1>4, QuietHands
<1>10. QED
  BY <1>1, <1>2, <1>3, <1>4, <1>5, <1>8, <1>9, InnerFrame

(* A block that a caller gives back is in no free list yet.                *)
LEMMA ReleasingBlock ==
    ASSUME LockedInv, NEW t \in Threads, Releasing(t)
    PROVE  /\ call[t].arg \in live /\ initialized
           /\ call[t].arg.ptr \in Addr
           /\ \A j \in Classes : call[t].arg.ptr \notin Free(j)
<1> DEFINE r == call[t].arg
<1>1. r \in live /\ SafeInv
  BY DEF LockedInv, IInv, HandsInv
<1> HIDE DEF r
<1>2. /\ initialized /\ r.ptr \in Nat /\ r.layout.size \in Nat \ {0}
      /\ r.ptr + r.layout.size <= bump
  BY <1>1, LiveSpan, Sizes
<1>3. /\ bump <= heap_end /\ heap_end + CHUNK_SIZE <= WORD
      /\ bump \in Nat /\ heap_end \in Nat /\ CHUNK_SIZE \in Nat /\ WORD \in Nat
  BY <1>1, <1>2, Sizes DEF SafeInv, RegionInv, TypeOK
<1>4. r.ptr \in Addr
  BY <1>2, <1>3 DEF Addr
<1>5. r.ptr <= r.ptr /\ r.ptr < r.ptr + r.layout.size
  BY <1>2
<1>6. \A j \in Classes : r.ptr \notin Free(j)
  BY <1>1, <1>2, <1>5, HeldNotFree
<1>7. QED
  BY <1>1, <1>2, <1>4, <1>6 DEF r

(* The first address of an uncut chunk is in no free list.                 *)
LEMMA UncutBlock ==
    ASSUME SafeInv, initialized, NEW i \in Classes, NEW b \in Nat, Uncut(b, i)
    PROVE  /\ b \in Addr /\ b # NULL /\ b + SIZE_CLASSES[i] <= bump
           /\ \A j \in Classes : b \notin Free(j)
           /\ \A j \in Classes : \A a \in carved[j] :
                 Apart(b, SIZE_CLASSES[i], a, SIZE_CLASSES[j])
           /\ \A r \in live : ~ HasClass(r.layout) =>
                 Apart(b, SIZE_CLASSES[i], r.ptr, r.layout.size)
<1> DEFINE c == SIZE_CLASSES[i]
           end == ChunkEnd(b)
<1>1. /\ c \in Nat \ {0} /\ end \in Nat /\ b + c <= end /\ end <= bump
      /\ heap_start <= b /\ 0 < heap_start /\ heap_start \in Nat
      /\ bump <= heap_end /\ heap_end + CHUNK_SIZE <= WORD
      /\ bump \in Nat /\ heap_end \in Nat /\ CHUNK_SIZE \in Nat /\ WORD \in Nat
  BY Sizes, ChunkEnds DEF Uncut, SafeInv, RegionInv, TypeOK
<1>2. /\ \A j \in Classes : \A a \in carved[j] :
            Apart(b, end - b, a, SIZE_CLASSES[j])
      /\ \A r \in live : ~ HasClass(r.layout) =>
            Apart(b, end - b, r.ptr, r.layout.size)
  BY DEF Uncut
<1> HIDE DEF c, end
<1>3. b \in Addr /\ b # NULL /\ b + c <= bump
  BY <1>1 DEF Addr, NULL
<1>4. ASSUME NEW j \in Classes, NEW a \in carved[j]
      PROVE  Apart(b, c, a, SIZE_CLASSES[j]) /\ a # b
  <2>1. a \in Nat /\ SIZE_CLASSES[j] \in Nat \ {0}
    BY Sizes DEF SafeInv, TypeOK
  <2>2. Apart(b, end - b, a, SIZE_CLASSES[j])
    BY <1>2
  <2>3. QED
    BY <1>1, <2>1, <2>2 DEF Apart
<1>5. ASSUME NEW r \in live, ~ HasClass(r.layout)
      PROVE  Apart(b, c, r.ptr, r.layout.size)
  <2>1. r.ptr \in Nat /\ r.layout.size \in Nat
    BY Sizes DEF SafeInv, TypeOK
  <2>2. Apart(b, end - b, r.ptr, r.layout.size)
    BY <1>2, <1>5
  <2>3. QED
    BY <1>1, <2>1, <2>2 DEF Apart
<1>6. \A j \in Classes : b \notin Free(j)
  BY <1>4 DEF Free
<1>7. QED
  BY <1>3, <1>4, <1>5, <1>6 DEF c

(* What a thread about to link or to push knows of its block.              *)
LEMMA NodeFree ==
    ASSUME LockedInv, NEW t \in Threads, pc[t] \in {"link", "push"}
    PROVE  /\ call[t].kind \in {"alloc", "dealloc"} /\ Inside(t)
           /\ initialized /\ Small(t) /\ Class(t) \in Classes
           /\ Node(t) \in Addr /\ \A j \in Classes : Node(t) \notin Free(j)
           /\ call[t].kind = "alloc" =>
                 /\ Node(t) = reg[t] /\ reg[t] \in Nat
                 /\ Uncut(reg[t], Class(t))
           /\ call[t].kind = "dealloc" =>
                 Node(t) = call[t].arg.ptr /\ Releasing(t)
<1>1. /\ call[t].kind \in {"alloc", "dealloc"} /\ Inside(t)
      /\ initialized /\ Small(t)
      /\ call[t].kind = "alloc" => Uncut(reg[t], Class(t))
  BY DEF LockedInv, CallInv, InCall, NoCall, ReadInv, Knows, Inside
<1>2. Class(t) \in Classes
  BY <1>1, CallLayout
<1>3. CASE call[t].kind = "alloc"
  <2>1. Node(t) = reg[t] /\ reg[t] \in Nat /\ SafeInv
    BY <1>3 DEF Node, LockedInv, ThreadsTypeOK, IInv
  <2>2. reg[t] \in Addr /\ \A j \in Classes : reg[t] \notin Free(j)
    BY <1>1, <1>2, <1>3, <2>1, UncutBlock
  <2>3. QED
    BY <1>1, <1>2, <1>3, <2>1, <2>2
<1>4. CASE call[t].kind = "dealloc"
  <2>1. Node(t) = call[t].arg.ptr /\ Releasing(t)
    BY <1>4 DEF Node, Releasing
  <2>2. QED
    BY <1>1, <1>2, <1>4, <2>1, ReleasingBlock
<1>5. QED
  BY <1>1, <1>3, <1>4

(* A node gets its link.  It is in no list yet, so no list changes.        *)
LEMMA LinkNodeKeeps ==
    ASSUME LockedInv, NEW t \in Threads, LinkNode(t)
    PROVE  LockedInv'
<1>1. pc[t] = "link"
  BY DEF LinkNode
<1>2. /\ mem' = [mem EXCEPT ![Node(t)] = head[Class(t)]]
      /\ pc' = [pc EXCEPT ![t] = "push"]
      /\ UNCHANGED <<heap_start, heap_end, initialized, bump, head, live, carved,
                     held, locked, call, reg>>
  BY DEF LinkNode, Goto, heapvars
<1>3. /\ call[t].kind \in {"alloc", "dealloc"} /\ Inside(t)
      /\ initialized /\ Small(t) /\ Class(t) \in Classes
      /\ Node(t) \in Addr /\ \A j \in Classes : Node(t) \notin Free(j)
      /\ call[t].kind = "alloc" => Uncut(reg[t], Class(t))
  BY <1>1, NodeFree
<1>4. head[Class(t)] \in Nat /\ mem \in [Addr -> Nat]
  BY <1>3 DEF LockedInv, ThreadsTypeOK, TypeOK
<1>5. SafeInv' /\ CompleteInv'
  BY <1>2, <1>3, <1>4, WriteStep DEF LockedInv, IInv
<1>6. /\ reg \in [Threads -> Nat] /\ reg[t] \in Nat /\ pc \in [Threads -> PCs]
      /\ reg' = [reg EXCEPT ![t] = reg[t]] /\ pc'[t] = "push" /\ reg'[t] = reg[t]
      /\ "push" \in InsidePCs
  BY <1>2 DEF LockedInv, ThreadsTypeOK, InsidePCs, PCs
<1>7. InCall(t)'
  BY <1>1, <1>2, <1>3, <1>6
     DEF LockedInv, CallInv, InCall, NoCall, AllocPCs, DeallocPCs
<1>8. /\ Class(t)' = Class(t) /\ Small(t)' = Small(t) /\ Node(t)' = Node(t)
  BY <1>2, SameCall DEF Node
<1>9. mem'[Node(t)'] = head'[Class(t)']
  BY <1>2, <1>3, <1>4, <1>8
<1>10. call[t].kind = "alloc" => Uncut(reg[t], Class(t))'
  BY <1>2, <1>3, <1>6, <1>8 DEF Uncut, ChunkEnd
<1>11. Knows(t)'
  BY <1>2, <1>3, <1>6, <1>8, <1>9, <1>10 DEF Knows
<1>12. HandsInv'
  BY <1>1, <1>2, <1>3, <1>6, QuietHands
<1>13. QED
  BY <1>2, <1>3, <1>5, <1>6, <1>7, <1>11, <1>12, InnerFrame

(* A node becomes the head: in dealloc the freed block, which completes    *)
(* the call ...                                                            *)
LEMMA PushFreedKeeps ==
    ASSUME LockedInv, NEW t \in Threads, PushNode(t), call[t].kind = "dealloc"
    PROVE  LockedInv'
<1>1. pc[t] = "push" /\ mem[Node(t)] = head[Class(t)]
  BY DEF PushNode, LockedInv, ReadInv, Knows
<1>2. /\ head' = [head EXCEPT ![Class(t)] = Node(t)]
      /\ live' = live \ {call[t].arg} /\ pc' = [pc EXCEPT ![t] = "drop"]
      /\ UNCHANGED <<heapvars, bump, mem, carved, held, locked, call, reg>>
  BY DEF PushNode, Goto
<1>3. /\ Inside(t) /\ initialized /\ Small(t) /\ Class(t) \in Classes
      /\ Node(t) \in Addr /\ Node(t) = call[t].arg.ptr /\ Releasing(t)
  BY <1>1, NodeFree
<1>4. call[t].arg \in live
  BY <1>3, ReleasingBlock
<1>5. mem' = [mem EXCEPT ![Node(t)] = head[Class(t)]]
  BY <1>1, <1>2, <1>3 DEF LockedInv, ThreadsTypeOK, TypeOK
<1>6. dealloc(call[t].arg)
  BY <1>2, <1>3, <1>5 DEF dealloc, Small, Class, Layout
<1>7. SafeInv' /\ CompleteInv'
  BY <1>4, <1>6, DeallocStep DEF LockedInv, IInv
<1>8. /\ reg \in [Threads -> Nat] /\ reg[t] \in Nat /\ pc \in [Threads -> PCs]
      /\ reg' = [reg EXCEPT ![t] = reg[t]] /\ pc'[t] = "drop"
      /\ "drop" \in InsidePCs
  BY <1>2 DEF LockedInv, ThreadsTypeOK, InsidePCs, PCs
<1>9. InCall(t)' /\ Knows(t)'
  BY <1>2, <1>8 DEF LockedInv, CallInv, InCall, NoCall, DeallocPCs, Knows
<1>10. HandsInv'
  BY <1>2, <1>3, ReleaseHands
<1>11. QED
  BY <1>2, <1>3, <1>7, <1>8, <1>9, <1>10, InnerFrame DEF heapvars

(* ... in a refill the next block of the chunk.                            *)
LEMMA PushCutKeeps ==
    ASSUME LockedInv, NEW t \in Threads, PushNode(t), call[t].kind = "alloc"
    PROVE  LockedInv'
<1> DEFINE b == reg[t]
           i == Class(t)
           off == b + Block(t)
           l == IF off + Block(t) <= ChunkEnd(b) THEN "link" ELSE "head"
<1>1. pc[t] = "push" /\ mem[Node(t)] = head[i]
  BY DEF PushNode, LockedInv, ReadInv, Knows
<1>2. /\ head' = [head EXCEPT ![i] = Node(t)]
      /\ carved' = [carved EXCEPT ![i] = @ \cup {b}]
      /\ reg' = [reg EXCEPT ![t] = off]
      /\ pc' = [pc EXCEPT ![t] = l]
      /\ UNCHANGED <<heap_start, heap_end, initialized, bump, mem, live, held,
                     locked, call>>
  BY DEF PushNode, Goto, heapvars
<1>3. /\ Inside(t) /\ initialized /\ Small(t) /\ i \in Classes
      /\ Node(t) = b /\ b \in Nat /\ Uncut(b, i) /\ Block(t) = SIZE_CLASSES[i]
  BY <1>1, NodeFree, CallLayout
<1>4. /\ off = b + SIZE_CLASSES[i]
      /\ l \in {"link", "head"}
      /\ l = "link" => off + SIZE_CLASSES[i] <= ChunkEnd(b)
  BY <1>3
<1>5. Class(t)' = i /\ Small(t)' = Small(t)
  BY <1>2, SameCall
<1> HIDE DEF b, i, off, l
<1>6. SafeInv
  BY DEF LockedInv, IInv
<1>7. /\ b # NULL /\ b + SIZE_CLASSES[i] <= bump
      /\ heap_start <= b /\ b % SIZE_CLASSES[i] = 0
      /\ \A j \in Classes : \A a \in carved[j] :
            Apart(b, SIZE_CLASSES[i], a, SIZE_CLASSES[j])
      /\ \A r \in live : ~ HasClass(r.layout) =>
            Apart(b, SIZE_CLASSES[i], r.ptr, r.layout.size)
  <2>1. heap_start <= b /\ b % SIZE_CLASSES[i] = 0
    BY <1>3 DEF Uncut
  <2>2. QED
    BY <1>3, <1>6, <2>1, UncutBlock
<1>8. SafeInv' /\ CompleteInv'
  BY <1>1, <1>2, <1>3, <1>7, PushNewStep DEF LockedInv, IInv
<1>9. /\ off \in Nat /\ reg \in [Threads -> Nat] /\ pc \in [Threads -> PCs]
      /\ pc'[t] = l /\ reg'[t] = off /\ l \in InsidePCs
  BY <1>2, <1>3, <1>4, Sizes DEF LockedInv, ThreadsTypeOK, InsidePCs, PCs
<1>10. InCall(t)'
  BY <1>2, <1>4, <1>9 DEF LockedInv, CallInv, InCall, NoCall, AllocPCs
<1>11. l = "link" => Uncut(reg[t], Class(t))'
  <2> SUFFICES ASSUME l = "link"
               PROVE  Uncut(reg[t], Class(t))'
    OBVIOUS
  <2>1. PICK k \in Classes : k = i
    BY <1>3
  <2>2. PICK e \in Nat : e = b
    BY <1>3
  <2>3. PICK o \in Nat : o = off
    BY <1>9
  <2>4. /\ Uncut(e, k) /\ o = e + SIZE_CLASSES[k]
        /\ o + SIZE_CLASSES[k] <= ChunkEnd(e)
        /\ carved' = [carved EXCEPT ![k] = @ \cup {e}]
    BY <1>2, <1>3, <1>4, <2>1, <2>2, <2>3
  <2>5. Uncut(o, k)'
    BY <1>2, <1>6, <2>4, RestUncut
  <2>6. o = reg'[t] /\ k = Class(t)'
    BY <1>5, <1>9, <2>1, <2>3
  <2>7. QED
    BY <2>5, <2>6 DEF Uncut, ChunkEnd
<1>12. Knows(t)'
  <2>1. head'[Class(t)'] # NULL
    BY <1>2, <1>3, <1>5, <1>7 DEF LockedInv, ThreadsTypeOK, TypeOK
  <2>2. QED
    BY <1>2, <1>3, <1>4, <1>5, <1>9, <1>11, <2>1 DEF Knows
<1>13. HandsInv'
  BY <1>2, <1>3, <1>4, <1>9, QuietHands
<1>14. QED
  BY <1>2, <1>3, <1>8, <1>9, <1>10, <1>12, <1>13, InnerFrame

(* dealloc reads whether the layout has a class; nothing else is done for  *)
(* a large allocation.                                                     *)
LEMMA ChooseDeallocKeeps ==
    ASSUME LockedInv, NEW t \in Threads, ChooseDealloc(t)
    PROVE  LockedInv'
<1>1. /\ pc[t] = "dealloc" /\ call[t].kind = "dealloc" /\ reg[t] = NULL
      /\ Inside(t) /\ Releasing(t)
  BY DEF ChooseDealloc, LockedInv, CallInv, InCall, NoCall, AllocPCs, ReadInv, Knows,
         Inside, Releasing
<1>2. initialized /\ call[t].arg \in live
  BY <1>1, ReleasingBlock
<1>3. /\ UNCHANGED <<heapvars, bump, head, mem, carved, held, locked, call, reg>>
      /\ reg \in [Threads -> Nat] /\ reg[t] \in Nat /\ pc \in [Threads -> PCs]
      /\ reg' = [reg EXCEPT ![t] = reg[t]] /\ initialized' = initialized
      /\ "link" \in InsidePCs /\ "drop" \in InsidePCs
  BY DEF ChooseDealloc, LockedInv, ThreadsTypeOK, heapvars, InsidePCs, PCs
<1>4. CASE Small(t)
  <2>1. pc' = [pc EXCEPT ![t] = "link"] /\ live' = live /\ pc'[t] = "link"
    BY <1>2, <1>3, <1>4 DEF ChooseDealloc, Goto
  <2>2. SafeInv' /\ CompleteInv'
    BY <1>3, <2>1, StutterStep DEF LockedInv, IInv, vars, heapvars
  <2>3. InCall(t)'
    BY <1>1, <1>3, <2>1 DEF LockedInv, CallInv, InCall, NoCall, DeallocPCs
  <2>4. Knows(t)'
    BY <1>1, <1>2, <1>3, <1>4, <2>1, SameCall DEF Knows
  <2>5. HandsInv'
    BY <1>1, <1>3, <2>1, QuietHands
  <2>6. QED
    BY <1>1, <1>3, <2>1, <2>2, <2>3, <2>4, <2>5, InnerFrame
<1>5. CASE ~ Small(t)
  <2>1. /\ pc' = [pc EXCEPT ![t] = "drop"] /\ live' = live \ {call[t].arg}
        /\ pc'[t] = "drop"
    BY <1>2, <1>3, <1>5 DEF ChooseDealloc, Goto
  <2>2. dealloc(call[t].arg)
    BY <1>1, <1>2, <1>3, <1>5, <2>1 DEF dealloc, Small, Layout
  <2>3. SafeInv' /\ CompleteInv'
    BY <1>2, <2>2, DeallocStep DEF LockedInv, IInv
  <2>4. InCall(t)' /\ Knows(t)'
    BY <1>1, <1>3, <2>1 DEF LockedInv, CallInv, InCall, NoCall, DeallocPCs, Knows
  <2>5. HandsInv'
    BY <1>1, <1>3, <2>1, ReleaseHands
  <2>6. QED
    BY <1>1, <1>3, <2>1, <2>3, <2>4, <2>5, InnerFrame
<1>6. QED
  BY <1>4, <1>5
-----------------------------------------------------------------------------
(* The steps at the edges of the critical section, and the callers' own.   *)

(* A thread goes on knowing what it knows while the allocator, its own     *)
(* call and the node it is about to push stay as they are.                 *)
LEMMA KnowsKept ==
    ASSUME NEW u \in Threads, Knows(u),
           UNCHANGED <<bump, head, live, carved, heap_start, heap_end, initialized>>,
           call'[u] = call[u], reg'[u] = reg[u], pc'[u] = pc[u],
           pc[u] = "push" => mem'[Node(u)] = mem[Node(u)]
    PROVE  Knows(u)'
<1>1. /\ Layout(u)' = Layout(u) /\ Class(u)' = Class(u)
      /\ Small(u)' = Small(u) /\ Node(u)' = Node(u)
  BY DEF Layout, Class, Small, Node
<1>2. /\ BumpFits(Layout(u).size, Layout(u).align)'
            <=> BumpFits(Layout(u).size, Layout(u).align)
      /\ BumpStart(Layout(u).align)' = BumpStart(Layout(u).align)
      /\ BumpFits(CHUNK_SIZE, CHUNK_SIZE)' <=> BumpFits(CHUNK_SIZE, CHUNK_SIZE)
      /\ BumpStart(CHUNK_SIZE)' = BumpStart(CHUNK_SIZE)
  BY <1>1 DEF BumpFits, BumpStart
<1>3. Uncut(reg[u], Class(u))' <=> Uncut(reg[u], Class(u))
  BY <1>1 DEF Uncut, ChunkEnd
<1>4. QED
  BY <1>1, <1>2, <1>3 DEF Knows

(* A step outside that leaves the allocator alone.  The other threads keep *)
(* their places, and what a thread in the critical section knows stays.    *)
LEMMA OuterFrame ==
    ASSUME LockedInv, NEW t \in Threads, UNCHANGED vars,
           NEW l \in PCs, pc' = [pc EXCEPT ![t] = l],
           \A u \in Threads : u # t => call'[u] = call[u] /\ reg'[u] = reg[u],
           call' = [u \in Threads |-> call'[u]], reg' \in [Threads -> Nat],
           \A u \in Threads : u # t =>
              ~ (call'[u].kind = "init" /\ call'[t].kind = "init"),
           call'[t].kind = "init" /\ l # "drop" => ~ initialized,
           InCall(t)', Knows(t)', HandsInv', MutualExclusion', locked' \in BOOLEAN
    PROVE  LockedInv'
<1>1. /\ pc \in [Threads -> PCs] /\ pc' \in [Threads -> PCs] /\ pc'[t] = l
      /\ \A u \in Threads : u # t => pc'[u] = pc[u]
  BY DEF LockedInv, ThreadsTypeOK
<1>2. UNCHANGED <<heap_start, heap_end, bump, head, initialized, mem, live, carved>>
  BY DEF vars
<1>3. SafeInv' /\ CompleteInv'
  BY StutterStep DEF LockedInv, IInv
<1>4. ASSUME NEW u \in Threads PROVE InCall(u)' /\ Knows(u)'
  <2>1. CASE u = t
    BY <2>1
  <2>2. CASE u # t
    <3>1. InCall(u) /\ Knows(u)
      BY DEF LockedInv, CallInv, ReadInv
    <3>2. call'[u] = call[u] /\ reg'[u] = reg[u] /\ pc'[u] = pc[u]
      BY <1>1, <2>2
    <3>3. InCall(u)'
      BY <3>1, <3>2 DEF InCall
    <3>4. Knows(u)'
      BY <1>2, <3>1, <3>2, KnowsKept
    <3>5. QED
      BY <3>3, <3>4
  <2>3. QED
    BY <2>1, <2>2
<1>5. CallInv'
  BY <1>1, <1>2, <1>4 DEF LockedInv, CallInv
<1>6. ThreadsTypeOK'
  <2>1. ASSUME NEW u \in Threads
        PROVE  /\ call'[u].kind \in {"none", "init", "alloc", "dealloc"}
               /\ call'[u].kind = "none" <=> pc'[u] = "idle"
    BY <1>4 DEF InCall, NoCall, AllocPCs, DeallocPCs
  <2>2. TypeOK'
    BY <1>3 DEF SafeInv
  <2>3. QED
    BY <1>1, <2>1, <2>2 DEF ThreadsTypeOK
<1>7. QED
  BY <1>3, <1>4, <1>5, <1>6 DEF LockedInv, IInv, ReadInv

(* The compare-exchange that succeeds.                                     *)
LEMMA LockKeeps ==
    ASSUME LockedInv, NEW t \in Threads, lock(t)
    PROVE  LockedInv'
<1> DEFINE l == call[t].kind
<1>1. /\ pc[t] = "lock" /\ ~ locked /\ locked' = TRUE
      /\ pc' = [pc EXCEPT ![t] = l] /\ UNCHANGED <<vars, held, call, reg>>
  BY DEF lock, Goto
<1>2. l \in {"init", "alloc", "dealloc"} /\ reg[t] = NULL
  BY <1>1 DEF LockedInv, CallInv, InCall, NoCall, ReadInv, Knows
<1> HIDE DEF l
<1>3. /\ pc \in [Threads -> PCs] /\ reg \in [Threads -> Nat] /\ l \in PCs
      /\ pc'[t] = l /\ \A u \in Threads : u # t => pc'[u] = pc[u]
  BY <1>1, <1>2 DEF LockedInv, ThreadsTypeOK, PCs
<1>4. \A u \in Threads : pc[u] \in {"idle", "lock"}
  BY <1>1 DEF LockedInv, MutualExclusion, Inside
<1>5. MutualExclusion'
  BY <1>1, <1>2, <1>3, <1>4 DEF MutualExclusion, Inside
<1>6. InCall(t)'
  <2>1. InCall(t) /\ l = call[t].kind /\ call' = call
    BY <1>1 DEF LockedInv, CallInv, l
  <2>2. QED
    BY <1>1, <1>2, <1>3, <2>1 DEF InCall, NoCall, AllocPCs, DeallocPCs
<1>7. Knows(t)'
  BY <1>1, <1>2, <1>3 DEF Knows
<1>8. live' = live /\ held' = held
  BY <1>1 DEF vars
<1>9. HandsInv'
  <2>1. \A u \in Threads : Releasing(u)' <=> Releasing(u)
    BY <1>1, <1>2, <1>3 DEF Releasing
  <2>2. \A u \in Threads : ~ Granting(u)'
    BY <1>2, <1>3, <1>4 DEF Granting
  <2>3. QED
    BY <1>1, <1>8, <2>1, <2>2 DEF LockedInv, HandsInv
<1>10. QED
  BY <1>1, <1>3, <1>5, <1>6, <1>7, <1>9, OuterFrame DEF LockedInv, CallInv

(* The release of the lock and the return to the caller.                   *)
LEMMA DropKeeps ==
    ASSUME LockedInv, NEW t \in Threads, drop(t)
    PROVE  LockedInv'
<1>1. /\ pc[t] = "drop" /\ locked' = FALSE /\ pc' = [pc EXCEPT ![t] = "idle"]
      /\ call' = [call EXCEPT ![t] = NoCall] /\ reg' = [reg EXCEPT ![t] = NULL]
      /\ held' = IF call[t].kind = "alloc" /\ reg[t] # NULL
                 THEN held \cup {[ptr |-> reg[t], layout |-> Layout(t)]}
                 ELSE held
      /\ UNCHANGED vars
  BY DEF drop, Return, Goto
<1>2. /\ pc \in [Threads -> PCs] /\ reg \in [Threads -> Nat] /\ "idle" \in PCs
      /\ call = [u \in Threads |-> call[u]]
      /\ pc'[t] = "idle" /\ call'[t] = NoCall /\ reg'[t] = NULL
      /\ \A u \in Threads : u # t =>
            pc'[u] = pc[u] /\ call'[u] = call[u] /\ reg'[u] = reg[u]
      /\ reg' \in [Threads -> Nat]
  BY <1>1 DEF LockedInv, ThreadsTypeOK, CallInv, PCs, NULL
<1>3. \A u \in Threads : u # t => pc[u] \in {"idle", "lock"}
  BY <1>1 DEF LockedInv, MutualExclusion, Inside
<1>4. MutualExclusion'
  BY <1>1, <1>2, <1>3 DEF MutualExclusion, Inside
<1>5. InCall(t)' /\ Knows(t)'
  BY <1>2 DEF InCall, Knows
<1>6. held' = IF Granting(t) THEN held \cup {Granted(t)} ELSE held
  BY <1>1 DEF Granting, Granted, Layout
<1>7. live' = live
  BY <1>1 DEF vars
<1>8. HandsInv'
  <2>1. \A u \in Threads : Releasing(u)' =>
           Releasing(u) /\ u # t /\ call'[u] = call[u]
    BY <1>2 DEF Releasing, NoCall
  <2>2. \A u \in Threads : ~ Granting(u)'
    BY <1>2, <1>3 DEF Granting
  <2>3. QED
    BY <1>6, <1>7, <2>1, <2>2 DEF LockedInv, HandsInv
<1>9. call' = [u \in Threads |-> call'[u]] /\ call'[t].kind # "init"
  BY <1>1, <1>2 DEF NoCall
<1>10. QED
  BY <1>1, <1>2, <1>4, <1>5, <1>8, <1>9, OuterFrame

(* A thread makes a call.  What it hands to dealloc it no longer holds.    *)
LEMMA EnterKeeps ==
    ASSUME LockedInv, NEW t \in Threads, NEW k, NEW a, Enter(t, k, a),
           \/ k = "init" /\ a \in Heaps /\ ~ initialized
              /\ (\A u \in Threads : call[u].kind # "init") /\ held' = held
           \/ k = "alloc" /\ a \in Layouts /\ held' = held
           \/ k = "dealloc" /\ a \in held /\ held' = held \ {a}
    PROVE  LockedInv'
<1>1. /\ pc[t] = "idle" /\ pc' = [pc EXCEPT ![t] = "lock"]
      /\ call' = [call EXCEPT ![t] = [kind |-> k, arg |-> a]]
      /\ UNCHANGED <<vars, locked, reg>>
  BY DEF Enter, Goto
<1>2. /\ pc \in [Threads -> PCs] /\ reg \in [Threads -> Nat] /\ "lock" \in PCs
      /\ call = [u \in Threads |-> call[u]]
      /\ pc'[t] = "lock" /\ call'[t] = [kind |-> k, arg |-> a] /\ reg[t] = NULL
      /\ \A u \in Threads : u # t => pc'[u] = pc[u] /\ call'[u] = call[u]
  BY <1>1 DEF LockedInv, ThreadsTypeOK, CallInv, PCs, ReadInv, Knows
<1>3. call'[t].kind = k /\ call'[t].arg = a
  BY <1>2
<1>4. live' = live /\ reg' = reg /\ initialized' = initialized /\ locked' = locked
  BY <1>1 DEF vars
<1>5. held \subseteq live /\ live \subseteq [ptr : Nat, layout : Layouts]
  BY DEF LockedInv, HandsInv, ThreadsTypeOK, TypeOK
<1>6. InCall(t)'
  BY <1>2, <1>3, <1>5 DEF InCall, AllocPCs, DeallocPCs
<1>7. Knows(t)'
  BY <1>2, <1>4 DEF Knows
<1>8. MutualExclusion'
  BY <1>1, <1>2, <1>4 DEF LockedInv, MutualExclusion, Inside
<1>9. HandsInv'
  <2>1. \A u \in Threads : u # t =>
           (Releasing(u)' <=> Releasing(u)) /\ (Granting(u)' <=> Granting(u))
           /\ Granted(u)' = Granted(u) /\ call'[u].arg = call[u].arg
    BY <1>2, <1>4 DEF Releasing, Granting, Granted
  <2>2. ~ Granting(t)' /\ (Releasing(t)' => k = "dealloc")
    BY <1>2, <1>3 DEF Granting, Releasing
  <2>3. CASE k # "dealloc"
    <3>1. held' = held
      BY <2>3
    <3>2. QED
      BY <1>4, <2>1, <2>2, <2>3, <3>1 DEF LockedInv, HandsInv
  <2>4. CASE k = "dealloc"
    <3>1. a \in held /\ held' = held \ {a}
      BY <2>4
    <3>2. \A u \in Threads : u # t =>
             /\ Releasing(u) => call[u].arg \in live \ held /\ call[u].arg # a
             /\ Granting(u) => Granted(u) \in live \ held /\ Granted(u) # a
      BY <3>1 DEF LockedInv, HandsInv
    <3>3. QED
      BY <1>3, <1>4, <1>5, <2>1, <2>2, <3>1, <3>2 DEF LockedInv, HandsInv
  <2>5. QED
    BY <2>3, <2>4
<1>10. call' = [u \in Threads |-> call'[u]]
  BY <1>1, <1>2
<1>11. \A u \in Threads : u # t =>
          ~ (call'[u].kind = "init" /\ call'[t].kind = "init")
  BY <1>2, <1>3
<1>12. locked' \in BOOLEAN
  BY <1>4 DEF LockedInv, ThreadsTypeOK
<1>13. QED
  BY <1>1, <1>2, <1>3, <1>4, <1>6, <1>7, <1>8, <1>9, <1>10, <1>11, <1>12, OuterFrame

(* What a caller holds does not contain the node that a thread is about to *)
(* push.                                                                   *)
LEMMA StoreMissesNode ==
    ASSUME LockedInv, NEW t \in Threads, pc[t] = "push", NEW r \in held,
           NEW a \in Nat, r.ptr <= a, a < r.ptr + r.layout.size
    PROVE  a # Node(t)
<1>1. /\ SafeInv /\ NoOverlap /\ r \in live
      /\ call[t].kind \in {"alloc", "dealloc"} /\ Class(t) \in Classes /\ initialized
      /\ call[t].kind = "alloc" =>
            Node(t) = reg[t] /\ reg[t] \in Nat /\ Uncut(reg[t], Class(t))
      /\ call[t].kind = "dealloc" => Node(t) = call[t].arg.ptr /\ Releasing(t)
  BY NodeFree, Disjoint DEF LockedInv, IInv, HandsInv
<1>2. r.ptr \in Nat /\ r.layout.size \in Nat
  BY <1>1, LiveSpan, Sizes
<1>3. CASE call[t].kind = "dealloc"
  <2> DEFINE s == call[t].arg
  <2>1. s \in live /\ s # r
    BY <1>1, <1>3 DEF LockedInv, HandsInv
  <2>2. s.ptr \in Nat /\ s.layout.size \in Nat \ {0}
    BY <1>1, <2>1, LiveSpan, Sizes
  <2>3. Apart(r.ptr, r.layout.size, s.ptr, s.layout.size)
    BY <1>1, <2>1 DEF NoOverlap
  <2> HIDE DEF s
  <2>4. a # s.ptr
    BY <1>2, <2>2, <2>3 DEF Apart
  <2>5. QED
    BY <1>1, <1>3, <2>4 DEF s
<1>4. CASE call[t].kind = "alloc"
  <2> DEFINE b == reg[t]
             c == SIZE_CLASSES[Class(t)]
  <2>1. /\ b \in Nat /\ c \in Nat \ {0}
        /\ \A j \in Classes : \A e \in carved[j] : Apart(b, c, e, SIZE_CLASSES[j])
        /\ \A s \in live : ~ HasClass(s.layout) =>
              Apart(b, c, s.ptr, s.layout.size)
    BY <1>1, <1>4, UncutBlock, Sizes
  <2> HIDE DEF b, c
  <2>2. CASE HasClass(r.layout)
    <3> DEFINE j == class_index_for(r.layout)
    <3>1. /\ j \in Classes /\ r.ptr \in carved[j]
          /\ SIZE_CLASSES[j] \in Nat /\ r.layout.size <= SIZE_CLASSES[j]
      BY <1>1, <2>2, ClassIndex, Sizes DEF SafeInv, LiveInv, Fits
    <3> HIDE DEF j
    <3>2. Apart(b, c, r.ptr, SIZE_CLASSES[j])
      BY <2>1, <3>1
    <3>3. a # b
      BY <1>2, <2>1, <3>1, <3>2 DEF Apart
    <3>4. QED
      BY <1>1, <1>4, <3>3 DEF b
  <2>3. CASE ~ HasClass(r.layout)
    <3>1. Apart(b, c, r.ptr, r.layout.size)
      BY <1>1, <2>1, <2>3
    <3>2. a # b
      BY <1>2, <2>1, <3>1 DEF Apart
    <3>3. QED
      BY <1>1, <1>4, <3>2 DEF b
  <2>4. QED
    BY <2>2, <2>3
<1>5. QED
  BY <1>1, <1>3, <1>4

(* A caller writes in its memory, while another thread is inside.          *)
LEMMA CallerStoreKeeps ==
    ASSUME LockedInv, NEW r \in held, NEW a \in Addr, NEW v \in Junk,
           CallerStore(r, a, v)
    PROVE  LockedInv'
<1>1. r \in live /\ Store(r, a, v)
  BY DEF CallerStore, LockedInv, HandsInv
<1>2. SafeInv' /\ CompleteInv'
  BY <1>1, StoreStep DEF LockedInv, IInv
<1>3. /\ mem' = [mem EXCEPT ![a] = v]
      /\ UNCHANGED <<bump, head, live, carved, heap_start, heap_end, initialized,
                     held, locked, pc, call, reg>>
      /\ r.ptr <= a /\ a < r.ptr + r.layout.size /\ a \in Nat
  BY WordAssumption DEF CallerStore, Store, heapvars, Addr
<1>4. ASSUME NEW u \in Threads PROVE Knows(u)'
  <2>1. Knows(u)
    BY DEF LockedInv, ReadInv
  <2>2. pc[u] = "push" => mem'[Node(u)] = mem[Node(u)]
    <3> SUFFICES ASSUME pc[u] = "push" PROVE mem'[Node(u)] = mem[Node(u)]
      OBVIOUS
    <3>1. a # Node(u) /\ Node(u) \in Addr
      BY <1>3, StoreMissesNode, NodeFree
    <3>2. mem \in [Addr -> Nat]
      BY DEF LockedInv, ThreadsTypeOK, TypeOK
    <3>3. QED
      BY <1>3, <3>1, <3>2
  <2>3. QED
    BY <1>3, <2>1, <2>2, KnowsKept
<1>5. CallInv' /\ MutualExclusion'
  BY <1>3 DEF LockedInv, CallInv, InCall, MutualExclusion, Inside
<1>6. HandsInv'
  BY <1>3 DEF LockedInv, HandsInv, Releasing, Granting, Granted
<1>7. ThreadsTypeOK'
  BY <1>2, <1>3 DEF LockedInv, ThreadsTypeOK, SafeInv
<1>8. QED
  BY <1>2, <1>4, <1>5, <1>6, <1>7 DEF LockedInv, IInv, ReadInv

(* A step that changes nothing.                                            *)
LEMMA LockedStutter ==
    ASSUME LockedInv, UNCHANGED lockedvars
    PROVE  LockedInv'
<1>1. UNCHANGED <<vars, held, locked, pc, call, reg>>
  BY DEF lockedvars
<1>2. UNCHANGED <<heap_start, heap_end, bump, head, initialized, mem, live, carved>>
  BY <1>1 DEF vars
<1>3. SafeInv' /\ CompleteInv'
  BY <1>1, StutterStep DEF LockedInv, IInv
<1>4. \A u \in Threads : Knows(u)'
  BY <1>1, <1>2, KnowsKept DEF LockedInv, ReadInv
<1>5. CallInv' /\ MutualExclusion'
  BY <1>1, <1>2 DEF LockedInv, CallInv, InCall, MutualExclusion, Inside
<1>6. HandsInv'
  BY <1>1, <1>2 DEF LockedInv, HandsInv, Releasing, Granting, Granted
<1>7. ThreadsTypeOK'
  BY <1>1, <1>3 DEF LockedInv, ThreadsTypeOK, SafeInv
<1>8. QED
  BY <1>3, <1>4, <1>5, <1>6, <1>7 DEF LockedInv, IInv, ReadInv

(* At the start nobody is in a call and nothing has been handed out.       *)
LEMMA LockedInitInv == LockedInit => LockedInv
<1> SUFFICES ASSUME LockedInit PROVE LockedInv
  OBVIOUS
<1>1. /\ held = {} /\ locked = FALSE /\ live = {}
      /\ pc = [t \in Threads |-> "idle"] /\ call = [t \in Threads |-> NoCall]
      /\ reg = [t \in Threads |-> NULL]
  BY DEF LockedInit, Init
<1>2. IInv
  BY InitInv DEF LockedInit
<1>3. ThreadsTypeOK
  BY <1>1, <1>2 DEF ThreadsTypeOK, IInv, SafeInv, PCs, NoCall, NULL
<1>4. MutualExclusion
  BY <1>1 DEF MutualExclusion, Inside
<1>5. CallInv
  BY <1>1 DEF CallInv, InCall, NoCall
<1>6. HandsInv
  BY <1>1 DEF HandsInv, Releasing, Granting, NoCall
<1>7. ReadInv
  BY <1>1 DEF ReadInv, Knows
<1>8. QED
  BY <1>2, <1>3, <1>4, <1>5, <1>6, <1>7 DEF LockedInv

(* Every step of every thread keeps the invariant.                         *)
LEMMA LockedNextInv ==
    ASSUME LockedInv, [LockedNext]_lockedvars
    PROVE  LockedInv'
<1>1. ASSUME NEW t \in Threads, Step(t) PROVE LockedInv'
  <2>1. CASE PushNode(t)
    <3>1. call[t].kind \in {"alloc", "dealloc"}
      BY <2>1, NodeFree DEF PushNode
    <3>2. QED
      BY <2>1, <3>1, PushFreedKeeps, PushCutKeeps
  <2>2. CASE ~ PushNode(t)
    BY <1>1, <2>2, SetRegionKeeps, ChoosePathKeeps, ChooseDeallocKeeps,
       LargeStartKeeps, LargeEndKeeps, RefillStartKeeps, RefillEndKeeps,
       LinkNodeKeeps, ReadHeadKeeps, PopHeadKeeps, DropKeeps DEF Step
  <2>3. QED
    BY <2>1, <2>2
<1>2. ASSUME NEW t \in Threads, lock(t) PROVE LockedInv'
  BY <1>2, LockKeeps
<1>3. ASSUME NEW t \in Threads, NEW h \in Heaps, CallInit(t, h) PROVE LockedInv'
  BY <1>3, EnterKeeps DEF CallInit
<1>4. ASSUME NEW t \in Threads, NEW l \in Layouts, CallAlloc(t, l) PROVE LockedInv'
  BY <1>4, EnterKeeps DEF CallAlloc
<1>5. ASSUME NEW t \in Threads, NEW r \in held, CallDealloc(t, r) PROVE LockedInv'
  BY <1>5, EnterKeeps DEF CallDealloc
<1>6. ASSUME NEW r \in held, NEW a \in Addr, NEW v \in Junk, CallerStore(r, a, v)
      PROVE  LockedInv'
  BY <1>6, CallerStoreKeeps
<1>7. CASE UNCHANGED lockedvars
  BY <1>7, LockedStutter
<1>8. QED
  BY <1>1, <1>2, <1>3, <1>4, <1>5, <1>6, <1>7 DEF LockedNext
-----------------------------------------------------------------------------
(* With any number of threads, at every single store: the invariant.       *)
THEOREM LockedInvariant == LockedSpec => []LockedInv
<1>1. LockedInv /\ [LockedNext]_lockedvars => LockedInv'
  BY LockedNextInv
<1>2. QED
  BY <1>1, LockedInitInv, PTL DEF LockedSpec

(* The types of the threads' program counters, calls and registers, and of *)
(* the allocator they share.                                               *)
THEOREM ThreadsTyped == LockedSpec => []ThreadsTypeOK
<1>1. LockedInv => ThreadsTypeOK
  BY DEF LockedInv
<1>2. QED
  BY <1>1, LockedInvariant, PTL

(* SpinLock (lib.rs:33): whatever the threads call and however they are    *)
(* interleaved, at most one is between the compare-exchange that succeeds  *)
(* and the store that releases, and the lock word says whether one is.     *)
THEOREM LockExcludes == LockedSpec => []MutualExclusion
<1>1. LockedInv => MutualExclusion
  BY DEF LockedInv
<1>2. QED
  BY <1>1, LockedInvariant, PTL

(* No two allocations of any threads share a byte, the ones on their way   *)
(* to a caller or back included.                                           *)
THEOREM LockedDisjoint == LockedSpec => []NoOverlap
<1>1. LockedInv => NoOverlap
  BY Disjoint DEF LockedInv, IInv
<1>2. QED
  BY <1>1, LockedInvariant, PTL

(* No block is lost at any point of any call: the lists are whole between  *)
(* the two stores of a push and in the middle of a refill.                 *)
THEOREM LockedNothingLost == LockedSpec => []NoLostBlock
<1>1. LockedInv => NoLostBlock
  BY AllReached DEF LockedInv
<1>2. QED
  BY <1>1, LockedInvariant, PTL

(* The allocator behind the lock implements GlobalAlloc for its callers:   *)
(* the return of alloc grants fresh, aligned memory of the region that no  *)
(* caller holds, the call of dealloc gives memory back, and nothing else   *)
(* changes what callers hold.                                              *)
THEOREM CallersRefinement == LockedSpec => CallersSeeGlobalAlloc
<1>1. LockedInit => Callers!Init
  BY DEF LockedInit, Init, Callers!Init
<1>2. LockedInv /\ [LockedNext]_lockedvars => [Callers!Next]_(Callers!gvars)
  <2> SUFFICES ASSUME LockedInv, [LockedNext]_lockedvars
               PROVE  [Callers!Next]_(Callers!gvars)
    OBVIOUS
  <2>1. ASSUME NEW t \in Threads, drop(t) PROVE [Callers!Next]_(Callers!gvars)
    <3>1. UNCHANGED <<heap_start, heap_end>>
      BY <2>1 DEF drop, Return, vars
    <3>2. CASE ~ Granting(t)
      <4>1. held' = held
        BY <2>1, <3>2 DEF drop, Return, Granting
      <4>2. QED
        BY <3>1, <4>1 DEF Callers!gvars
    <3>3. CASE Granting(t)
      <4> DEFINE p == reg[t]
                 l == call[t].arg
                 g == [ptr |-> p, layout |-> l]
      <4>1. held' = held \cup {g} /\ call[t].kind = "alloc"
        BY <2>1, <3>3 DEF drop, Return, Granting, Layout
      <4>2. g \in live /\ g \notin held /\ g.ptr = p /\ g.layout = l
        BY <3>3 DEF LockedInv, HandsInv, Granted
      <4>3. l \in Layouts
        BY <4>1, CallLayout DEF Layout
      <4>4. NoOverlap /\ WellPlaced /\ held \subseteq live
        BY Disjoint, Placed DEF LockedInv, IInv, HandsInv
      <4> HIDE DEF g
      <4>5. heap_start <= p /\ p + l.size <= heap_end /\ p % l.align = 0
        BY <4>2, <4>4 DEF WellPlaced
      <4>6. p \in Nat /\ heap_start \in Nat /\ heap_end \in Nat /\ l.size \in Nat
        BY <4>3, Sizes DEF LockedInv, ThreadsTypeOK, TypeOK
      <4>7. p \in heap_start .. heap_end
        BY <4>5, <4>6
      <4>8. \A s \in held : Apart(p, l.size, s.ptr, s.layout.size)
        BY <4>2, <4>4 DEF NoOverlap
      <4>9. Callers!Grant(p, l)
        BY <3>1, <4>1, <4>5, <4>8 DEF Callers!Grant, Callers!Apart, Apart, g
      <4>10. QED
        BY <4>3, <4>7, <4>9 DEF Callers!Next
    <3>4. QED
      BY <3>2, <3>3
  <2>2. ASSUME NEW t \in Threads, SetRegion(t) PROVE Callers!Next
    <3>1. call[t].kind = "init" /\ call[t].arg \in Heaps /\ ~ initialized
      BY <2>2 DEF SetRegion, LockedInv, CallInv, InCall, NoCall, AllocPCs, DeallocPCs
    <3>2. Callers!GiveRegion(call[t].arg)
      BY <2>2, <3>1
         DEF SetRegion, Callers!GiveRegion, LockedInv, IInv, SafeInv, RegionInv
    <3>3. QED
      BY <3>1, <3>2 DEF Callers!Next
  <2>3. ASSUME NEW t \in Threads, Step(t), ~ drop(t), ~ SetRegion(t)
        PROVE  UNCHANGED Callers!gvars
    BY <2>3 DEF Step, ChoosePath, ChooseDealloc, LargeStart, LargeEnd, RefillStart,
       RefillEnd, ReadBump, MoveBump, LinkNode, PushNode, ReadHead, PopHead,
       vars, heapvars, Callers!gvars
  <2>4. ASSUME NEW t \in Threads, lock(t) PROVE UNCHANGED Callers!gvars
    BY <2>4 DEF lock, vars, Callers!gvars
  <2>5. ASSUME NEW t \in Threads, NEW h \in Heaps, CallInit(t, h)
        PROVE  UNCHANGED Callers!gvars
    BY <2>5 DEF CallInit, Enter, vars, Callers!gvars
  <2>6. ASSUME NEW t \in Threads, NEW l \in Layouts, CallAlloc(t, l)
        PROVE  UNCHANGED Callers!gvars
    BY <2>6 DEF CallAlloc, Enter, vars, Callers!gvars
  <2>7. ASSUME NEW t \in Threads, NEW r \in held, CallDealloc(t, r)
        PROVE  Callers!Next
    <3>1. Callers!TakeBack(r)
      BY <2>7 DEF CallDealloc, Enter, vars, Callers!TakeBack
    <3>2. QED
      BY <3>1 DEF Callers!Next
  <2>8. ASSUME NEW r \in held, NEW a \in Addr, NEW v \in Junk, CallerStore(r, a, v)
        PROVE  UNCHANGED Callers!gvars
    BY <2>8 DEF CallerStore, Store, heapvars, Callers!gvars
  <2>9. CASE UNCHANGED lockedvars
    BY <2>9 DEF lockedvars, vars, Callers!gvars
  <2>10. QED
    BY <2>1, <2>2, <2>3, <2>4, <2>5, <2>6, <2>7, <2>8, <2>9 DEF LockedNext
<1>3. QED
  BY <1>1, <1>2, LockedInvariant, PTL
     DEF LockedSpec, CallersSeeGlobalAlloc, Callers!Spec
=============================================================================
