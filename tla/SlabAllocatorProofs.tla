------------------------ MODULE SlabAllocatorProofs -------------------------
(***************************************************************************)
(* Proofs about SlabAllocator for every choice of size classes, chunk      *)
(* size, layouts, regions and word size that meet the assumptions there.   *)
(***************************************************************************)
EXTENDS SlabAllocator, FiniteSetTheorems, WellFoundedInduction, TLAPS

(* Multiples of b are at least b apart.                                    *)
LEMMA MulGap ==
    ASSUME NEW b \in Nat, NEW k \in Nat, NEW m \in Nat, k < m
    PROVE  k * b \in Nat /\ m * b \in Nat /\ k * b + b <= m * b
<1> DEFINE d == m - k - 1
<1>1. d \in Nat /\ m = k + 1 + d
  OBVIOUS
<1> HIDE DEF d
<1>2. d * b \in Nat /\ k * b \in Nat
  BY <1>1, SMT
<1>3. m * b = k * b + b + d * b
  BY <1>1, SMT
<1>4. QED
  BY <1>2, <1>3, SMT

(* What a remainder of zero means, both ways.                              *)
LEMMA ModZero ==
    ASSUME NEW a \in Nat, NEW b \in Nat \ {0}
    PROVE  a % b = 0 <=> \E q \in Nat : a = q * b
<1>1. a = b * (a \div b) + (a % b) /\ a \div b \in Nat /\ a % b \in 0 .. b - 1
  OBVIOUS
<1>2. ASSUME NEW q \in Nat, a = q * b PROVE a % b = 0
  BY <1>1, <1>2, SMT
<1>3. ASSUME a % b = 0 PROVE \E q \in Nat : a = q * b
  <2>1. a = (a \div b) * b
    BY <1>1, <1>3, SMT
  <2>2. QED
    BY <1>1, <2>1
<1>4. QED
  BY <1>2, <1>3

(* Divisibility is transitive.                                             *)
LEMMA ModTrans ==
    ASSUME NEW a \in Nat, NEW b \in Nat \ {0}, NEW c \in Nat \ {0},
           a % b = 0, b % c = 0
    PROVE  a % c = 0
<1>1. PICK q \in Nat : a = q * b
  BY ModZero
<1>2. PICK p \in Nat : b = p * c
  BY ModZero
<1>3. q * p \in Nat /\ a = (q * p) * c
  BY <1>1, <1>2, SMT
<1>4. QED
  BY <1>3, ModZero

(* A multiple of b plus a multiple of b is one.                            *)
LEMMA ModAdd ==
    ASSUME NEW a \in Nat, NEW b \in Nat \ {0}, NEW k \in Nat, a % b = 0
    PROVE  (a + k * b) % b = 0
<1>1. PICK q \in Nat : a = q * b
  BY ModZero
<1>2. q + k \in Nat /\ a + k * b = (q + k) * b /\ a + k * b \in Nat
  BY <1>1, SMT
<1>3. QED
  BY <1>2, ModZero

(* align_up rounds up to a multiple when the sum does not wrap.            *)
LEMMA AlignUp ==
    ASSUME NEW x \in Nat, NEW al \in Nat \ {0}, x + al <= WORD
    PROVE  /\ align_up(x, al) \in Nat
           /\ x <= align_up(x, al)
           /\ align_up(x, al) % al = 0
<1> DEFINE s == x + al - 1
<1>1. s \in Nat /\ s < WORD /\ WORD \in Nat \ {0}
  BY WordAssumption
<1>2. s % WORD = s
  BY <1>1, SMT
<1>3. align_up(x, al) = s - (s % al)
  BY <1>2 DEF align_up, MultipleBelow, Wrapped
<1>4. s = al * (s \div al) + (s % al) /\ s \div al \in Nat /\ s % al \in 0 .. al - 1
  BY <1>1, SMT
<1>5. x <= align_up(x, al) /\ align_up(x, al) \in Nat
  BY <1>1, <1>3, <1>4
<1> HIDE DEF s
<1>6. align_up(x, al) = (s \div al) * al
  BY <1>1, <1>3, <1>4, SMT
<1>7. align_up(x, al) % al = 0
  BY <1>4, <1>5, <1>6, ModZero
<1>8. QED
  BY <1>5, <1>6, <1>7

(* A set of numbers has a least one.  Where a property of all numbers is   *)
(* to be proved, the set is that of its counterexamples.                   *)
LEMMA Least ==
    ASSUME NEW T \in SUBSET Nat, T # {}
    PROVE  \E x \in T : \A y \in T : x <= y
<1>1. PICK x \in T : \A y \in T : ~ (<<y, x>> \in OpToRel(<, Nat))
  BY WFMin, NatLessThanWellFounded
<1>2. \A y \in T : ~ (y < x)
  BY <1>1 DEF OpToRel
<1>3. QED
  BY <1>2

(* A layout that some class holds has a class, the first that holds it.    *)
LEMMA ClassIndex ==
    ASSUME NEW l, HasClass(l)
    PROVE  class_index_for(l) \in Classes /\ Fits(l, class_index_for(l))
<1> DEFINE T == {i \in Classes : Fits(l, i)}
<1>1. T # {} /\ T \subseteq Nat
  BY DEF HasClass, Classes
<1>2. PICK x \in T : \A y \in T : x <= y
  BY <1>1, Least
<1>3. \A y \in T : ~ (y < x)
  BY <1>1, <1>2
<1>4. \A j \in 1 .. x - 1 : ~ Fits(l, j)
  BY <1>3, ClassAssumption DEF Classes
<1>5. QED
  BY <1>4 DEF class_index_for
-----------------------------------------------------------------------------
(* Layouts and classes, as the proofs use them.                            *)
LEMMA Sizes ==
    /\ \A i \in Classes : SIZE_CLASSES[i] \in Nat \ {0}
    /\ \A l \in Layouts : l.size \in Nat \ {0} /\ l.align \in Nat \ {0}
    /\ CHUNK_SIZE \in Nat \ {0} /\ WORD \in Nat \ {0}
<1>1. \A i \in Classes : SIZE_CLASSES[i] \in Nat \ {0}
  BY ClassAssumption DEF Classes
<1>2. QED
  BY <1>1, ClassAssumption, LayoutAssumption, WordAssumption

(* The blocks cut from an aligned chunk tile it: each is aligned to its    *)
(* class and inside the chunk, and any two are apart.                      *)
LEMMA Tiling ==
    ASSUME NEW chunk \in Nat, chunk % CHUNK_SIZE = 0, NEW i \in Classes
    PROVE  /\ LastBlock(chunk, i) \in Blocks(chunk, i)
           /\ \A a \in Blocks(chunk, i) :
                 /\ a \in Nat /\ chunk <= a
                 /\ a <= LastBlock(chunk, i)
                 /\ a + SIZE_CLASSES[i] <= chunk + CHUNK_SIZE
                 /\ a % SIZE_CLASSES[i] = 0
                 /\ a # chunk => a - SIZE_CLASSES[i] \in Blocks(chunk, i)
                 /\ a # LastBlock(chunk, i) =>
                       a + SIZE_CLASSES[i] \in Blocks(chunk, i)
           /\ \A a, b \in Blocks(chunk, i) :
                 a # b => Apart(a, SIZE_CLASSES[i], b, SIZE_CLASSES[i])
<1> DEFINE c == SIZE_CLASSES[i]
           n == BlockCount(i)
<1>1. c \in Nat \ {0} /\ CHUNK_SIZE \in Nat \ {0} /\ CHUNK_SIZE % c = 0
  BY Sizes, ClassAssumption
<1>2. PICK q \in Nat : CHUNK_SIZE = q * c
  BY <1>1, ModZero
<1>3. CHUNK_SIZE = c * n + (CHUNK_SIZE % c) /\ n \in Nat
  BY <1>1, SMT DEF BlockCount
<1>4. CHUNK_SIZE = n * c /\ n \in Nat \ {0}
  <2>1. CHUNK_SIZE = n * c
    BY <1>1, <1>3, SMT
  <2>2. n # 0
    BY <1>1, <2>1, SMT
  <2>3. QED
    BY <1>3, <2>1, <2>2
<1>5. Blocks(chunk, i) = {chunk + k * c : k \in 0 .. n - 1}
      /\ LastBlock(chunk, i) = chunk + (n - 1) * c
  BY DEF Blocks, LastBlock
<1>6. chunk % c = 0
  BY <1>1, ModTrans
<1> HIDE DEF c, n
<1>7. LastBlock(chunk, i) \in Blocks(chunk, i)
  <2>1. n - 1 \in 0 .. n - 1
    BY <1>4
  <2>2. QED
    BY <1>5, <2>1
<1>8. ASSUME NEW k \in 0 .. n - 1
      PROVE  /\ k * c \in Nat /\ k * c <= (n - 1) * c
             /\ k * c + c <= CHUNK_SIZE
             /\ (chunk + k * c) % c = 0
             /\ k # 0 => chunk + k * c - c \in Blocks(chunk, i)
  <2>1. k \in Nat /\ n \in Nat /\ k < n /\ n - 1 \in Nat
    BY <1>4, <1>8
  <2>2. k * c \in Nat /\ k * c + c <= CHUNK_SIZE
    BY <1>1, <1>4, <2>1, MulGap
  <2>3. k * c <= (n - 1) * c
    <3>1. CASE k = n - 1
      BY <2>1, <2>2, <3>1
    <3>2. CASE k # n - 1
      <4>1. k < n - 1
        BY <2>1, <3>2
      <4>2. k * c + c <= (n - 1) * c /\ (n - 1) * c \in Nat
        BY <1>1, <2>1, <4>1, MulGap
      <4>3. QED
        BY <1>1, <2>2, <4>2
    <3>3. QED
      BY <3>1, <3>2
  <2>4. (chunk + k * c) % c = 0
    BY <1>1, <1>6, <2>1, ModAdd
  <2>5. ASSUME k # 0 PROVE chunk + k * c - c \in Blocks(chunk, i)
    <3>1. k - 1 \in 0 .. n - 1
      BY <2>1, <2>5
    <3>2. (k - 1) * c = k * c - c
      BY <1>1, <2>1, SMT
    <3>3. chunk + (k - 1) * c = chunk + k * c - c
      BY <1>1, <2>2, <3>2
    <3>4. QED
      BY <1>5, <3>1, <3>3
  <2>6. QED
    BY <2>2, <2>3, <2>4, <2>5
<1>9. ASSUME NEW a \in Blocks(chunk, i)
      PROVE  /\ a \in Nat /\ chunk <= a
             /\ a <= LastBlock(chunk, i)
             /\ a + c <= chunk + CHUNK_SIZE
             /\ a % c = 0
             /\ a # chunk => a - c \in Blocks(chunk, i)
             /\ a # LastBlock(chunk, i) => a + c \in Blocks(chunk, i)
  <2>1. PICK k \in 0 .. n - 1 : a = chunk + k * c
    BY <1>5
  <2>2. k = 0 => a = chunk
    BY <1>1, <2>1
  <2>3. (n - 1) * c \in Nat
    <3>1. n - 1 \in 0 .. n - 1
      BY <1>4
    <3>2. QED
      BY <1>8, <3>1
  <2> DEFINE kc == k * c
             nc == (n - 1) * c
  <2>4. /\ kc \in Nat /\ nc \in Nat /\ kc <= nc /\ kc + c <= CHUNK_SIZE
        /\ a = chunk + kc /\ LastBlock(chunk, i) = chunk + nc
    BY <1>5, <1>8, <2>1, <2>3
  <2>5. a % c = 0 /\ (a # chunk => a - c \in Blocks(chunk, i))
    <3>1. (chunk + kc) % c = 0
          /\ (k # 0 => chunk + kc - c \in Blocks(chunk, i))
      BY <1>8
    <3> HIDE DEF kc
    <3>2. a % c = 0
      BY <2>4, <3>1
    <3>3. a # chunk => a - c \in Blocks(chunk, i)
      BY <1>1, <2>2, <2>4, <3>1
    <3>4. QED
      BY <3>2, <3>3
  <2> HIDE DEF kc, nc
  <2>6. /\ a \in Nat /\ chunk <= a
        /\ a <= LastBlock(chunk, i) /\ a + c <= chunk + CHUNK_SIZE
    BY <1>1, <2>4
  <2>7. ASSUME a # LastBlock(chunk, i)
        PROVE  a + c \in Blocks(chunk, i)
    <3>1. k # n - 1
      BY <1>5, <2>1, <2>7
    <3>2. k + 1 \in 0 .. n - 1
      BY <1>4, <3>1
    <3>3. (k + 1) * c = kc + c
      BY <1>1, <1>4, <2>1, SMT DEF kc
    <3>4. chunk + (k + 1) * c = a + c
      BY <1>1, <2>4, <3>3
    <3>5. QED
      BY <1>5, <3>2, <3>4
  <2>8. QED
    BY <2>5, <2>6, <2>7
<1>10. ASSUME NEW a \in Blocks(chunk, i), NEW b \in Blocks(chunk, i), a # b
       PROVE  Apart(a, c, b, c)
  <2>1. PICK k \in 0 .. n - 1 : a = chunk + k * c
    BY <1>5
  <2>2. PICK m \in 0 .. n - 1 : b = chunk + m * c
    BY <1>5
  <2>3. k \in Nat /\ m \in Nat /\ (k < m \/ m < k)
    BY <1>4, <1>10, <2>1, <2>2
  <2>4. k < m => k * c + c <= m * c
    BY <1>1, <2>3, MulGap
  <2>5. m < k => m * c + c <= k * c
    BY <1>1, <2>3, MulGap
  <2>6. k * c \in Nat /\ m * c \in Nat
    BY <1>8
  <2> DEFINE kc == k * c
             mc == m * c
  <2>7. /\ kc \in Nat /\ mc \in Nat /\ a = chunk + kc /\ b = chunk + mc
        /\ kc + c <= mc \/ mc + c <= kc
    BY <2>1, <2>2, <2>3, <2>4, <2>5, <2>6
  <2> HIDE DEF kc, mc
  <2>8. QED
    BY <1>1, <2>7 DEF Apart
<1>11. QED
  BY <1>7, <1>9, <1>10 DEF c
-----------------------------------------------------------------------------
(* No address is a block twice, and a block is apart from every allocation *)
(* that is not that block.                                                 *)
LEMMA OneClass ==
    ASSUME TypeOK, BlocksInv, NEW i \in Classes, NEW j \in Classes,
           NEW a \in carved[i], a \in carved[j]
    PROVE  i = j
<1>1. a \in Nat /\ SIZE_CLASSES[i] \in Nat \ {0} /\ SIZE_CLASSES[j] \in Nat \ {0}
  BY Sizes DEF TypeOK
<1>2. i # j => Apart(a, SIZE_CLASSES[i], a, SIZE_CLASSES[j])
  BY DEF BlocksInv
<1>3. QED
  BY <1>1, <1>2 DEF Apart

(* A large allocation does not start where a block does.                   *)
LEMMA LargeNotBlock ==
    ASSUME TypeOK, LiveInv, NEW r \in live, ~ HasClass(r.layout),
           NEW i \in Classes
    PROVE  r.ptr \notin carved[i]
<1>1. r.ptr \in Nat /\ SIZE_CLASSES[i] \in Nat \ {0}
      /\ r.layout.size \in Nat \ {0}
  BY Sizes DEF TypeOK
<1>2. r.ptr \in carved[i] =>
         Apart(r.ptr, r.layout.size, r.ptr, SIZE_CLASSES[i])
  BY DEF LiveInv
<1>3. QED
  BY <1>1, <1>2 DEF Apart

(* Holding one more allocation adds its address, and letting go of one     *)
(* removes its address, since no other allocation has it.                  *)
LEMMA HoldPtrs ==
    ASSUME NEW p, NEW l, Hold(p, l)
    PROVE  LivePtrs' = LivePtrs \cup {p}
<1> DEFINE r == [ptr |-> p, layout |-> l]
<1>1. live' = live \cup {r} /\ r.ptr = p
  BY DEF Hold
<1> HIDE DEF r
<1>2. QED
  BY <1>1, Zenon DEF LivePtrs

(* Removing an allocation removes its address and no other, as no address  *)
(* is held twice.                                                          *)
LEMMA LetGoPtrs ==
    ASSUME LiveInv, NEW r \in live, live' = live \ {r}
    PROVE  LivePtrs' = LivePtrs \ {r.ptr}
<1>1. \A s \in live : s.ptr = r.ptr => s = r
  BY DEF LiveInv
<1>2. QED
  BY <1>1, Zenon DEF LivePtrs

(* Allocations lie between the start of the region and the bump pointer.   *)
LEMMA LiveSpan ==
    ASSUME SafeInv, NEW r \in live
    PROVE  /\ initialized
           /\ r.ptr \in Nat /\ r.layout \in Layouts
           /\ 0 < r.ptr /\ heap_start <= r.ptr
           /\ r.ptr + r.layout.size <= bump
           /\ r.ptr % r.layout.align = 0
<1>1. r.ptr \in Nat /\ r.layout \in Layouts
      /\ r.layout.size \in Nat \ {0} /\ r.layout.align \in Nat \ {0}
  BY Sizes DEF SafeInv, TypeOK
<1>2. initialized /\ 0 < heap_start /\ heap_start \in Nat /\ bump \in Nat
  BY DEF SafeInv, RegionInv, TypeOK
<1>3. CASE HasClass(r.layout)
  <2> DEFINE i == class_index_for(r.layout)
  <2>1. i \in Classes /\ Fits(r.layout, i)
    BY <1>3, ClassIndex
  <2>2. r.ptr \in carved[i]
    BY <1>3 DEF SafeInv, LiveInv
  <2>3. /\ heap_start <= r.ptr /\ r.ptr + SIZE_CLASSES[i] <= bump
        /\ r.ptr % SIZE_CLASSES[i] = 0
    BY <2>1, <2>2 DEF SafeInv, BlocksInv
  <2> HIDE DEF i
  <2>4. SIZE_CLASSES[i] \in Nat \ {0} /\ r.layout.size <= SIZE_CLASSES[i]
        /\ r.layout.align <= SIZE_CLASSES[i]
    BY <2>1, Sizes DEF Fits
  <2>5. SIZE_CLASSES[i] % r.layout.align = 0
    BY <1>1, <2>1, <2>4, LayoutAssumption
  <2>6. r.ptr % r.layout.align = 0
    BY <1>1, <2>3, <2>4, <2>5, ModTrans
  <2>7. QED
    BY <1>1, <1>2, <2>3, <2>4, <2>6
<1>4. CASE ~ HasClass(r.layout)
  BY <1>1, <1>2, <1>4 DEF SafeInv, LiveInv
<1>5. QED
  BY <1>3, <1>4

(* Allocations that are not the same one do not share a byte.              *)
LEMMA Disjoint == SafeInv => NoOverlap
<1> SUFFICES ASSUME SafeInv, NEW r \in live, NEW s \in live, r # s
             PROVE  Apart(r.ptr, r.layout.size, s.ptr, s.layout.size)
  BY DEF NoOverlap
<1> DEFINE i == class_index_for(r.layout)
           j == class_index_for(s.layout)
<1>1. /\ r.ptr \in Nat /\ r.layout.size \in Nat
      /\ s.ptr \in Nat /\ s.layout.size \in Nat
  BY Sizes DEF SafeInv, TypeOK
<1>2. r.ptr # s.ptr
  BY DEF SafeInv, LiveInv
<1>3. HasClass(r.layout) => /\ i \in Classes /\ r.ptr \in carved[i]
                            /\ SIZE_CLASSES[i] \in Nat
                            /\ r.layout.size <= SIZE_CLASSES[i]
  BY ClassIndex, Sizes DEF SafeInv, LiveInv, Fits
<1>4. HasClass(s.layout) => /\ j \in Classes /\ s.ptr \in carved[j]
                            /\ SIZE_CLASSES[j] \in Nat
                            /\ s.layout.size <= SIZE_CLASSES[j]
  BY ClassIndex, Sizes DEF SafeInv, LiveInv, Fits
<1> HIDE DEF i, j
<1>5. CASE HasClass(r.layout) /\ HasClass(s.layout)
  <2>1. Apart(r.ptr, SIZE_CLASSES[i], s.ptr, SIZE_CLASSES[j])
    BY <1>2, <1>3, <1>4, <1>5 DEF SafeInv, BlocksInv
  <2>2. QED
    BY <1>1, <1>3, <1>4, <1>5, <2>1 DEF Apart
<1>6. CASE ~ HasClass(r.layout) /\ HasClass(s.layout)
  <2>1. Apart(r.ptr, r.layout.size, s.ptr, SIZE_CLASSES[j])
    BY <1>4, <1>6 DEF SafeInv, LiveInv
  <2>2. QED
    BY <1>1, <1>4, <1>6, <2>1 DEF Apart
<1>7. CASE HasClass(r.layout) /\ ~ HasClass(s.layout)
  <2>1. Apart(s.ptr, s.layout.size, r.ptr, SIZE_CLASSES[i])
    BY <1>3, <1>7 DEF SafeInv, LiveInv
  <2>2. QED
    BY <1>1, <1>3, <1>7, <2>1 DEF Apart
<1>8. CASE ~ HasClass(r.layout) /\ ~ HasClass(s.layout)
  BY <1>8 DEF SafeInv, LiveInv
<1>9. QED
  BY <1>5, <1>6, <1>7, <1>8
-----------------------------------------------------------------------------
(* Free lists as such: the list that starts at h and follows the links in  *)
(* m leaves out nothing of F.                                              *)
Whole(h, m, F) ==
    \A S \in SUBSET F :
       (/\ h # NULL => h \in S
        /\ \A a \in S : m[a] # NULL => m[a] \in S) => S = F

(* It is what Complete says of a class, in a state and in the next one.    *)
LEMMA CompleteIsWhole ==
    ASSUME NEW i \in Classes
    PROVE  /\ Complete(i) <=> Whole(head[i], mem, Free(i))
           /\ Complete(i)' <=> Whole(head'[i], mem', Free(i)')
BY DEF Complete, Whole

(* Only the links in the blocks of the list count.                         *)
LEMMA WholeSame ==
    ASSUME NEW h, NEW m, NEW n, NEW F, Whole(h, m, F),
           \A a \in F : n[a] = m[a]
    PROVE  Whole(h, n, F)
BY DEF Whole

(* Popping the head leaves a whole list of the others: what they miss, the *)
(* list missed before.                                                     *)
LEMMA WholePop ==
    ASSUME NEW h, NEW m, NEW F, Whole(h, m, F), h \in F
    PROVE  Whole(m[h], m, F \ {h})
<1> SUFFICES ASSUME NEW S \in SUBSET (F \ {h}),
                    m[h] # NULL => m[h] \in S,
                    \A a \in S : m[a] # NULL => m[a] \in S
             PROVE  S = F \ {h}
  BY DEF Whole
<1> DEFINE T == S \cup {h}
<1>1. T \in SUBSET F /\ h \in T
  OBVIOUS
<1>2. \A a \in T : m[a] # NULL => m[a] \in T
  OBVIOUS
<1>3. T = F
  BY <1>1, <1>2 DEF Whole
<1>4. QED
  BY <1>3

(* Pushing a block that links to the old head makes it the head of a whole *)
(* list again.                                                             *)
LEMMA WholePush ==
    ASSUME NEW h, NEW m, NEW n, NEW F, NEW p, Whole(h, m, F),
           p \notin F, p # NULL, n[p] = h,
           \A a \in F : n[a] = m[a],
           h # NULL => h \in F,
           \A a \in F : m[a] # NULL => m[a] \in F
    PROVE  Whole(p, n, F \cup {p})
<1> SUFFICES ASSUME NEW S \in SUBSET (F \cup {p}), p \in S,
                    \A a \in S : n[a] # NULL => n[a] \in S
             PROVE  S = F \cup {p}
  BY DEF Whole
<1> DEFINE T == S \ {p}
<1>1. T \in SUBSET F
  OBVIOUS
<1>2. h # NULL => h \in T
  OBVIOUS
<1>3. \A a \in T : m[a] # NULL => m[a] \in T
  OBVIOUS
<1>4. T = F
  BY <1>1, <1>2, <1>3 DEF Whole
<1>5. QED
  BY <1>4

(* A null head means that there is nothing on the list.                    *)
LEMMA WholeEmpty ==
    ASSUME NEW m, NEW F, Whole(NULL, m, F)
    PROVE  F = {}
<1>1. {} \in SUBSET F
  OBVIOUS
<1>2. QED
  BY <1>1 DEF Whole

(* A class that keeps its head, its free blocks and the links in them      *)
(* keeps its list.                                                         *)
LEMMA SameList ==
    ASSUME NEW j \in Classes, Complete(j), head'[j] = head[j],
           Free(j)' = Free(j), \A a \in Free(j) : mem'[a] = mem[a]
    PROVE  Complete(j)'
<1>1. Whole(head[j], mem, Free(j))
  BY CompleteIsWhole
<1>2. Whole(head[j], mem', Free(j))
  BY <1>1, WholeSame
<1>3. QED
  BY <1>2, CompleteIsWhole
-----------------------------------------------------------------------------
(* The invariant holds initially and is kept by every action.              *)
LEMMA InitInv == Init => IInv
<1> SUFFICES ASSUME Init PROVE IInv
  OBVIOUS
<1>1. /\ live = {} /\ initialized = FALSE
      /\ \A i \in Classes : head[i] = NULL /\ carved[i] = {}
  BY DEF Init
<1>2. TypeOK
  BY DEF Init, TypeOK, NULL
<1>3. RegionInv
  BY <1>1 DEF Init, RegionInv
<1>4. BlocksInv /\ LiveInv /\ ListsInv
  BY <1>1 DEF BlocksInv, LiveInv, ListsInv, Free
<1>5. CompleteInv
  BY <1>1 DEF CompleteInv, Complete, Free
<1>6. QED
  BY <1>2, <1>3, <1>4, <1>5 DEF SafeInv, IInv

(* init only sets the bounds: there is nothing in the region yet.          *)
LEMMA InitStep ==
    ASSUME SafeInv, CompleteInv, NEW h \in Heaps, init(h)
    PROVE  SafeInv' /\ CompleteInv'
<1>1. /\ live = {} /\ live' = live /\ initialized'
      /\ \A i \in Classes : head[i] = NULL /\ carved[i] = {}
      /\ head' = head /\ carved' = carved /\ mem' = mem
  BY DEF SafeInv, RegionInv, init
<1>2. h.start \in Nat \ {0} /\ h.size \in Nat \ {0}
      /\ h.start + h.size + CHUNK_SIZE <= WORD
      /\ \A l \in Layouts : h.start + h.size + l.align <= WORD
  BY HeapAssumption
<1>3. TypeOK'
  BY <1>1, <1>2 DEF SafeInv, TypeOK, init
<1>4. RegionInv'
  BY <1>1, <1>2 DEF RegionInv, init
<1>5. BlocksInv' /\ LiveInv' /\ ListsInv'
  BY <1>1 DEF BlocksInv, LiveInv, ListsInv, Free
<1>6. CompleteInv'
  BY <1>1 DEF CompleteInv, Complete, Free
<1>7. QED
  BY <1>3, <1>4, <1>5, <1>6 DEF SafeInv

(* Popping a free list: the block leaves it, and since no link and no      *)
(* other link led to it, nothing else does.                                *)
LEMMA PopStep ==
    ASSUME SafeInv, CompleteInv, NEW l \in Layouts, AllocPop(l)
    PROVE  SafeInv' /\ CompleteInv'
<1> DEFINE i == class_index_for(l)
           p == head[i]
           r == [ptr |-> p, layout |-> l]
<1>1. i \in Classes /\ HasClass(l)
  BY ClassIndex DEF AllocPop
<1>2. /\ initialized /\ p # NULL /\ live' = live \cup {r}
      /\ head' = [head EXCEPT ![i] = mem[p]]
      /\ UNCHANGED <<bump, mem, carved, heap_start, heap_end, initialized>>
  BY DEF AllocPop, Hold, heapvars
<1>3. p \in Free(i) /\ p \in Nat
  BY <1>1, <1>2 DEF SafeInv, ListsInv, TypeOK
<1>4. p \in carved[i] /\ \A s \in live : s.ptr # p
  BY <1>3 DEF Free, LivePtrs
<1>5. p \in Addr /\ mem[p] \in Nat
  <2>1. p + SIZE_CLASSES[i] <= bump /\ bump <= heap_end
        /\ heap_end + CHUNK_SIZE <= WORD
    BY <1>1, <1>2, <1>4 DEF SafeInv, BlocksInv, RegionInv
  <2>2. /\ SIZE_CLASSES[i] \in Nat /\ CHUNK_SIZE \in Nat \ {0}
        /\ WORD \in Nat /\ bump \in Nat /\ heap_end \in Nat
    BY <1>1, Sizes DEF SafeInv, TypeOK
  <2>3. p \in Addr
    BY <1>3, <2>1, <2>2 DEF Addr
  <2>4. QED
    BY <2>3 DEF SafeInv, TypeOK
<1>6. \A j \in Classes : Free(j)' = Free(j) \ {p}
  <2>1. LivePtrs' = LivePtrs \cup {p} /\ carved' = carved
    BY <1>2, HoldPtrs DEF AllocPop
  <2>2. QED
    BY <2>1 DEF Free
<1>7. \A j \in Classes \ {i} : p \notin Free(j)
  BY <1>1, <1>4, OneClass DEF SafeInv, Free
<1> HIDE DEF i, p
<1>8. TypeOK'
  BY <1>1, <1>2, <1>3, <1>5 DEF SafeInv, TypeOK
<1>9. RegionInv'
  BY <1>2 DEF SafeInv, RegionInv
<1>10. BlocksInv'
  BY <1>2 DEF SafeInv, BlocksInv
<1>11. LiveInv'
  <2>1. \A s \in live' : HasClass(s.layout) =>
           s.ptr \in carved'[class_index_for(s.layout)]
    BY <1>2, <1>4 DEF SafeInv, LiveInv, i
  <2>2. \A s \in live' : ~ HasClass(s.layout) => s \in live
    BY <1>1, <1>2
  <2>3. \A s, t \in live' : s.ptr = t.ptr => s = t
    BY <1>2, <1>4 DEF SafeInv, LiveInv
  <2>4. QED
    BY <1>2, <2>1, <2>2, <2>3 DEF SafeInv, LiveInv
<1>12. ListsInv' /\ CompleteInv'
  <2>1. ASSUME NEW j \in Classes, j # i
        PROVE  /\ head'[j] = head[j] /\ Free(j)' = Free(j)
    BY <1>1, <1>2, <1>6, <1>7, <2>1 DEF SafeInv, TypeOK
  <2>2. head'[i] = mem[p] /\ p = head[i]
    BY <1>1, <1>2 DEF SafeInv, TypeOK, p
  <2>3. mem[p] # NULL => mem[p] \in Free(i) /\ mem[p] # p
    BY <1>1, <1>3, <2>2 DEF SafeInv, ListsInv
  <2>4. \A a \in Free(i) : mem[a] # NULL =>
           /\ mem[a] \in Free(i) /\ mem[a] # p
           /\ \A b \in Free(i) : b # a => mem[b] # mem[a]
    BY <1>1, <2>2 DEF SafeInv, ListsInv
  <2>5. mem' = mem
    BY <1>2
  <2>6. ASSUME NEW j \in Classes
        PROVE  /\ head'[j] # NULL => head'[j] \in Free(j)'
               /\ \A a \in Free(j)' : mem'[a] # NULL =>
                     /\ mem'[a] \in Free(j)' /\ mem'[a] # head'[j]
                     /\ \A b \in Free(j)' : b # a => mem'[b] # mem'[a]
    <3>1. CASE j = i
      BY <1>3, <1>6, <2>2, <2>3, <2>4, <2>5, <3>1
    <3>2. CASE j # i
      BY <2>1, <2>5, <3>2 DEF SafeInv, ListsInv
    <3>3. QED
      BY <3>1, <3>2
  <2>7. Complete(i)'
    <3>1. Whole(p, mem, Free(i))
      BY <1>1, <2>2, CompleteIsWhole DEF CompleteInv
    <3>2. Whole(mem[p], mem, Free(i) \ {p})
      BY <1>3, <3>1, WholePop
    <3>3. QED
      BY <1>1, <1>6, <2>2, <2>5, <3>2, CompleteIsWhole
  <2>8. \A j \in Classes : j # i => Complete(j)'
    BY <2>1, <2>5, SameList DEF CompleteInv
  <2>9. QED
    BY <2>6, <2>7, <2>8 DEF ListsInv, CompleteInv
<1>13. QED
  BY <1>8, <1>9, <1>10, <1>11, <1>12 DEF SafeInv

(* Giving a block back: it becomes the head and links to the old head;     *)
(* a large allocation is only forgotten.                                   *)
LEMMA DeallocStep ==
    ASSUME SafeInv, CompleteInv, NEW r \in live, dealloc(r)
    PROVE  SafeInv' /\ CompleteInv'
<1> DEFINE i == class_index_for(r.layout)
           p == r.ptr
<1>1. /\ live' = live \ {r}
      /\ UNCHANGED <<bump, carved, heap_start, heap_end, initialized>>
  BY DEF dealloc, heapvars
<1>2. LivePtrs' = LivePtrs \ {p}
  BY <1>1, LetGoPtrs DEF SafeInv
<1>3. p \in Nat /\ p \in LivePtrs /\ initialized
      /\ r.layout.size \in Nat \ {0} /\ 0 < p /\ p + r.layout.size <= bump
  BY LiveSpan, Sizes DEF LivePtrs
<1>4. p \in Addr
  <2>1. bump <= heap_end /\ heap_end + CHUNK_SIZE <= WORD
    BY <1>3 DEF SafeInv, RegionInv
  <2>2. /\ CHUNK_SIZE \in Nat /\ WORD \in Nat
        /\ bump \in Nat /\ heap_end \in Nat
    BY Sizes DEF SafeInv, TypeOK
  <2>3. QED
    BY <1>3, <2>1, <2>2 DEF Addr
<1>5. RegionInv' <=> RegionInv
         /\ \A j \in Classes : ~ initialized => head'[j] = NULL
  BY <1>1, <1>3 DEF SafeInv, RegionInv
<1>6. RegionInv'
  BY <1>3, <1>5 DEF SafeInv
<1>7. BlocksInv'
  BY <1>1 DEF SafeInv, BlocksInv
<1>8. LiveInv'
  BY <1>1 DEF SafeInv, LiveInv
<1>9. CASE ~ HasClass(r.layout)
  <2>1. mem' = mem /\ head' = head
    BY <1>9 DEF dealloc
  <2>2. TypeOK'
    BY <1>1, <2>1 DEF SafeInv, TypeOK
  <2>3. \A j \in Classes : Free(j)' = Free(j)
    BY <1>1, <1>2, <1>9, LargeNotBlock DEF SafeInv, Free
  <2>4. ListsInv'
    BY <2>1, <2>3 DEF SafeInv, ListsInv
  <2>5. CompleteInv'
    BY <2>1, <2>3, SameList DEF CompleteInv
  <2>6. QED
    BY <1>6, <1>7, <1>8, <2>2, <2>4, <2>5 DEF SafeInv
<1>10. CASE HasClass(r.layout)
  <2>1. /\ mem'  = [mem EXCEPT ![p] = head[i]]
        /\ head' = [head EXCEPT ![i] = p]
    BY <1>10 DEF dealloc
  <2>2. i \in Classes /\ p \in carved[i]
    BY <1>10, ClassIndex DEF SafeInv, LiveInv
  <2> HIDE DEF i, p
  <2>3. TypeOK'
    BY <1>1, <1>3, <1>4, <2>1, <2>2 DEF SafeInv, TypeOK
  <2>4. Free(i)' = Free(i) \cup {p} /\ p \notin Free(i)
    BY <1>1, <1>2, <1>3, <2>2 DEF Free
  <2>5. ASSUME NEW j \in Classes, j # i
        PROVE  /\ head'[j] = head[j] /\ Free(j)' = Free(j)
               /\ \A a \in Free(j) : mem'[a] = mem[a]
    <3>1. p \notin carved[j]
      BY <2>2, <2>5, OneClass DEF SafeInv
    <3>2. Free(j)' = Free(j)
      BY <1>1, <1>2, <3>1 DEF Free
    <3>3. head'[j] = head[j]
      BY <2>1, <2>2, <2>5 DEF SafeInv, TypeOK
    <3>4. \A a \in Free(j) : mem'[a] = mem[a]
      BY <2>1, <3>1 DEF SafeInv, TypeOK, Free
    <3>5. QED
      BY <3>2, <3>3, <3>4
  <2>6. /\ head'[i] = p /\ mem'[p] = head[i]
        /\ \A a \in Free(i) : mem'[a] = mem[a]
    BY <1>4, <2>1, <2>2, <2>4 DEF SafeInv, TypeOK
  <2>7. /\ head[i] # NULL => head[i] \in Free(i)
        /\ \A a \in Free(i) : mem[a] # NULL =>
              /\ mem[a] \in Free(i) /\ mem[a] # head[i]
              /\ \A b \in Free(i) : b # a => mem[b] # mem[a]
    BY <2>2 DEF SafeInv, ListsInv
  <2>8. ASSUME NEW j \in Classes
        PROVE  /\ head'[j] # NULL => head'[j] \in Free(j)'
               /\ \A a \in Free(j)' : mem'[a] # NULL =>
                     /\ mem'[a] \in Free(j)' /\ mem'[a] # head'[j]
                     /\ \A b \in Free(j)' : b # a => mem'[b] # mem'[a]
    <3>1. CASE j = i
      BY <2>4, <2>6, <2>7, <3>1
    <3>2. CASE j # i
      BY <2>5, <3>2 DEF SafeInv, ListsInv
    <3>3. QED
      BY <3>1, <3>2
  <2>9. ListsInv'
    BY <2>8 DEF ListsInv
  <2>10. Complete(i)'
    <3>1. Whole(head[i], mem, Free(i))
      BY <2>2, CompleteIsWhole DEF CompleteInv
    <3>2. p # NULL
      BY <1>3 DEF NULL, p
    <3>3. Whole(p, mem', Free(i) \cup {p})
      BY <2>4, <2>6, <2>7, <3>1, <3>2, WholePush
    <3>4. QED
      BY <2>2, <2>4, <2>6, <3>3, CompleteIsWhole
  <2>11. CompleteInv'
    BY <2>5, <2>10, SameList DEF CompleteInv
  <2>12. QED
    BY <1>6, <1>7, <1>8, <2>3, <2>9, <2>11 DEF SafeInv
<1>11. QED
  BY <1>9, <1>10

(* Memory that a caller holds is no free block, and has no free block in   *)
(* it.                                                                     *)
LEMMA HeldNotFree ==
    ASSUME SafeInv, NEW r \in live, NEW a \in Nat,
           r.ptr <= a, a < r.ptr + r.layout.size, NEW j \in Classes
    PROVE  a \notin Free(j)
<1> SUFFICES ASSUME a \in carved[j], a \notin LivePtrs PROVE FALSE
  BY DEF Free
<1>1. r.ptr \in Nat /\ r.layout.size \in Nat
  BY LiveSpan, Sizes
<1>2. a # r.ptr
  BY DEF LivePtrs
<1>3. SIZE_CLASSES[j] \in Nat \ {0}
  BY Sizes
<1>4. CASE HasClass(r.layout)
  <2> DEFINE i == class_index_for(r.layout)
  <2>1. /\ i \in Classes /\ r.ptr \in carved[i]
        /\ SIZE_CLASSES[i] \in Nat /\ r.layout.size <= SIZE_CLASSES[i]
    BY <1>4, ClassIndex, Sizes DEF SafeInv, LiveInv, Fits
  <2> HIDE DEF i
  <2>2. Apart(r.ptr, SIZE_CLASSES[i], a, SIZE_CLASSES[j])
    BY <1>2, <2>1 DEF SafeInv, BlocksInv
  <2>3. QED
    BY <1>1, <1>3, <2>1, <2>2 DEF Apart
<1>5. CASE ~ HasClass(r.layout)
  <2>1. Apart(r.ptr, r.layout.size, a, SIZE_CLASSES[j])
    BY <1>5 DEF SafeInv, LiveInv
  <2>2. QED
    BY <1>1, <1>3, <2>1 DEF Apart
<1>6. QED
  BY <1>4, <1>5

(* A store outside the free blocks disturbs nothing.                       *)
LEMMA WriteStep ==
    ASSUME SafeInv, CompleteInv, NEW a \in Addr, NEW v \in Nat,
           \A j \in Classes : a \notin Free(j),
           mem' = [mem EXCEPT ![a] = v],
           UNCHANGED <<bump, head, live, carved, heap_start, heap_end, initialized>>
    PROVE  SafeInv' /\ CompleteInv'
<1>1. \A j \in Classes : /\ Free(j)' = Free(j)
                         /\ \A b \in Free(j) : mem'[b] = mem[b]
  BY DEF Free, LivePtrs, SafeInv, TypeOK
<1>2. TypeOK'
  BY DEF SafeInv, TypeOK
<1>3. RegionInv' /\ BlocksInv' /\ LiveInv'
  BY DEF SafeInv, RegionInv, BlocksInv, LiveInv
<1>4. ListsInv'
  BY <1>1 DEF SafeInv, ListsInv
<1>5. CompleteInv'
  BY <1>1, SameList DEF CompleteInv
<1>6. QED
  BY <1>2, <1>3, <1>4, <1>5 DEF SafeInv

(* Callers write inside what they hold, so never into a free block.        *)
LEMMA StoreStep ==
    ASSUME SafeInv, CompleteInv, NEW r \in live, NEW a \in Addr, NEW v \in Junk,
           Store(r, a, v)
    PROVE  SafeInv' /\ CompleteInv'
<1>1. /\ mem' = [mem EXCEPT ![a] = v]
      /\ UNCHANGED <<bump, head, live, carved, heap_start, heap_end, initialized>>
  BY DEF Store, heapvars
<1>2. v \in Nat /\ a \in Nat
  BY JunkAssumption, WordAssumption DEF Addr
<1>3. \A j \in Classes : a \notin Free(j)
  BY <1>2, HeldNotFree DEF Store
<1>4. QED
  BY <1>1, <1>2, <1>3, WriteStep

(* Whatever the bump pointer hands out lies above everything handed out    *)
(* before, and inside the region.                                          *)
LEMMA BumpSpan ==
    ASSUME SafeInv, initialized, NEW size \in Nat, NEW align \in Nat \ {0},
           heap_end + align <= WORD, BumpFits(size, align)
    PROVE  /\ BumpStart(align) \in Nat /\ bump <= BumpStart(align)
           /\ BumpStart(align) % align = 0
           /\ BumpStart(align) + size <= heap_end
           /\ bump \in Nat /\ heap_start \in Nat /\ heap_end \in Nat
           /\ 0 < heap_start /\ heap_start <= bump
           /\ heap_end < WORD
<1>1. /\ bump \in Nat /\ heap_start \in Nat /\ heap_end \in Nat
      /\ 0 < heap_start /\ heap_start <= bump /\ bump <= heap_end
  BY DEF SafeInv, TypeOK, RegionInv
<1>2. bump + align <= WORD /\ heap_end < WORD /\ WORD \in Nat
  BY <1>1, WordAssumption
<1>3. QED
  BY <1>1, <1>2, AlignUp DEF BumpStart, BumpFits

(* Zero filling above the bump pointer leaves every block alone.           *)
LEMMA ZeroFillStep ==
    ASSUME SafeInv, initialized, NEW start \in Nat, NEW size \in Nat, bump <= start
    PROVE  /\ ZeroFill(mem, start, size) \in [Addr -> Nat]
           /\ \A j \in Classes : \A a \in carved[j] :
                 a \in Addr /\ a < start /\ ZeroFill(mem, start, size)[a] = mem[a]
<1>1. ZeroFill(mem, start, size) \in [Addr -> Nat]
  BY DEF SafeInv, TypeOK, ZeroFill
<1>2. ASSUME NEW j \in Classes, NEW a \in carved[j]
      PROVE  a \in Addr /\ a < start
  <2>1. a \in Nat /\ a + SIZE_CLASSES[j] <= bump /\ SIZE_CLASSES[j] \in Nat \ {0}
    BY Sizes DEF SafeInv, TypeOK, BlocksInv
  <2>2. /\ bump <= heap_end /\ heap_end + CHUNK_SIZE <= WORD
        /\ bump \in Nat /\ heap_end \in Nat /\ CHUNK_SIZE \in Nat /\ WORD \in Nat
    BY Sizes DEF SafeInv, TypeOK, RegionInv
  <2>3. QED
    BY <2>1, <2>2 DEF Addr
<1>3. QED
  <2>1. \A j \in Classes : \A a \in carved[j] : ~ (start <= a) /\ a \in Addr
    BY <1>2, WordAssumption DEF Addr
  <2>2. QED
    BY <1>1, <1>2, <2>1 DEF ZeroFill

(* A large allocation: above the bump pointer, so apart from everything.   *)
LEMMA LargeStep ==
    ASSUME SafeInv, CompleteInv, NEW l \in Layouts, AllocLarge(l)
    PROVE  SafeInv' /\ CompleteInv'
<1> DEFINE p == BumpStart(l.align)
           r == [ptr |-> p, layout |-> l]
<1>1. /\ initialized /\ ~ HasClass(l) /\ BumpFits(l.size, l.align)
      /\ bump' = p + l.size /\ mem' = ZeroFill(mem, p, l.size)
      /\ live' = live \cup {r} /\ r.ptr = p /\ r.layout = l
      /\ UNCHANGED <<head, carved, heap_start, heap_end, initialized>>
  BY DEF AllocLarge, Hold, heapvars
<1>2. l.size \in Nat \ {0} /\ l.align \in Nat \ {0}
  BY Sizes
<1>3. heap_end + l.align <= WORD
  BY <1>1 DEF SafeInv, RegionInv
<1>4. /\ p \in Nat /\ bump <= p /\ p % l.align = 0 /\ p + l.size <= heap_end
      /\ bump \in Nat /\ heap_start \in Nat /\ heap_end \in Nat
      /\ 0 < heap_start /\ heap_start <= bump
  BY <1>1, <1>2, <1>3, BumpSpan
<1>5. LivePtrs' = LivePtrs \cup {p}
  BY HoldPtrs DEF AllocLarge
<1> HIDE DEF p
<1>6. /\ mem' \in [Addr -> Nat]
      /\ \A j \in Classes : \A a \in carved[j] : a # p /\ mem'[a] = mem[a]
  <2>1. /\ mem' \in [Addr -> Nat]
        /\ \A j \in Classes : \A a \in carved[j] :
              a \in Addr /\ a < p /\ mem'[a] = mem[a]
    BY <1>1, <1>2, <1>4, ZeroFillStep
  <2>2. QED
    BY <1>4, <2>1, WordAssumption DEF Addr
<1>7. r \in [ptr : Nat, layout : Layouts]
  BY <1>4
<1> HIDE DEF r
<1>8. TypeOK'
  BY <1>1, <1>2, <1>4, <1>6, <1>7 DEF SafeInv, TypeOK
<1>9. RegionInv'
  BY <1>1, <1>2, <1>4 DEF SafeInv, RegionInv
<1>10. ASSUME NEW j \in Classes, NEW a \in carved[j]
       PROVE  /\ a \in Nat /\ SIZE_CLASSES[j] \in Nat
              /\ a + SIZE_CLASSES[j] <= bump /\ a + SIZE_CLASSES[j] <= bump'
              /\ Apart(p, l.size, a, SIZE_CLASSES[j])
  <2>1. a \in Nat /\ SIZE_CLASSES[j] \in Nat /\ a + SIZE_CLASSES[j] <= bump
    BY Sizes DEF SafeInv, TypeOK, BlocksInv
  <2>2. QED
    BY <1>1, <1>2, <1>4, <2>1 DEF Apart
<1>11. BlocksInv'
  BY <1>1, <1>10 DEF SafeInv, BlocksInv
<1>12. ASSUME NEW s \in live
       PROVE  /\ s.ptr # p /\ s.ptr + s.layout.size <= bump'
              /\ Apart(p, l.size, s.ptr, s.layout.size)
              /\ Apart(s.ptr, s.layout.size, p, l.size)
  <2>1. s.ptr \in Nat /\ s.layout.size \in Nat \ {0}
        /\ s.ptr + s.layout.size <= bump
    BY LiveSpan, Sizes
  <2>2. QED
    BY <1>1, <1>2, <1>4, <2>1 DEF Apart
<1>13. LiveInv'
  <2>1. \A s \in live' : HasClass(s.layout) => s \in live
    BY <1>1
  <2>2. heap_start <= p /\ p + l.size <= bump'
    BY <1>1, <1>2, <1>4
  <2>3. ASSUME NEW s \in live', ~ HasClass(s.layout)
        PROVE  /\ heap_start' <= s.ptr /\ s.ptr + s.layout.size <= bump'
               /\ s.ptr % s.layout.align = 0
               /\ \A i \in Classes : \A b \in carved'[i] :
                     Apart(s.ptr, s.layout.size, b, SIZE_CLASSES[i])
               /\ \A t \in live' : (t # s /\ ~ HasClass(t.layout)) =>
                     Apart(s.ptr, s.layout.size, t.ptr, t.layout.size)
    <3>1. CASE s = r
      BY <1>1, <1>4, <1>10, <1>12, <2>2, <3>1
    <3>2. CASE s \in live
      BY <1>1, <1>12, <2>3, <3>2 DEF SafeInv, LiveInv
    <3>3. QED
      BY <1>1, <3>1, <3>2
  <2>4. \A s, t \in live' : s.ptr = t.ptr => s = t
    BY <1>1, <1>12 DEF SafeInv, LiveInv
  <2>5. \A s \in live' : HasClass(s.layout) =>
           s.ptr \in carved'[class_index_for(s.layout)]
    BY <1>1, <2>1 DEF SafeInv, LiveInv
  <2>6. QED
    BY <2>3, <2>4, <2>5 DEF LiveInv
<1>14. \A j \in Classes : /\ Free(j)' = Free(j)
                          /\ \A a \in Free(j) : mem'[a] = mem[a]
  BY <1>1, <1>5, <1>6 DEF Free
<1>15. ListsInv'
  BY <1>1, <1>14 DEF SafeInv, ListsInv
<1>16. CompleteInv'
  BY <1>1, <1>14, SameList DEF CompleteInv
<1>17. QED
  BY <1>8, <1>9, <1>11, <1>13, <1>15, <1>16 DEF SafeInv

(* Refilling an empty list: the new blocks form a list of their own, the   *)
(* last one is handed out and the one before it becomes the head.          *)
LEMMA RefillStep ==
    ASSUME SafeInv, CompleteInv, NEW l \in Layouts, AllocRefill(l)
    PROVE  SafeInv' /\ CompleteInv'
<1> DEFINE i == class_index_for(l)
           c == SIZE_CLASSES[i]
           chunk == BumpStart(CHUNK_SIZE)
           z == ZeroFill(mem, chunk, CHUNK_SIZE)
           B == Blocks(chunk, i)
           p == LastBlock(chunk, i)
           r == [ptr |-> p, layout |-> l]
<1>1. /\ initialized /\ HasClass(l) /\ head[i] = NULL
      /\ BumpFits(CHUNK_SIZE, CHUNK_SIZE)
      /\ bump' = chunk + CHUNK_SIZE
      /\ carved' = [carved EXCEPT ![i] = @ \cup B]
      /\ head' = [head EXCEPT ![i] = mem'[p]]
      /\ live' = live \cup {r} /\ r.ptr = p /\ r.layout = l
      /\ UNCHANGED <<heap_start, heap_end, initialized>>
  BY DEF AllocRefill, Hold, heapvars
<1>2. i \in Classes /\ c \in Nat \ {0} /\ CHUNK_SIZE \in Nat \ {0}
  BY <1>1, ClassIndex, Sizes
<1>3. heap_end + CHUNK_SIZE <= WORD
  BY <1>1 DEF SafeInv, RegionInv
<1>4. /\ chunk \in Nat /\ bump <= chunk /\ chunk % CHUNK_SIZE = 0
      /\ chunk + CHUNK_SIZE <= heap_end
      /\ bump \in Nat /\ heap_start \in Nat /\ heap_end \in Nat
      /\ 0 < heap_start /\ heap_start <= bump /\ heap_end < WORD
  BY <1>1, <1>2, <1>3, BumpSpan
<1>5. /\ p \in B
      /\ \A a \in B : /\ a \in Nat /\ chunk <= a /\ a <= p
                      /\ a + c <= chunk + CHUNK_SIZE /\ a % c = 0
                      /\ a # chunk => a - c \in B
                      /\ a # p => a + c \in B
      /\ \A a, b \in B : a # b => Apart(a, c, b, c)
  BY <1>2, <1>4, Tiling
<1>6. /\ z \in [Addr -> Nat]
      /\ \A j \in Classes : \A a \in carved[j] :
            a \in Addr /\ a < chunk /\ z[a] = mem[a]
  BY <1>1, <1>2, <1>4, ZeroFillStep
<1>7. mem' = [a \in Addr |-> IF a \notin B THEN z[a]
                             ELSE IF a = chunk THEN NULL ELSE a - c]
  BY <1>1 DEF AllocRefill, Refilled, PushBlocks
<1>8. LivePtrs' = LivePtrs \cup {p}
  BY HoldPtrs DEF AllocRefill
<1> HIDE DEF i, c, chunk, z, B, p
<1>9. r \in [ptr : Nat, layout : Layouts]
  BY <1>5
<1> HIDE DEF r
<1>10. B \subseteq Addr
  BY <1>2, <1>4, <1>5, WordAssumption DEF Addr
<1>11. /\ mem' \in [Addr -> Nat]
       /\ \A a \in B : mem'[a] = IF a = chunk THEN NULL ELSE a - c
       /\ \A j \in Classes : \A a \in carved[j] : a \notin B /\ mem'[a] = mem[a]
  <2>1. \A a \in B : a # chunk => a - c \in Nat
    BY <1>5
  <2>2. mem' \in [Addr -> Nat]
    BY <1>6, <1>7, <2>1 DEF NULL
  <2>3. \A a \in B : mem'[a] = IF a = chunk THEN NULL ELSE a - c
    BY <1>7, <1>10
  <2>4. ASSUME NEW j \in Classes, NEW a \in carved[j]
        PROVE  a \notin B /\ mem'[a] = mem[a]
    <3>1. a \in Addr /\ a < chunk /\ z[a] = mem[a]
      BY <1>6
    <3>2. a \in B => a \in Nat /\ chunk <= a
      BY <1>5
    <3>3. a \notin B
      BY <1>4, <3>1, <3>2
    <3>4. QED
      BY <1>7, <3>1, <3>3
  <2>5. QED
    BY <2>2, <2>3, <2>4
<1>12. TypeOK'
  <2>1. p \in Nat /\ mem'[p] \in Nat /\ B \subseteq Nat
    BY <1>5, <1>10, <1>11
  <2>2. heap_start' \in Nat /\ heap_end' \in Nat /\ bump' \in Nat
        /\ initialized' \in BOOLEAN
    BY <1>1, <1>2, <1>4
  <2>3. head' \in [Classes -> Nat]
    BY <1>1, <2>1 DEF SafeInv, TypeOK
  <2>4. carved' \in [Classes -> SUBSET Nat]
    BY <1>1, <2>1 DEF SafeInv, TypeOK
  <2>5. live' \subseteq [ptr : Nat, layout : Layouts]
    BY <1>1, <1>9 DEF SafeInv, TypeOK
  <2>6. QED
    BY <1>11, <2>2, <2>3, <2>4, <2>5 DEF TypeOK
<1>13. RegionInv'
  BY <1>1, <1>2, <1>4 DEF SafeInv, RegionInv
<1>14. /\ carved'[i] = carved[i] \cup B
       /\ \A j \in Classes : j # i => carved'[j] = carved[j] /\ head'[j] = head[j]
       /\ head'[i] = mem'[p]
  BY <1>1, <1>2 DEF SafeInv, TypeOK
<1>15. ASSUME NEW j \in Classes, NEW a \in carved[j]
       PROVE  /\ a \in Nat /\ SIZE_CLASSES[j] \in Nat \ {0}
              /\ a + SIZE_CLASSES[j] <= bump /\ a + SIZE_CLASSES[j] <= chunk
  BY <1>4, Sizes DEF SafeInv, TypeOK, BlocksInv
<1>16. BlocksInv'
  <2>1. ASSUME NEW j \in Classes, NEW a \in carved'[j]
        PROVE  /\ heap_start' <= a /\ a + SIZE_CLASSES[j] <= bump'
               /\ a % SIZE_CLASSES[j] = 0
    <3>1. CASE a \in carved[j]
      BY <1>1, <1>2, <1>4, <1>15, <3>1 DEF SafeInv, BlocksInv
    <3>2. CASE a \in B /\ j = i
      <4>1. SIZE_CLASSES[j] = c
        BY <3>2 DEF c
      <4>2. a \in Nat /\ chunk <= a /\ a + c <= chunk + CHUNK_SIZE /\ a % c = 0
        BY <1>5, <3>2
      <4>3. heap_start <= a
        BY <1>4, <4>2
      <4>4. QED
        BY <1>1, <4>1, <4>2, <4>3
    <3>3. QED
      BY <1>14, <3>1, <3>2
  <2>2. ASSUME NEW j \in Classes, NEW k \in Classes,
               NEW a \in carved'[j], NEW b \in carved'[k], j # k \/ a # b
        PROVE  Apart(a, SIZE_CLASSES[j], b, SIZE_CLASSES[k])
    <3>1. CASE a \in carved[j] /\ b \in carved[k]
      BY <2>2, <3>1 DEF SafeInv, BlocksInv
    <3>2. CASE a \in B /\ j = i /\ b \in carved[k]
      BY <1>2, <1>4, <1>5, <1>15, <3>2 DEF Apart, c
    <3>3. CASE a \in carved[j] /\ b \in B /\ k = i
      <4>1. a + SIZE_CLASSES[j] <= chunk /\ a \in Nat
            /\ SIZE_CLASSES[j] \in Nat
        BY <1>15, <3>3
      <4>2. b \in Nat /\ chunk <= b
        BY <1>5, <3>3
      <4>3. QED
        BY <1>4, <4>1, <4>2 DEF Apart
    <3>4. CASE a \in B /\ j = i /\ b \in B /\ k = i
      BY <1>5, <2>2, <3>4 DEF c
    <3>5. QED
      BY <1>14, <3>1, <3>2, <3>3, <3>4
  <2>3. QED
    BY <2>1, <2>2 DEF BlocksInv
<1>17. ASSUME NEW s \in live
       PROVE  /\ s.ptr \in Nat /\ s.layout.size \in Nat \ {0}
              /\ s.ptr + s.layout.size <= bump
              /\ s.ptr + s.layout.size <= chunk /\ s.ptr \notin B
  <2>1. /\ s.ptr \in Nat /\ s.layout.size \in Nat \ {0}
        /\ s.ptr + s.layout.size <= bump
    BY LiveSpan, Sizes
  <2>2. QED
    BY <1>4, <1>5, <2>1
<1>18. LiveInv'
  <2>1. ASSUME NEW s \in live', HasClass(s.layout)
        PROVE  s.ptr \in carved'[class_index_for(s.layout)]
    <3>1. CASE s = r
      BY <1>1, <1>5, <1>14, <3>1 DEF i
    <3>2. CASE s \in live
      <4> DEFINE k == class_index_for(s.layout)
      <4>1. k \in Classes /\ s.ptr \in carved[k]
        BY <2>1, <3>2, ClassIndex DEF SafeInv, LiveInv
      <4>2. QED
        BY <1>14, <4>1
    <3>3. QED
      BY <1>1, <3>1, <3>2
  <2>2. ASSUME NEW s \in live', ~ HasClass(s.layout)
        PROVE  /\ heap_start' <= s.ptr /\ s.ptr + s.layout.size <= bump'
               /\ s.ptr % s.layout.align = 0
               /\ \A k \in Classes : \A b \in carved'[k] :
                     Apart(s.ptr, s.layout.size, b, SIZE_CLASSES[k])
               /\ \A t \in live' : (t # s /\ ~ HasClass(t.layout)) =>
                     Apart(s.ptr, s.layout.size, t.ptr, t.layout.size)
    <3>1. s \in live
      BY <1>1, <2>2
    <3>2. /\ heap_start <= s.ptr /\ s.ptr % s.layout.align = 0
          /\ \A k \in Classes : \A b \in carved[k] :
                Apart(s.ptr, s.layout.size, b, SIZE_CLASSES[k])
          /\ \A t \in live : (t # s /\ ~ HasClass(t.layout)) =>
                Apart(s.ptr, s.layout.size, t.ptr, t.layout.size)
      BY <2>2, <3>1 DEF SafeInv, LiveInv
    <3>3. s.ptr + s.layout.size <= bump'
      BY <1>1, <1>2, <1>4, <1>17, <3>1
    <3>4. \A b \in B : Apart(s.ptr, s.layout.size, b, c)
      BY <1>4, <1>5, <1>17, <3>1 DEF Apart
    <3>5. \A k \in Classes : \A b \in carved'[k] :
             Apart(s.ptr, s.layout.size, b, SIZE_CLASSES[k])
      BY <1>14, <3>2, <3>4 DEF c
    <3>6. \A t \in live' : ~ HasClass(t.layout) => t \in live
      BY <1>1
    <3>7. QED
      BY <1>1, <3>2, <3>3, <3>5, <3>6
  <2>3. \A s, t \in live' : s.ptr = t.ptr => s = t
    BY <1>1, <1>5, <1>17 DEF SafeInv, LiveInv
  <2>4. QED
    BY <2>1, <2>2, <2>3 DEF LiveInv
<1>19. /\ Free(i)' = (Free(i) \cup B) \ {p}
       /\ \A j \in Classes : j # i => Free(j)' = Free(j)
  <2>1. \A a \in B : a \notin LivePtrs
    BY <1>17 DEF LivePtrs
  <2>2. \A j \in Classes : p \notin carved[j]
    BY <1>5, <1>11
  <2>3. QED
    BY <1>2, <1>8, <1>14, <2>1, <2>2 DEF Free
<1>20. \A j \in Classes : \A a \in Free(j) :
          a \notin B /\ mem'[a] = mem[a] /\ a \in Nat
  BY <1>11, <1>15 DEF Free
<1>21. ASSUME NEW j \in Classes
       PROVE  /\ head'[j] # NULL => head'[j] \in Free(j)'
              /\ \A a \in Free(j)' : mem'[a] # NULL =>
                    /\ mem'[a] \in Free(j)' /\ mem'[a] # head'[j]
                    /\ \A b \in Free(j)' : b # a => mem'[b] # mem'[a]
  <2>1. CASE j # i
    BY <1>14, <1>19, <1>20, <2>1 DEF SafeInv, ListsInv
  <2>2. CASE j = i
    <3>1. \A a \in B : mem'[a] # NULL =>
             /\ mem'[a] = a - c /\ mem'[a] \in B /\ mem'[a] # p
             /\ a \in Nat /\ c \in Nat \ {0} /\ a <= p
      BY <1>2, <1>5, <1>11 DEF NULL
    <3>2. \A a \in Free(i) : mem[a] # NULL =>
             /\ mem[a] \in Free(i)
             /\ \A b \in Free(i) : b # a => mem[b] # mem[a]
      BY <1>2 DEF SafeInv, ListsInv
    <3>3. head'[i] # NULL => head'[i] \in B /\ head'[i] # p
      BY <1>5, <1>14, <3>1
    <3>4. head'[i] # NULL => head'[i] \in Free(i)'
      BY <1>19, <3>3
    <3>5. ASSUME NEW a \in Free(i)', mem'[a] # NULL
          PROVE  /\ mem'[a] \in Free(i)' /\ mem'[a] # head'[i]
                 /\ \A b \in Free(i)' : b # a => mem'[b] # mem'[a]
      <4>1. CASE a \in B
        <5>1. mem'[a] \in B /\ mem'[a] # p /\ mem'[a] = a - c
          BY <3>1, <3>5, <4>1
        <5>2. mem'[a] # head'[i]
          <6>1. SUFFICES ASSUME mem'[a] = mem'[p] PROVE FALSE
            BY <1>14
          <6>2. a - c = p - c /\ a \in Nat /\ p \in Nat /\ c \in Nat
            BY <1>5, <3>1, <3>5, <4>1, <6>1
          <6>3. a # p
            BY <1>19
          <6>4. QED
            BY <6>2, <6>3
        <5>3. ASSUME NEW b \in Free(i)', b # a PROVE mem'[b] # mem'[a]
          <6>1. CASE b \in B
            <7>1. SUFFICES ASSUME mem'[b] = mem'[a] PROVE FALSE
              OBVIOUS
            <7>2. a - c = b - c /\ a \in Nat /\ b \in Nat /\ c \in Nat
              BY <3>1, <3>5, <4>1, <6>1, <7>1
            <7>3. QED
              BY <5>3, <7>2
          <6>2. CASE b \in Free(i)
            BY <1>2, <1>20, <3>2, <3>5, <5>1, <6>2
          <6>3. QED
            BY <1>19, <6>1, <6>2
        <5>4. QED
          BY <1>19, <5>1, <5>2, <5>3
      <4>2. CASE a \in Free(i)
        <5>1. mem'[a] = mem[a] /\ mem[a] \in Free(i) /\ mem[a] \notin B
          BY <1>2, <1>20, <3>2, <3>5, <4>2
        <5>2. mem'[a] # p /\ mem'[a] # head'[i]
          BY <1>5, <3>3, <3>5, <5>1
        <5>3. ASSUME NEW b \in Free(i)', b # a PROVE mem'[b] # mem'[a]
          <6>1. CASE b \in B
            BY <3>1, <3>5, <5>1, <6>1
          <6>2. CASE b \in Free(i)
            BY <1>2, <1>20, <3>2, <3>5, <4>2, <5>1, <5>3, <6>2
          <6>3. QED
            BY <1>19, <6>1, <6>2
        <5>4. QED
          BY <1>19, <5>1, <5>2, <5>3
      <4>3. QED
        BY <1>19, <4>1, <4>2
    <3>6. QED
      BY <2>2, <3>4, <3>5
  <2>3. QED
    BY <2>1, <2>2
<1>22. ListsInv'
  BY <1>21 DEF ListsInv
<1>23. Complete(i)'
  <2>1. Free(i)' = B \ {p}
    <3>1. Whole(NULL, mem, Free(i))
      BY <1>1, <1>2, CompleteIsWhole DEF CompleteInv
    <3>2. QED
      BY <1>19, <3>1, WholeEmpty
  <2> SUFFICES ASSUME NEW S \in SUBSET (B \ {p}),
                      head'[i] # NULL => head'[i] \in S,
                      \A a \in S : mem'[a] # NULL => mem'[a] \in S,
                      S # B \ {p}
               PROVE  FALSE
    BY <2>1 DEF Complete
  <2> DEFINE M == (B \ {p}) \ S
             D == {p - a : a \in M}
  <2>2. D # {} /\ D \in SUBSET Nat
    <3>1. \A a \in M : a \in Nat /\ p \in Nat /\ a <= p
      BY <1>5
    <3>2. \A a \in M : p - a \in Nat
      BY <3>1
    <3>3. PICK a \in M : TRUE
      OBVIOUS
    <3>4. p - a \in D
      BY <3>3
    <3>5. QED
      BY <3>2, <3>4
  <2>3. PICK d \in D : \A e \in D : d <= e
    BY <2>2, Least
  <2>4. PICK a \in M : d = p - a
    OBVIOUS
  <2>5. /\ a \in Nat /\ p \in Nat /\ c \in Nat \ {0} /\ chunk \in Nat
        /\ 0 < chunk /\ chunk <= a /\ a + c \in B
    BY <1>2, <1>4, <1>5
  <2>6. mem'[a + c] = a /\ a # NULL
    BY <1>11, <2>5 DEF NULL
  <2>7. a + c \notin M
    <3>1. a + c \in M => d <= p - (a + c)
      BY <2>3
    <3>2. QED
      BY <2>4, <2>5, <3>1
  <2>8. a \in S
    <3>1. CASE a + c = p
      BY <1>14, <2>6, <3>1
    <3>2. CASE a + c # p
      BY <2>5, <2>6, <2>7, <3>2
    <3>3. QED
      BY <3>1, <3>2
  <2>9. QED
    BY <2>8
<1>24. \A j \in Classes : j # i => Complete(j)'
  BY <1>14, <1>19, <1>20, SameList DEF CompleteInv
<1>25. QED
  BY <1>12, <1>13, <1>16, <1>18, <1>22, <1>23, <1>24 DEF SafeInv, CompleteInv

(* A failed alloc and a stuttering step change nothing.                    *)
LEMMA StutterStep ==
    ASSUME SafeInv, CompleteInv, UNCHANGED vars
    PROVE  SafeInv' /\ CompleteInv'
<1>1. UNCHANGED <<heap_start, heap_end, bump, head, initialized, mem, live, carved>>
  BY DEF vars
<1>2. TypeOK' /\ RegionInv' /\ BlocksInv' /\ LiveInv'
  BY <1>1 DEF SafeInv, TypeOK, RegionInv, BlocksInv, LiveInv
<1>3. \A j \in Classes : Free(j)' = Free(j)
  BY <1>1 DEF Free, LivePtrs
<1>4. ListsInv'
  BY <1>1, <1>3 DEF SafeInv, ListsInv
<1>5. CompleteInv'
  BY <1>1, <1>3, SameList DEF CompleteInv
<1>6. QED
  BY <1>2, <1>4, <1>5 DEF SafeInv

(* Every step of the allocator and of its callers keeps the invariant.     *)
LEMMA NextInv == IInv /\ [Next]_vars => IInv'
<1> SUFFICES ASSUME IInv, [Next]_vars PROVE IInv'
  OBVIOUS
<1> USE DEF IInv
<1>1. ASSUME NEW h \in Heaps, init(h) PROVE IInv'
  BY <1>1, InitStep
<1>2. ASSUME NEW l \in Layouts, alloc(l) PROVE IInv'
  <2>1. CASE AllocPop(l)
    BY <2>1, PopStep
  <2>2. CASE AllocRefill(l)
    BY <2>2, RefillStep
  <2>3. CASE AllocLarge(l)
    BY <2>3, LargeStep
  <2>4. CASE AllocNull(l)
    BY <2>4, StutterStep DEF AllocNull
  <2>5. QED
    BY <1>2, <2>1, <2>2, <2>3, <2>4 DEF alloc
<1>3. ASSUME NEW r \in live, dealloc(r) PROVE IInv'
  BY <1>3, DeallocStep
<1>4. ASSUME NEW r \in live, NEW a \in Addr, NEW v \in Junk, Store(r, a, v)
      PROVE  IInv'
  BY <1>4, StoreStep
<1>5. CASE UNCHANGED vars
  BY <1>5, StutterStep
<1>6. QED
  BY <1>1, <1>2, <1>3, <1>4, <1>5 DEF Next
-----------------------------------------------------------------------------
(* The inductive invariant, and with it the types, hold in every state the *)
(* allocator can reach, for all size classes, layouts and regions.         *)
THEOREM InductiveInvariant == Spec => []IInv
BY InitInv, NextInv, PTL DEF Spec

(* Whatever the sequence of alloc and dealloc calls and whatever callers   *)
(* store in their memory, no two allocations held at once share a byte.    *)
THEOREM AllocationsDisjoint == Spec => []NoOverlap
<1>1. IInv => NoOverlap
  BY Disjoint DEF IInv
<1>2. QED
  BY <1>1, InductiveInvariant, PTL

(* The invariant places every allocation as its layout asks.               *)
LEMMA Placed == SafeInv => WellPlaced
<1> SUFFICES ASSUME SafeInv, NEW r \in live
             PROVE  /\ r.ptr # NULL /\ r.ptr % r.layout.align = 0
                    /\ heap_start <= r.ptr
                    /\ r.ptr + r.layout.size <= heap_end
  BY DEF WellPlaced
<1>1. /\ initialized /\ r.ptr \in Nat /\ r.layout \in Layouts
      /\ 0 < r.ptr /\ heap_start <= r.ptr
      /\ r.ptr + r.layout.size <= bump /\ r.ptr % r.layout.align = 0
  BY LiveSpan
<1>2. bump <= heap_end /\ bump \in Nat /\ heap_end \in Nat
      /\ r.layout.size \in Nat
  BY <1>1, Sizes DEF SafeInv, RegionInv, TypeOK
<1>3. QED
  BY <1>1, <1>2 DEF NULL

(* Every pointer alloc returns is not null, has the alignment asked for,   *)
(* and lies in the region given to init with all its bytes.                *)
THEOREM AllocationsWellPlaced == Spec => []WellPlaced
<1>1. IInv => WellPlaced
  BY Placed DEF IInv
<1>2. QED
  BY <1>1, InductiveInvariant, PTL

(* The same facts in the state after a step.                               *)
LEMMA AfterStep == SafeInv' => NoOverlap' /\ WellPlaced'
BY Disjoint, Placed, PTL

(* A step that adds an allocation and leaves the region alone grants it:   *)
(* what the invariant says of the state after the step is what Grant asks  *)
(* of the state before it.                                                 *)
LEMMA HoldGrants ==
    ASSUME SafeInv, SafeInv', NEW l \in Layouts, NEW p, Hold(p, l),
           UNCHANGED <<heap_start, heap_end>>
    PROVE  [Abstract!Next]_(Abstract!gvars)
<1> DEFINE r == [ptr |-> p, layout |-> l]
<1>1. r \in live' /\ live' = live \cup {r} /\ r.ptr = p /\ r.layout = l
  BY DEF Hold
<1> HIDE DEF r
<1>2. CASE r \in live
  BY <1>1, <1>2 DEF Abstract!gvars
<1>3. CASE r \notin live
  <2>1. p \in Nat /\ heap_start \in Nat /\ heap_end \in Nat /\ l.size \in Nat
    BY <1>1, Sizes DEF SafeInv, TypeOK
  <2>2. heap_start <= p /\ p + l.size <= heap_end /\ p % l.align = 0
    BY <1>1, AfterStep DEF WellPlaced
  <2>3. p \in heap_start .. heap_end
    BY <2>1, <2>2
  <2>4. \A s \in live : Apart(p, l.size, s.ptr, s.layout.size)
    BY <1>1, <1>3, AfterStep DEF NoOverlap
  <2>5. Abstract!Grant(p, l)
    BY <2>2, <2>4 DEF Abstract!Grant, Abstract!Apart, Apart, Hold
  <2>6. QED
    BY <2>3, <2>5 DEF Abstract!Next
<1>4. QED
  BY <1>2, <1>3

(* The slab allocator implements GlobalAlloc: every alloc that answers     *)
(* with a pointer grants fresh, aligned memory inside the region, and      *)
(* dealloc, failed allocs and callers' stores do nothing else to it.       *)
THEOREM Refinement == Spec => ImplementsGlobalAlloc
<1>1. Init => Abstract!Init
  BY DEF Init, Abstract!Init
<1>2. SafeInv /\ SafeInv' /\ [Next]_vars => [Abstract!Next]_(Abstract!gvars)
  <2> SUFFICES ASSUME SafeInv, SafeInv', [Next]_vars
               PROVE  [Abstract!Next]_(Abstract!gvars)
    OBVIOUS
  <2>1. ASSUME NEW h \in Heaps, init(h) PROVE Abstract!Next
    <3>1. Abstract!GiveRegion(h)
      BY <2>1 DEF init, Abstract!GiveRegion, SafeInv, RegionInv
    <3>2. QED
      BY <3>1 DEF Abstract!Next
  <2>2. ASSUME NEW l \in Layouts, alloc(l)
        PROVE  [Abstract!Next]_(Abstract!gvars)
    <3>1. CASE AllocPop(l)
      BY <3>1, HoldGrants DEF AllocPop, heapvars
    <3>2. CASE AllocRefill(l)
      BY <3>2, HoldGrants DEF AllocRefill, heapvars
    <3>3. CASE AllocLarge(l)
      BY <3>3, HoldGrants DEF AllocLarge, heapvars
    <3>4. CASE AllocNull(l)
      BY <3>4 DEF AllocNull, vars, Abstract!gvars
    <3>5. QED
      BY <2>2, <3>1, <3>2, <3>3, <3>4 DEF alloc
  <2>3. ASSUME NEW r \in live, dealloc(r) PROVE Abstract!Next
    <3>1. Abstract!TakeBack(r)
      BY <2>3 DEF dealloc, heapvars, Abstract!TakeBack
    <3>2. QED
      BY <3>1 DEF Abstract!Next
  <2>4. ASSUME NEW r \in live, NEW a \in Addr, NEW v \in Junk, Store(r, a, v)
        PROVE  UNCHANGED Abstract!gvars
    BY <2>4 DEF Store, heapvars, Abstract!gvars
  <2>5. CASE UNCHANGED vars
    BY <2>5 DEF vars, Abstract!gvars
  <2>6. QED
    BY <2>1, <2>2, <2>3, <2>4, <2>5 DEF Next
<1>3. IInv => SafeInv
  BY DEF IInv
<1>4. QED
  BY <1>1, <1>2, <1>3, InductiveInvariant, PTL
     DEF Spec, ImplementsGlobalAlloc, Abstract!Spec
-----------------------------------------------------------------------------
(* Following the links of a list, one step for every block found so far.   *)
(* f[n] is what n steps find.                                              *)
Grow(m, s) == s \cup ({m[a] : a \in s} \ {NULL})
Visits(f, m, h, k) ==
    f = [n \in 0 .. k |-> IF n = 0 THEN {h} \ {NULL} ELSE Grow(m, f[n - 1])]

(* There is such an f for every number of steps: the least number without  *)
(* one would have it from the number before.                               *)
LEMMA VisitsExist ==
    ASSUME NEW m, NEW h, NEW k \in Nat
    PROVE  \E f : Visits(f, m, h, k)
<1> DEFINE T == {n \in Nat : ~ \E f : Visits(f, m, h, n)}
<1> SUFFICES ASSUME T # {} PROVE FALSE
  OBVIOUS
<1>1. PICK n \in T : \A y \in T : n <= y
  <2>1. T \in SUBSET Nat
    OBVIOUS
  <2> HIDE DEF T
  <2>2. QED
    BY <2>1, Least
<1>2. n # 0
  <2> SUFFICES ASSUME n = 0 PROVE FALSE
    OBVIOUS
  <2> DEFINE g == [j \in 0 .. 0 |-> {h} \ {NULL}]
  <2>1. Visits(g, m, h, 0)
    BY DEF Visits
  <2>2. QED
    BY <2>1
<1>3. PICK g : Visits(g, m, h, n - 1)
  <2>1. n - 1 \in Nat /\ ~ (n <= n - 1)
    BY <1>2
  <2>2. n - 1 \notin T
    BY <1>1, <2>1
  <2>3. QED
    BY <2>1, <2>2
<1> DEFINE f == [j \in 0 .. n |-> IF j = n THEN Grow(m, g[n - 1]) ELSE g[j]]
<1>4. n \in Nat
  OBVIOUS
<1> HIDE DEF T
<1>5. ASSUME NEW j \in 0 .. n
      PROVE  f[j] = IF j = 0 THEN {h} \ {NULL} ELSE Grow(m, f[j - 1])
  <2>1. CASE j = n
    BY <1>2, <1>4, <2>1
  <2>2. CASE j # n
    <3>1. j \in 0 .. n - 1
      BY <1>4, <2>2
    <3>2. g[j] = IF j = 0 THEN {h} \ {NULL} ELSE Grow(m, g[j - 1])
      BY <1>3, <3>1 DEF Visits
    <3>3. j # 0 => f[j - 1] = g[j - 1]
      BY <1>4, <2>2
    <3>4. QED
      BY <2>2, <3>2, <3>3
  <2>3. QED
    BY <2>1, <2>2
<1>6. Visits(f, m, h, n)
  <2>1. f = [j \in 0 .. n |-> f[j]]
    OBVIOUS
  <2> HIDE DEF f
  <2>2. QED
    BY <1>5, <2>1 DEF Visits
<1>7. QED
  BY <1>6 DEF T

(* Reached is what WORD steps find.                                        *)
LEMMA ReachedVisits ==
    ASSUME NEW i \in Classes
    PROVE  \E f : Visits(f, mem, head[i], WORD) /\ Reached(i) = f[WORD]
<1> DEFINE v == CHOOSE f : Visits(f, mem, head[i], WORD)
<1>1. \E f : Visits(f, mem, head[i], WORD)
  BY VisitsExist, WordAssumption
<1>2. Visits(v, mem, head[i], WORD)
  BY <1>1
<1>3. Reached(i) = v[WORD]
  BY DEF Reached, Visits, Grow
<1>4. QED
  BY <1>2, <1>3

(* Steps that follow links inside a whole list with fewer than k blocks    *)
(* have found them all after k steps: a step that finds nothing new has    *)
(* found them all, and k steps cannot each find something new.             *)
LEMMA VisitsFindAll ==
    ASSUME NEW m, NEW h, NEW k \in Nat, NEW F \in SUBSET (1 .. k - 1),
           Whole(h, m, F), h # NULL => h \in F,
           \A a \in F : m[a] # NULL => m[a] \in F,
           NEW f, Visits(f, m, h, k)
    PROVE  f[k] = F
<1>1. f[0] = {h} \ {NULL}
  BY DEF Visits
<1>2. ASSUME NEW n \in 0 .. k - 1 PROVE f[n + 1] = Grow(m, f[n])
  <2>1. n + 1 \in 0 .. k /\ n + 1 # 0 /\ (n + 1) - 1 = n
    OBVIOUS
  <2>2. f[n + 1] = IF n + 1 = 0 THEN {h} \ {NULL} ELSE Grow(m, f[(n + 1) - 1])
    BY <2>1 DEF Visits
  <2>3. QED
    BY <2>1, <2>2
<1>3. \A s \in SUBSET F : s \subseteq Grow(m, s) /\ Grow(m, s) \in SUBSET F
  BY DEF Grow
<1>4. \A s \in SUBSET F :
         (h # NULL => h \in s) /\ Grow(m, s) = s => s = F
  <2> SUFFICES ASSUME NEW s \in SUBSET F, h # NULL => h \in s, Grow(m, s) = s
               PROVE  s = F
    OBVIOUS
  <2>1. \A a \in s : m[a] # NULL => m[a] \in s
    BY DEF Grow
  <2>2. QED
    BY <2>1 DEF Whole
<1>5. Grow(m, F) = F
  BY <1>3
<1>6. IsFiniteSet(F) /\ Cardinality(F) \in Nat /\ (Cardinality(F) < k \/ k = 0)
  <2>1. /\ IsFiniteSet(1 .. k - 1)
        /\ Cardinality(1 .. k - 1) = IF 1 > k - 1 THEN 0 ELSE (k - 1) - 1 + 1
    BY FS_Interval
  <2>2. IsFiniteSet(F) /\ Cardinality(F) <= Cardinality(1 .. k - 1)
    BY <2>1, FS_Subset
  <2>3. Cardinality(F) \in Nat
    BY <2>2, FS_CardinalityType
  <2>4. QED
    BY <2>1, <2>2, <2>3
<1> DEFINE Good(n) == /\ f[n] \in SUBSET F /\ (h # NULL => h \in f[n])
                      /\ f[n] = F \/ n <= Cardinality(f[n])
           T == {n \in 0 .. k : ~ Good(n)}
<1>7. Good(0)
  <2>1. f[0] \in SUBSET F /\ (h # NULL => h \in f[0])
    BY <1>1
  <2>2. IsFiniteSet(f[0])
    <3>1. IsFiniteSet({h})
      BY FS_Singleton
    <3>2. {h} \ {NULL} \in SUBSET {h}
      OBVIOUS
    <3>3. QED
      BY <1>1, <3>1, <3>2, FS_Subset
  <2>3. Cardinality(f[0]) \in Nat
    BY <2>2, FS_CardinalityType
  <2>4. QED
    BY <2>1, <2>3
<1>8. ASSUME NEW n \in 0 .. k - 1, Good(n) PROVE Good(n + 1)
  <2>1. /\ f[n + 1] = Grow(m, f[n]) /\ f[n] \subseteq f[n + 1]
        /\ f[n + 1] \in SUBSET F /\ (h # NULL => h \in f[n + 1])
    <3>1. f[n + 1] = Grow(m, f[n])
      BY <1>2
    <3>2. f[n] \in SUBSET F /\ (h # NULL => h \in f[n])
      BY <1>8
    <3>3. f[n] \subseteq Grow(m, f[n]) /\ Grow(m, f[n]) \in SUBSET F
      BY <1>3, <3>2, Zenon
    <3>4. QED
      BY <3>1, <3>2, <3>3
  <2>2. CASE f[n] = F
    BY <1>5, <2>1, <2>2
  <2>3. CASE f[n] # F
    <3>1. f[n + 1] # f[n]
      BY <1>4, <1>8, <2>1, <2>3
    <3>2. k # 0 /\ n \in Nat
      OBVIOUS
    <3>3. IsFiniteSet(f[n + 1])
      BY <1>6, <2>1, <3>2, FS_Subset
    <3>4. /\ IsFiniteSet(f[n]) /\ Cardinality(f[n]) <= Cardinality(f[n + 1])
          /\ Cardinality(f[n + 1]) # Cardinality(f[n])
      BY <2>1, <3>1, <3>3, FS_Subset
    <3>5. Cardinality(f[n]) \in Nat /\ Cardinality(f[n + 1]) \in Nat
      BY <3>3, <3>4, FS_CardinalityType
    <3>6. n <= Cardinality(f[n])
      BY <1>8, <2>3
    <3>7. n + 1 <= Cardinality(f[n + 1])
      BY <3>2, <3>4, <3>5, <3>6
    <3>8. QED
      BY <2>1, <3>7
  <2>4. QED
    BY <2>2, <2>3
<1>9. Good(k)
  <2> SUFFICES ASSUME ~ Good(k) PROVE FALSE
    OBVIOUS
  <2>1. T \in SUBSET Nat /\ k \in T
    OBVIOUS
  <2> HIDE DEF Good
  <2>2. PICK n \in T : \A y \in T : n <= y
    <3> HIDE DEF T
    <3>1. QED
      BY <2>1, Least
  <2>3. n # 0 /\ n \in 0 .. k
    BY <1>7
  <2>4. n - 1 \in 0 .. k - 1 /\ n - 1 \in 0 .. k /\ ~ (n <= n - 1)
    BY <2>3
  <2>5. n - 1 \notin T
    BY <2>2, <2>4
  <2>6. Good(n - 1)
    BY <2>4, <2>5
  <2>7. Good((n - 1) + 1)
    BY <1>8, <2>4, <2>6
  <2>8. (n - 1) + 1 = n
    BY <2>3
  <2>9. QED
    BY <2>7, <2>8
<1>10. CASE k = 0
  <2>1. F = {}
    BY <1>10
  <2>2. QED
    BY <1>9, <2>1
<1>11. CASE k # 0
  <2>1. Cardinality(f[k]) <= Cardinality(F) /\ IsFiniteSet(f[k])
    <3>1. IsFiniteSet(F) /\ f[k] \in SUBSET F
      BY <1>6, <1>9, <1>11
    <3>2. QED
      BY <3>1, FS_Subset
  <2>2. Cardinality(f[k]) \in Nat
    BY <2>1, FS_CardinalityType
  <2>3. ~ (k <= Cardinality(f[k]))
    BY <1>6, <1>11, <2>1, <2>2
  <2>4. QED
    BY <1>9, <2>3
<1>12. QED
  BY <1>10, <1>11

(* Free blocks have addresses below WORD, and none is null.                *)
LEMMA FreeRange ==
    ASSUME SafeInv, NEW i \in Classes
    PROVE  Free(i) \in SUBSET (1 .. WORD - 1)
<1> SUFFICES ASSUME NEW a \in carved[i] PROVE a \in 1 .. WORD - 1
  BY DEF Free
<1>1. initialized
  BY DEF SafeInv, RegionInv
<1>2. /\ a \in Nat /\ heap_start <= a /\ a + SIZE_CLASSES[i] <= bump
      /\ 0 < heap_start /\ bump <= heap_end /\ heap_end + CHUNK_SIZE <= WORD
      /\ bump \in Nat /\ heap_end \in Nat /\ heap_start \in Nat
  BY <1>1 DEF SafeInv, TypeOK, BlocksInv, RegionInv
<1>3. QED
  BY <1>2, Sizes

(* The invariant says in one step what following the links finds in many.  *)
LEMMA AllReached == IInv => NoLostBlock
<1> SUFFICES ASSUME IInv, NEW i \in Classes PROVE Reached(i) = Free(i)
  BY DEF NoLostBlock
<1>1. PICK f : Visits(f, mem, head[i], WORD) /\ Reached(i) = f[WORD]
  BY ReachedVisits
<1>2. Free(i) \in SUBSET (1 .. WORD - 1) /\ WORD \in Nat
  BY FreeRange, Sizes DEF IInv
<1>3. Whole(head[i], mem, Free(i))
  BY CompleteIsWhole DEF IInv, CompleteInv
<1>4. /\ head[i] # NULL => head[i] \in Free(i)
      /\ \A a \in Free(i) : mem[a] # NULL => mem[a] \in Free(i)
  BY DEF IInv, SafeInv, ListsInv
<1>5. f[WORD] = Free(i)
  BY <1>1, <1>2, <1>3, <1>4, VisitsFindAll
<1>6. QED
  BY <1>1, <1>5

(* No block is ever lost: after any calls and whatever callers store, the  *)
(* list in memory leads to exactly the blocks of the class that are free.  *)
THEOREM NothingLost == Spec => []NoLostBlock
BY InductiveInvariant, AllReached, PTL
=============================================================================
